SPECIFICATION Spec
CONSTANTS
    tw_nnodes = 3
    MAX_NEURON_GROUPS = 3
    MAX_SYNAPSE_GROUPS = 1
    g_tw_nkp = 2
    GroupSizes = {1, 2, 5}
    Placements <- MCPlacements
    FromRanges <- MCFromRanges
    ToRanges <- MCToRanges
    ConvParams = {}
INVARIANTS
    IdMapsAgree
    LocalOrder
    SynapsesFit
CHECK_DEADLOCK FALSE
