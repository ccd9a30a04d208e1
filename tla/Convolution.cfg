SPECIFICATION Spec
CONSTANTS
    tw_nnodes = 2
    MAX_NEURON_GROUPS = 2
    MAX_SYNAPSE_GROUPS = 2
    g_tw_nkp = 2
    GroupSizes = {9}
    Placements <- AllPEs
    FromRanges <- ConvFrom
    ToRanges <- ConvTo
    ConvParams <- MCConvParams
INVARIANTS
    SynapsesFit
    SynapsesAsMeant
CHECK_DEADLOCK FALSE
