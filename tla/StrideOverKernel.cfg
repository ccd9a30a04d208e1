SPECIFICATION Spec
CONSTANTS
    tw_nnodes = 1
    MAX_NEURON_GROUPS = 2
    MAX_SYNAPSE_GROUPS = 1
    g_tw_nkp = 2
    GroupSizes = {6, 9}
    Placements <- OnePE
    FromRanges <- Image
    ToRanges <- SmallerImage
    ConvParams <- Skipping
INVARIANTS
    KernelPositions
CHECK_DEADLOCK FALSE
