SPECIFICATION Spec
CONSTANTS
    tw_nnodes = 1
    MAX_NEURON_GROUPS = 2
    MAX_SYNAPSE_GROUPS = 1
    g_tw_nkp = 2
    GroupSizes = {1}
    Placements <- OnePE
    FromRanges <- Pixel
    ToRanges <- OtherPixel
    ConvParams <- TooLarge
INVARIANTS
    ShapesPositive
CHECK_DEADLOCK FALSE
