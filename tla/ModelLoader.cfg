SPECIFICATION Spec
CONSTANTS
    tw_nnodes = 2
    MAX_NEURON_GROUPS = 3
    MAX_SYNAPSE_GROUPS = 3
    g_tw_nkp = 1
    Files <- MCFiles
INVARIANTS
    WeightsAsStored
    LoaderAsserts
    LoadsCompleteFiles
CHECK_DEADLOCK FALSE
