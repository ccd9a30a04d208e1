SPECIFICATION Spec
CONSTANTS
    NumPEs = {1, 2, 3}
    ProbeChoices <- MCProbeChoices
INVARIANTS
    CleanEnd
    RunsPrepared
PROPERTIES
    EveryPEEnds
