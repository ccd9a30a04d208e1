SPECIFICATION Spec
CONSTANTS
    tw_nnodes = 2
    Layouts <- MCLayouts
    Sources <- MCSources
INVARIANTS
    RoomSuffices
    SpikesReachOwners
CHECK_DEADLOCK FALSE
