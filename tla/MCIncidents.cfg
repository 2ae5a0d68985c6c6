SPECIFICATION MapSpec
CONSTANTS
    Editors = {u1}
    NoUser = NoUser
    NoChange = NoChange
    Slots = {s1, s2}
    MaxVersion = 2
    Loads = {l1, l2}
    MaxMoves = 1
    MaxFaults = 1
INVARIANTS
    SnapshotHolds
    MarkersAreCurrent
PROPERTIES
    LifecycleSpec
    BackwardsForACause
CHECK_DEADLOCK FALSE
SYMMETRY Symmetry
