SPECIFICATION OverlapSpec
CONSTANTS
    author = author
    helper1 = helper1
    helper2 = helper2
    helper3 = helper3
    coordinator = coordinator
    NoUser = NoUser
    Users <- Everybody
    Staff <- NoStaff
    Author = author
    IsSOS = FALSE
    Cap = 2
    Slots = {s1, s2}
    MaxVersion = 1
    Endpoints = {"respond", "my-response", "chat"}
INVARIANTS
    RoomIsPrivate
SYMMETRY HelperSymmetry
CHECK_DEADLOCK FALSE
