SPECIFICATION OverlapSpec
CONSTANTS
    author = author
    helper1 = helper1
    helper2 = helper2
    helper3 = helper3
    coordinator = coordinator
    NoUser = NoUser
    Users <- Crowd
    Staff <- NoStaff
    Author = author
    IsSOS = FALSE
    Cap = 1
    Slots = {s1, s2}
    MaxVersion = 2
    Endpoints = {"respond", "handshake", "patch"}
INVARIANTS
    OverrunIsBounded
    VerdictsAgree
VIEW CapView
SYMMETRY CrowdSymmetry
CHECK_DEADLOCK FALSE
