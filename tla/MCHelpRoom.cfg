SPECIFICATION OverlapSpec
CONSTANTS
    author = author
    helper1 = helper1
    helper2 = helper2
    helper3 = helper3
    coordinator = coordinator
    NoUser = NoUser
    Users <- WithStaff
    Staff <- JustStaff
    Author = NoUser
    IsSOS = TRUE
    Cap = 1
    Slots = {s1, s2}
    MaxVersion = 1
    Endpoints = {"respond", "participants", "delete", "patch", "follow-up", "chat", "failure"}
INVARIANTS
    RoomMatchesAccess
PROPERTIES
    DeletedRoomStaysClosed
VIEW RoomView
SYMMETRY Symmetry
CHECK_DEADLOCK FALSE
