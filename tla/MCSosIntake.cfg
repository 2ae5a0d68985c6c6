SPECIFICATION FairSpec
CONSTANTS
    guest = guest
    line1 = line1
    Clients = {guest}
    Ip <- OwnLines
    Copies <- RowNames
    Slots = {1, 2}
INVARIANTS
    TypeOK
    OneSosPerUser
PROPERTIES
    ShownSosIsActive
    IsHeard
