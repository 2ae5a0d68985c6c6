SPECIFICATION Spec
CONSTANTS
    helper = helper
    People = {helper}
    Slots = {s1}
    s1 = s1
    PageSize = 1
    MaxPosts = 2
    MaxReports = 0
    MaxDrops = 0
INVARIANT SeesFromResponseOnward
CHECK_DEADLOCK FALSE
