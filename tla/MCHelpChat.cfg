SPECIFICATION Spec
CONSTANTS
    helper = helper
    People = {helper}
    Slots = {s1}
    s1 = s1
    PageSize = 1
    MaxPosts = 2
    MaxReports = 1
    MaxDrops = 1
INVARIANTS
    DeletedIsHidden
    ReadyPageIsComplete
    LateJoinIsPrivate
    QueueIsFresh
    VerdictIsTrue
