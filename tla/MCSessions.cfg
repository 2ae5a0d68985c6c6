SPECIFICATION Spec
CONSTANTS
    s1 = s1
    s2 = s2
    Slots = {s1, s2}
    Kinds = {"me", "role", "logout-all", "force", "socket", "login"}
    TTL = 2
    MaxDelay = 1
    MaxVersion = 2
INVARIANTS
    FreshTokenPasses
    RoleDriftNeedsRevokedCaller
    OnlyLateJoinersStay
PROPERTIES
    RevokedWithinWindow
SYMMETRY Symmetry
