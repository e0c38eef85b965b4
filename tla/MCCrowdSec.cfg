SPECIFICATION FairSpec
CONSTANTS
    Ban = {b1}
    Key = {k1, k2}
    None = None
    MaxApply = 3
    MaxChange = 1
    MaxUnread = 0
    MaxFaults = 2
CHECK_DEADLOCK FALSE
INVARIANTS
    EnforcedIsStore
    AuthorityIsDurable
    ViewCoherent
    NoLostDecision
PROPERTIES
    Converges
