CONSTANTS
    Ban = {b1}
    Key = {k1}
    None = None
    MaxApply = 3
    MaxChange = 0
    MaxUnread = 1
    MaxFaults = 2
SPECIFICATION Spec
CHECK_DEADLOCK FALSE
INVARIANTS
    ActiveClientOpen
