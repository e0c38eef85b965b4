CONSTANTS
    c1 = c1
    c2 = c2
    l1 = l1
    None = None
    Country = {c1, c2}
    List = {l1}
    Config <- Pair
    Interval <- IntervalVal
    Jitter = 1
    Horizon = 4
    MaxMonth = 2
    MaxReload = 2
    MaxRefresh = 1
SPECIFICATION FairSpec
PROPERTIES
    ReleaseNeverOlder
CHECK_DEADLOCK FALSE
