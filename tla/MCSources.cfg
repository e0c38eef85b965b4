CONSTANTS
    c1 = c1
    c2 = c2
    l1 = l1
    t1 = t1
    t2 = t2
    o1 = o1
    o2 = o2
    o3 = o3
    m1 = m1
    m2 = m2
    None = None
    Nil = Nil
    Country = {c1, c2}
    List = {l1}
    Config <- Configs
    Interval <- IntervalVal
    Jitter = 1
    Horizon = 3
    MaxMonth = 2
    MaxReload = 2
    MaxRefresh = 1
    Txn = {t1, t2}
    Selectors = {c1, c2, l1}
    Due <- DueVal
    MaxConcurrent = 2
    MaxAttempts = 2
    Cancelable = {t1}
    Object = {o1, o2, o3}
    Manifest = {m1, m2}
    Entries <- EntriesVal
    Stager = {s1, s2}
    MaxFaults = 1
SPECIFICATION AnySpec
INVARIANTS
    SnapshotExact
    RootCause
    StagedIsDurable
    NamedLoads
PROPERTIES
    Returns
CHECK_DEADLOCK FALSE
