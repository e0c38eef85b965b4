SPECIFICATION MCFairSpec
CONSTANTS
    Req = {r1}
    Digest = {d1, d2}
    d1 = d1
    d2 = d2
    addr = addr
    None = None
    Expect = {d1}
    Recovered <- AnyStart
    Listen <- MCListen
    MaxEpoch = 2
    MaxRefresh = 1
    ReloadSlots = 1
    MaxFaults = 2
INVARIANTS
    TruthfulAnswers
    PublishedIsActive
    HandlesOwned
PROPERTIES
    NoStaleCommit
    RequestsAnswered
