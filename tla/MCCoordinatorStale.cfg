SPECIFICATION MCFairSpec
CONSTANTS
    Req = {r1}
    Digest = {d1, d2}
    d1 = d1
    d2 = d2
    addr = addr
    None = None
    Expect = {None}
    Recovered <- Restart
    Listen <- MCListen
    MaxEpoch = 3
    MaxRefresh = 1
    ReloadSlots = 1
    MaxFaults = 0
PROPERTIES
    StaleResultInert
