SPECIFICATION FairSpec
CONSTANTS
    MaxFaults = 2
    r1 = r1
    r2 = r2
    r3 = r3
    Rev = {r1, r2, r3}
    Gen = {r1, r2, r3}
    NoRev = NoRev
    NoGen = NoRev
    IPTables = "iptables"
    Place <- MixedPlace
    Covers <- AllFamilies
PROPERTIES
    PreviousKept
