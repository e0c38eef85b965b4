SPECIFICATION Spec
CONSTANTS
    MaxFaults = 3
    g1 = g1
    g2 = g2
    g3 = g3
    d1 = d1
    d2 = d2
    a1 = a1
    a2 = a2
    Gen = {g1, g2, g3}
    NoGen = NoGen
    Attach = {a1, a2}
    Covers <- MCCovers
    Hooks <- MCHooks
    Elems <- MCElems
    Dynamic <- MCDynamic
    SetBudget = 12
    OutputLimit = 18
    TableBudget = 8
INVARIANTS
    NeverRefused
PROPERTIES
    Enforces
    CallsAsAssumed
