SPECIFICATION FairSpec
CONSTANTS
    Binding = {b1}
    Captures = {{b1}}
    Gen = {1, 2}
    Session = {1, 2}
    Op = {1, 2}
    None = None
    MaxSDKDials = 1
CHECK_DEADLOCK FALSE
INVARIANTS
    HeldNotRetired
    ConnectionsOwned
    CloseWaitsForAll
PROPERTIES
    EndedReturns
