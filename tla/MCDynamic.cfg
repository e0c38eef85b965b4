CONSTANTS
    Ban = {b1, b2}
    ID = {i1, i2}
    None = None
SPECIFICATION Spec
SYMMETRY Symmetry
INVARIANTS
    StoreIsAuthority
    ProjectionExact
    ViewIsKernel
    BanIsDecision
    ExportedIsRead
CHECK_DEADLOCK FALSE
