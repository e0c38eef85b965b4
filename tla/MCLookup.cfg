CONSTANTS
    Reader = {r1, r2}
    State = {s1, s2}
    None = None
    MaxVersion = 4
SPECIFICATION AnySpec
INVARIANTS
    SetsExact
    CompiledAsWritten
    AnswerTrue
    ShownExact
    AnswerWasEnforced
CHECK_DEADLOCK FALSE
