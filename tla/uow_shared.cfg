SPECIFICATION Spec
CONSTANTS
    Op = {o1, o2}
    Part = {w1, w2}
    UoW = {a}
    Thread = {t1, t2}
    None = None
    HandlerWrites = FALSE
    BareMutations = TRUE
    Shared = TRUE
    RollbackFails = FALSE
CHECK_DEADLOCK FALSE
INVARIANT NoReportedWriteIsLost
