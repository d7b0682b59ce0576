SPECIFICATION Spec
CONSTANTS
    Op = {o1, o2, o3}
    Part = {w1, w2}
    UoW = {a}
    Thread = {t1}
    None = None
    HandlerWrites = TRUE
    BareMutations = TRUE
    Shared = FALSE
    RollbackFails = TRUE
CHECK_DEADLOCK FALSE
SYMMETRY MCSymmetry
INVARIANTS OwnersAtomic NoLeftovers
PROPERTIES PoisonIsFinal
