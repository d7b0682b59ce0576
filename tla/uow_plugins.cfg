SPECIFICATION Spec
CONSTANTS
    Op = {o1, o2, o3}
    Part = {w1, w2}
    UoW = {a, b}
    Thread = {t1, t2}
    None = None
    HandlerWrites = FALSE
    BareMutations = FALSE
    Shared = FALSE
    RollbackFails = TRUE
CHECK_DEADLOCK FALSE
SYMMETRY MCSymmetry
INVARIANTS OperationsAtomic
PROPERTIES ImplementsAtomicOperations
