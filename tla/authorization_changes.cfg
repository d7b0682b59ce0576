SPECIFICATION Spec
CONSTANTS
    Request = {r1, r2}
    Principal = {p1, p2}
    Confirmation = {c1}
    Change = {n1}
    Table = {"direct", "role"}
    InitialRule = {"deny", "confirm", "allow"}
    None = None
SYMMETRY MCSymmetry
INVARIANTS ConfirmedEffects EverAuthorized
CHECK_DEADLOCK FALSE
