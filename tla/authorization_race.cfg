SPECIFICATION FairSpec
CONSTANTS
    Request = {r1, r2, r3}
    Principal = {p1}
    Confirmation = {c1}
    Change = {}
    Table = {"direct"}
    InitialRule = {"confirm"}
    None = None
INVARIANTS SpentWithEffect
PROPERTIES ImplementsOneTimeConfirmation RequestsEnd
CHECK_DEADLOCK FALSE
