SPECIFICATION Spec
CONSTANTS
    None = None
    o = o
    w = w
    p = p
    also = also
    Organization = {o}
    Workplace = {w}
    Principal = {p}
    Change = {c1, c2, c3, also}
    GrantScope <- Scopes2
    Key = {theme, locale}
    Calls <- TheCalls
SYMMETRY Interchangeable
INVARIANTS RevokedMeansRevoked GrantStands LostOnlyToOverlap LinkedOnce ViewsAgree
