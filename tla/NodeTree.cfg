SPECIFICATION Spec
CONSTANTS
    MaxId = 5
    Adders = {a1, a2}
    Deleters = {d1}
    None = None
    TwoRoots = FALSE
    IntoDeleted = TRUE
SYMMETRY Sym
INVARIANT Forest Reachable Accounted
CHECK_DEADLOCK FALSE
