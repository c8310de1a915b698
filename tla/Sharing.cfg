SPECIFICATION Spec
CONSTANTS
    Files = {f1}
    Contacts = {c1, c2}
    Shares = {s1, s2}
    NChunks = 2
    Provider = "b2"
    KeyLife = 3
    Never = Never
    Expiries = {1, Never}
    MaxTime = 3
    MaxOwed = 1
    Kinds = {"downloaded"}
    Perils = {}
SYMMETRY Sym
INVARIANT ActiveIsServed RevokedIsCut CopiesAreOwned ReceiptIsTrue
CHECK_DEADLOCK FALSE
