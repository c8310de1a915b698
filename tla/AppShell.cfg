SPECIFICATION Spec
CONSTANTS
    Vaults = {v1, v2}
    InCloud = {v1}
    Cmds = {c1, c2}
    Navs = {n1, n2}
    None = None
    Perils = {}
SYMMETRY Sym
INVARIANT ScreenMatches NoForeignListing WiredToSession
PROPERTY VaultsKept
CHECK_DEADLOCK FALSE
