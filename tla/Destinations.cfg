SPECIFICATION Spec
CONSTANTS
  b1 = b1
  b2 = b2
  d1 = d1
  d2 = d2
  d3 = d3
  a1 = a1
  a2 = a2
  NoDest = NoDest
  Blobs = {b1, b2}
  Dests = {d1, d2}
  FirstDest = d1
  Foreign = {}
  Admins = {a1}
  Overlap = {"add", "delete"}
  CutShort = FALSE
  PromoteClean = TRUE
  ConfFails = FALSE
SYMMETRY Sym
VIEW WithoutFailures
INVARIANT MirrorsQueued PrimaryComplete
PROPERTY PruneSafe
