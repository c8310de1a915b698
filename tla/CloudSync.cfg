SPECIFICATION Spec
CONSTANTS
  d1 = d1
  d2 = d2
  f1 = f1
  f2 = f2
  f3 = f3
  Devices = {d1, d2}
  FirstDevice = d1
  Files = {f1, f2}
  MaxCounter = 4
  Perils = {}
SYMMETRY Sym
INVARIANT ManifestBacked NoOrphans
PROPERTY SharedSpec
