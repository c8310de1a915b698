SPECIFICATION Spec
CONSTANTS
  t1 = t1
  t2 = t2
  f1 = f1
  f2 = f2
  Tasks = {t1, t2}
  Files = {f1, f2}
  Packed = {f2}
  Kinds = {"change", "setup", "recover", "sync"}
  Calm = {TRUE, FALSE}
  CalmOverlap = {"change"}
  CalmFaults = {"push"}
  Overlap = {"change", "setup", "recover", "sync", "file"}
  Faults = {"upload", "push", "rekey", "open", "write", "keyfile", "crash"}
  FaultFiles = {f1}
  FaultGen = 3
  MaxGen = 5
  MaxPhrases = 1
SYMMETRY Sym
INVARIANT Openable FileKeysCurrent PhrasesOpen StaleCloudFlagged KeysOrdered
