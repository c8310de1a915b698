SPECIFICATION FairSpec
CONSTANTS
  f1 = f1
  f2 = f2
  b1 = b1
  b2 = b2
  b3 = b3
  Files = {f1}
  Blobs = {b1, b2}
  NoBlob = NoBlob
  EpochEnabled = TRUE
  LockDuringOps = FALSE
  OpsDuringPush = TRUE
  MaxCounter = 2
PROPERTY ManifestsOrdered PushEnds
