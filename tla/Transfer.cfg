SPECIFICATION TransferSpec
CONSTANTS
    Files = {f1, f2}
    Tasks = {t1}
    f1 = f1  f2 = f2
    t1 = t1
    Chunk = 3
    Sizes = {0, 1, 2, 4}
    MaxSize = 4
    MaxView = 3
    MaxRange = 2
    EpochEnabled = TRUE
    Perils = {}
    None = None
SYMMETRY Symmetry
INVARIANT DownloadExact ContentKept FailsWithCause NoTrace
CHECK_DEADLOCK FALSE
