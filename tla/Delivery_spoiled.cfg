SPECIFICATION MCSpec
CONSTANTS
    a = a
    b = b
    c = c
    p = p
    q = q
    NoId = none
    Stream = stream
    Ids <- ThreeIds
    Posts <- TwoPosts
    Max = 2
    Verify = TRUE
    StreamSound = FALSE
    HookMax = 1
    MaxSent = 2
    MaxCopies = 2
    MaxSeconds = 1
    MaxBoots = 1
    MaxReceipts = 2
INVARIANTS
    DirectRuns
CHECK_DEADLOCK FALSE
SYMMETRY Symmetric
