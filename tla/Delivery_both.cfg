SPECIFICATION MCSpec
CONSTANTS
    a = a
    b = b
    c = c
    p = p
    q = q
    NoId = none
    Stream = stream
    Ids <- ThreeIds
    Posts <- TwoPosts
    Max = 2
    Verify = TRUE
    StreamSound = FALSE
    HookMax = 1
    MaxSent = 2
    MaxCopies = 2
    MaxSeconds = 1
    MaxBoots = 1
    MaxReceipts = 5
INVARIANTS
    AllTyped
    RunsOnce
    DirectRunsUnlessSpoiled
    EmittedOnce
    DropsAreLikeTold
PROPERTIES
    IsWindow
CHECK_DEADLOCK FALSE
SYMMETRY Symmetric
