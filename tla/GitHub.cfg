SPECIFICATION MCSpec
CONSTANTS
    r1 = r1
    r2 = r2
    w1 = w1
    a1 = a1
    a2 = a2
    d1 = d1
    c1 = c1
    c2 = c2
    Variants = {"v1"}
    NotDraft = {"v1"}
    MaxHead = 2
    MaxCloses = 1
    MaxFlight = 2
    MaxSwept = 1
    Repos = {"p", "q"}
    Runs = {1}
    RepoOf <- RunOfP
    Last = 2
    MaxAge = 2
    Readers <- TwoReaders
    Writers <- OneWriter
    TTL = 1
    Timeout = 1
    MaxVersion = 2
    MaxReads = 3
    Appliers <- TwoAppliers
    Deleters <- OneDeleter
    MaxCommits = 3
    MaxFailures = 1
    Callers <- TwoCallers
    MaxEnds = 2
    MaxErrors = 1
INVARIANTS
    AllTyped
    RunsWereTrue
    SeesWritesAlone
    SessionsServe
PROPERTIES
    SweepRecovers
    HooksReach
    StuckIsTold
    BranchKept
CHECK_DEADLOCK FALSE
