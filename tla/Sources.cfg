SPECIFICATION MCSpec
CONSTANTS
    e1 = e1
    e2 = e2
    Events <- TwoEvents
    Interval = 10
    MinInterval = 1
    DefaultMax = 120
    DefaultMin = 4
    SweepFloor = 2
    Modes = {"webhook", "poll"}
    Discovers = TRUE
    MaxFailures = 1
    Window = 2
    MaxArms = 3
    MaxStarts = 3
    NoOne = 0
    Mails <- ThreeMails
    IdOf <- MessageId
    MailFailures = 2
    MailRestarts = 1
    MaxReplies = 2
    MaxOthers = 1
    MaxDrops = 3
    Things = {1, 2}
    Max = 2
    MaxTurns = 2
    PollFailures = 1
    PollRestarts = 1
    QueueMessages = {1, 2}
    MaxTold = 2
    MaxLost = 3
    LastEvent = 3
    Limit = 2
    SyncFailures = 1
    SyncRestarts = 1
    LastMessage = 3
    StreamDrops = 6
    MaxAgain = 2
    Uses = {1}
    MaxCopies = 2
    MaxClicks = 1
    MaxSubmits = 1
    SocketRestarts = 1
INVARIANTS
    AllTyped
    NudgeCoversGap
    NudgeKept
    CadenceFollowsCalm
    FiresOnceQuiet
    OneReached
    EmittedOnce
    NothingPassedOver
PROPERTIES
    EventuallyRecovered
    LoopsGoOn
    NothingLost
    IsFeed
CHECK_DEADLOCK FALSE
