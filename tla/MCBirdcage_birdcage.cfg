SPECIFICATION BirdcageSpec
CONSTANTS
    Runs = {r1}
    Visitors = {v}
    Handlers = {h1, h2}
    Window = 1
    DoubleMintGuard = 1
    MaxRestarts = 1
    MaxTime = 1
    RunnerBuffer = 1
    None = None
    ScanOrders = {s1, s2}
    PerSecond = 2
    RunWindow = 1
    LastTick = 1
    OrderBuffer = 1
    MaxReports = 1
    NoRun = NoRun
    Watched = {a1, a2}
    Conditions = {"token_conflict"}
    CollapseWindow = 2
    UnobservedAfter = 1
    PerCanaryCooldown = 2
    FleetHourlyCap = 2
    FleetCapWindow = 1
    DayLength = 3
    LastInstant = 5
    Still = Still
    Replies = {1, 2, 3}
    MessageID <- SomeMessageIDs
    Broken <- SomeBroken
    Pollers = {p1, p2}
    MaxMessagesPerPoll = 2
    NoID = "none"
    Reports = {{"hits_merged"}}
    AuditActions = {"rate_limited"}
    OtherStates = {"pending"}
    SilenceThreshold = 1
    ThrottledWindow = 2
    TokenConflictQuietPeriod = 2
    CoalesceInterval = 1
    RotationStalledThreshold = 1
    RotationStaleThreshold = 2
    MaxHeartbeats = 2
    MaxRotations = 2
    LastReading = 2
    NoTime = NoTime
INVARIANTS
    BirdcageTypeOK
    ProofsAreEarned
    
    SpansDisjoint
    ConflictsAllTold
    RepliesSettledOnce
PROPERTIES
    VerdictIsFinal
    
    
    
SYMMETRY HandlerSymmetry
CHECK_DEADLOCK FALSE
