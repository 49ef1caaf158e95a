SPECIFICATION AgentSideSpec
CONSTANTS
    Sessions = {s1, s2}
    Containers = {c1}
    MaxTries = 2
    MaxBoots = 2
    MaxHandling = 2
    NoSession = NoSession
    MaxLines = 3
    MaxInodes = 3
    MaxRotatedFiles = 1
    MaxRotatedBytes = 4
    MaxSessions = 2
    Pursued = {"none"}
    AuditLines <- SomeAuditLines
    CollapseSpan = 1
    MaxGroups = 1
    MaxPathsPerGroup = 3
    MaxAudit = 3
    MaxRoadStarts = 2
    Undated = Undated
    UpgradeTokens = {t1}
    Honeypot = TRUE
    UpgradeTokenTTL = 2
    UpgradeWindow = 4
    DualUseWindow = 2
    AuditCoalesceInterval = 2
    CredentialConflictWindow = 4
    MaxBeats = 2
    LastMoment = 5
    Never = Never
    Hosts = {h1, h2}
    Sockets = {l1, l2}
    PaceBuckets = 2
    BucketWidth = 1
    MaxTrackedHosts = 1
    MinTalkingHosts = 1
    MinCeilingGap = 2
    DefaultFloorGap = 4
    DefaultCeilingGap = 3
    StartupDelayMax = 1
    BurstSizes = {2}
    DayLength = 3
    DaysPerWeek = 2
    Settings <- SlowSettings
    MaxQueries = 2
    LastMinute = 4
    Idle = Idle
    Packets <- SomePackets
    ConfPorts = {3}
    ConfReadable = TRUE
    ExtraIgnorePorts = {}
    Threshold = 2
    ScanWindow = 2
    Cooldown = 3
    MaxSources = 2
    MaxPackets = 5
    LastSecond = 4
    NotYet = NotYet
INVARIANTS
    AgentSideTypeOK
    OneAgentPerSession
    EnrolledStateIsWhole
    NothingSkipped
    SavedPastNothingHeld
    
    PaceWindowExact
    ScanReportedExactly

    
CHECK_DEADLOCK FALSE
