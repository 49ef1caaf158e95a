SPECIFICATION LiveSpec
CONSTANTS
    MaxPairs = 5
    MaxFaults = 2
    MaxCrashes = 3
    Runs = {r1, r2}
    Visitors = {}
    Handlers = {}
    Window = 2
    DoubleMintGuard = 1
    MaxTime = 3
    RunnerBuffer = 1
    None = None
    MaxRestarts = 1
    MaxFlying = 2
    MaxRefreshRestarts = 1
    Mails = {1, 2}
    Refused = {1}
    Inputs <- SomeInputs
    MinCeiling = 1000
    MaxWrites = 1
    MaxBoots = 2
    Windows = Windows
    Linux = Linux
    Off = Off
    Unusable = Unusable
    Blank = Blank
    Unset = Unset
INVARIANTS
    PairNeverMixed
PROPERTIES
    SwapIsAtomic
    RecoveryFinishes
    EveryRunEnds
    RefreshStateAgrees
    MailGetsOut
    SettingsConverge
CHECK_DEADLOCK FALSE
