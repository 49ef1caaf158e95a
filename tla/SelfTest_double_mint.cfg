SPECIFICATION SelfTestSpec
CONSTANTS
    Runs = {r1, r2}
    Visitors = {}
    Handlers = {}
    Window = 2
    DoubleMintGuard = 1
    MaxTime = 3
    RunnerBuffer = 1
    None = None
    MaxRestarts = 0
INVARIANT NeverMintedTwice
CHECK_DEADLOCK FALSE
