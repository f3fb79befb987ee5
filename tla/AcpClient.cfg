CONSTANTS
    r1 = r1
    r2 = r2
    Runs = {r1, r2}
    NoRun = NoRun
    Concurrency = 2
    MaxDeaths = 2
    HalfDead = TRUE
    InitMayFail = TRUE
SPECIFICATION FairSpec
CHECK_DEADLOCK FALSE
INVARIANTS
    CallsHaveReader
    ReadyIsGreeted
    OneAtATime
    ReadyHasProcess
PROPERTIES
    RunsFinishOrHang
