CONSTANTS
    r1 = r1
    r2 = r2
    Runs = {r1, r2}
    NoRun = NoRun
    Concurrency = 2
    MaxDeaths = 0
    HalfDead = FALSE
    InitMayFail = FALSE
SPECIFICATION Spec
CHECK_DEADLOCK FALSE
PROPERTY RetryReplacesDeadConnection
