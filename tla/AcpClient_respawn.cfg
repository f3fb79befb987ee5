CONSTANTS
    r1 = r1
    Runs = {r1}
    NoRun = NoRun
    Concurrency = 1
    MaxDeaths = 1
    HalfDead = TRUE
    InitMayFail = FALSE
SPECIFICATION ReadingSpec
CHECK_DEADLOCK FALSE
PROPERTY RespawnsTransparently
