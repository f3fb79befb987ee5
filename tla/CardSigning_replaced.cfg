CONSTANTS
    Threads = {h1}
    NoThread = NoThread
    Generated = {1, 2}
    MaxBuilds = 1
SPECIFICATION SigningSpec
CHECK_DEADLOCK FALSE
INVARIANT KidIsStable
