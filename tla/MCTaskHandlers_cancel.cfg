CONSTANTS
    t1 = t1
    Tasks = {t1}
    Subs = {}
    NoTask = NoTask
    MaxTasks = 1
    Capacity = 3
    MaxClock = 0
    MaxRev = 2
SPECIFICATION Spec
CHECK_DEADLOCK FALSE
PROPERTY CancelSticks
