CONSTANTS
    t1 = t1
    t2 = t2
    s1 = s1
    Tasks = {t1, t2}
    Subs = {s1}
    NoTask = NoTask
    MaxTasks = 1
    Capacity = 3
    MaxClock = 1
    MaxRev = 4
SPECIFICATION Spec
SYMMETRY Symmetry
CHECK_DEADLOCK FALSE
INVARIANTS
    ReturnedTaskIsSettled
    StreamsGapFree
    ClosedStreamsEnd
    NewestIsKept
PROPERTIES
    StreamsAdvance
