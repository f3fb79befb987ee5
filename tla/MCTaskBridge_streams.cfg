CONSTANTS
    t1 = t1
    t2 = t2
    s1 = s1
    w1 = w1
    Tasks = {t1, t2}
    Subs = {s1, w1}
    Waiters = {w1}
    NoTask = NoTask
    NoReply = NoReply
    NotFound = NotFound
    MaxTasks = 1
    Capacity = 6
    MaxClock = 0
    MaySwallow = TRUE
SPECIFICATION Spec
SYMMETRY Symmetry
CHECK_DEADLOCK FALSE
INVARIANTS
    TerminalStreamsEnd
    EndedStreamSawFinal
    BlockingReplyIsFinal
