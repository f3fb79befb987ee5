CONSTANTS
    t1 = t1
    w1 = w1
    Tasks = {t1}
    Subs = {w1}
    Waiters = {w1}
    NoTask = NoTask
    NoReply = NoReply
    NotFound = NotFound
    MaxTasks = 1
    Capacity = 3
    MaxClock = 0
    MaySwallow = FALSE
SPECIFICATION Spec
CHECK_DEADLOCK FALSE
PROPERTY LateReplyIsCurrent
