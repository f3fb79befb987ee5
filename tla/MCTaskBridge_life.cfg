CONSTANTS
    t1 = t1
    t2 = t2
    s1 = s1
    Tasks = {t1, t2}
    Subs = {s1}
    Waiters = {}
    NoTask = NoTask
    NoReply = NoReply
    NotFound = NotFound
    MaxTasks = 1
    Capacity = 4
    MaxClock = 1
    MaySwallow = FALSE
SPECIFICATION FairSpec
CHECK_DEADLOCK FALSE
INVARIANT DriveMatchesTask
PROPERTIES
    TerminalIsFinal
    FollowsLifecycle
    SubmittedTasksFinish
    StreamsReturn
