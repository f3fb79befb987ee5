CONSTANTS
    s1 = s1
    Skills = {s1}
    g1 = g1
    g2 = g2
    Agents = {g1, g2}
    Star = Star
    Lists <- MCLists
    Requests = {1, 2}
    CardRequests = {1}
    Carded = {g1}
    Fetches = {1, 2}
    NoTag = NoTag
    Calls = {1, 2, 3}
    NoCall = 0
    claw = claw
    hands = hands
    Claw = {claw}
    Hands = {hands}
    Slots <- MCSlots
    Offers <- MCOffers
    MaxNested = 2
    Turns = {1, 2}
    Shared = 99
    NoTurn = 0
    MaxUpdates = 1
    MaxPipe = 2
    Shells = {1}
    Engines = {1, 2, 3}
    k1 = k1
    k2 = k2
    k3 = k3
    Keys = {k1, k2, k3}
    PerEngine = 2
    MaxLimit = 3
    h1 = h1
    h2 = h2
    Threads = {h1, h2}
    NoThread = NoThread
    Generated = {1, 2}
    MaxBuilds = 3
SPECIFICATION Spec
CHECK_DEADLOCK FALSE
INVARIANTS
    StaleBundleIsReported
    DetachmentsHold
    EtagNamesCard
    CardIsAsFreshAsItsStamp
    NestingIsBounded
    SandboxIsKept
    AnswerFollowsQuestion
    TurnCollectsItsUpdates
    PendingWaitEnds
    MergeIsFair
    CardsAreCurrent
    CardsAreTrusted
PROPERTIES
    EveryCallEnds
