SPECIFICATION Spec
CONSTANTS
    Turn = {t1, t2}
    Client = {c1}
    Conn = {app, chat1}
    Chat = {chat1}
    Stream = {case1, case2}
    Job = {j1, j2}
    Call = {i1}
    Socket = {s1, s2}
    None = None
    SampleEvery = 2
    IdleExitAfter = 4
    SolveStale = 2
    SolveMax = 4
    Hangs = TRUE
    Deadline = 2
    IdleThreshold = 2
    WritesFail = FALSE
    MaxQueue = 1
    MaxTimers = 1
    MaxRefreshes = 1
INVARIANT TypeOK MarkerNeverLeaks NeverClearedEarly NoOrphanOnLoop
PROPERTY NeverExitsAtWork AbandonedExits HungMarkerClears FramesReachApp DoneIsLeftAlone WaitEnds AutostopIsEarned IdleBoxStops ZombieReplaced
CHECK_DEADLOCK FALSE
