SPECIFICATION FairSpec
CONSTANTS
    Threads = {t1}
    Fds = {}
    PipeCapacity = 5
    IdMod = 4
    Intervals = {1}
    ExecTimeouts <- EitherWay
    InactivityTimeout = 0
    EpollMayFail = FALSE
    MaxPosts = 2
    MaxQuits = 1
    MaxTimers = 1
    MaxExecs = 1
    MaxSignals = 0
    MaxInterrupts = 1
    MaxSocketCalls = 0
    MaxFdEvents = 0
    MaxTime = 3

PROPERTIES QuitReturns ExecTimesOut PostsRun TimersFire
CHECK_DEADLOCK FALSE
