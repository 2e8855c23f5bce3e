SPECIFICATION FairSpec
CONSTANTS
    Threads = {t1, t2}
    Fds = {}
    PipeCapacity = 2
    IdMod = 3
    Intervals = {1}
    ExecTimeouts <- Limited
    InactivityTimeout = 0
    EpollMayFail = FALSE
    MaxPosts = 3
    MaxQuits = 0
    MaxTimers = 0
    MaxExecs = 1
    MaxSignals = 0
    MaxInterrupts = 0
    MaxSocketCalls = 0
    MaxFdEvents = 0
    MaxTime = 2

PROPERTY ExecTimesOut
CHECK_DEADLOCK FALSE
