SPECIFICATION Spec
CONSTANTS
    Threads = {t1, t2}
    Fds = {}
    PipeCapacity = 4
    IdMod = 2
    Intervals = {0, 2}
    ExecTimeouts <- EitherWay
    InactivityTimeout = 0
    EpollMayFail = FALSE
    MaxPosts = 2
    MaxQuits = 1
    MaxTimers = 1
    MaxExecs = 2
    MaxSignals = 1
    MaxInterrupts = 1
    MaxSocketCalls = 0
    MaxFdEvents = 0
    MaxTime = 3
SYMMETRY LoopSymmetry
INVARIANTS NoLostWakeup TimersAgree TimeoutIsFresh TimeoutIsEarned
PROPERTY ImplementsMailbox
CHECK_DEADLOCK FALSE
