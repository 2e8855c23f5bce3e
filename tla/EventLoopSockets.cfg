SPECIFICATION Spec
CONSTANTS
    Threads = {t1}
    Fds = {f1, f2}
    PipeCapacity = 4
    IdMod = 2
    Intervals = {}
    ExecTimeouts <- Forever
    InactivityTimeout = 1
    EpollMayFail = TRUE
    MaxPosts = 1
    MaxQuits = 0
    MaxTimers = 0
    MaxExecs = 1
    MaxSignals = 0
    MaxInterrupts = 0
    MaxSocketCalls = 3
    MaxFdEvents = 3
    MaxTime = 1
SYMMETRY LoopSymmetry
INVARIANTS NoLostReadiness
CHECK_DEADLOCK FALSE
