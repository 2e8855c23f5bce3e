SPECIFICATION Spec
CONSTANTS
    Workers = {w1, w2, w3}
    Jobs = {j1, j2, j3}
    Users = {}
    Controllers = {c1}
    Priorities <- ThreePriorities
    UintMod = 16
    InitialJobs = 2
    MaxStarts = 1
    MaxResizes = 2
    MaxWaits = 0
SYMMETRY PoolSymmetry
INVARIANTS BusyIsRunning NoStrandedJob QueueOrdered PoolSize
CHECK_DEADLOCK FALSE
