SPECIFICATION FairSpec
CONSTANTS
    Syncs = {s1}
    Asyncs = {a1}
    Timeouts = {s1}
    SlotKills = {s1}
    Pids = {1, 2}
    ReusePids = FALSE
    Codes = {0}
    MaxStarts = 2
    MaxOutput = 2
    MaxSize = 1
INVARIANTS StatusNotLost FinishedIsTrue
PROPERTY EndsAreSeen
CHECK_DEADLOCK FALSE
