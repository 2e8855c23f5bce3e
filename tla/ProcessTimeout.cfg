SPECIFICATION Spec
CONSTANTS
    Syncs = {s1}
    Asyncs = {}
    Timeouts = {s1}
    SlotKills = {}
    Pids = {1}
    ReusePids = FALSE
    Codes = {0}
    MaxStarts = 1
    MaxOutput = 0
    MaxSize = 1
INVARIANT SyncCallerWaits
CHECK_DEADLOCK FALSE
