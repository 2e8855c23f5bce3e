SPECIFICATION FairSpec
CONSTANTS
    Workers = {w1, w2}
    Jobs = {j1, j2}
    Users = {u1}
    Controllers = {c1}
    Priorities <- OnePriority
    UintMod = 16
    InitialJobs = 1
    MaxStarts = 1
    MaxResizes = 1
    MaxWaits = 1

PROPERTIES JobsLeaveQueue ControlReturns FinishIsSeen
CHECK_DEADLOCK FALSE
