SPECIFICATION PartsSpec
CONSTANTS
    Lockers = {l1, l2, l3}
    InputSizes = {1, 2, 3}
    PipeSize = 2
    MaxInput = 6
    Backlog = 2
    MaxConnections = 4
    MaxListens = 2
    Files = {f1, f2}
    RemoveDelays = {TRUE, FALSE}
    Overwrites = FALSE
    MaxChanges = 4
    MaxWatches = 2
    Nodes = {n1, n2, n3, n4}
    Letters = {"a"}
    MaxPath = 8
INVARIANTS CountIsHolders Exclusion SleepersAreBlocked InputIntact ConnectionsServed ListenerIsRight LinksAreOrder SamePlace
PROPERTIES WaitersReturn ImplementsSharedExclusive
CHECK_DEADLOCK FALSE
