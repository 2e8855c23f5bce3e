SPECIFICATION Spec
CONSTANTS
    Capacity = 2
    MaxWriteBufferSize = 0
    HeaderSize = 2
    BodySizes = {2}
    PeerPlans <- Silence
    Accepts = {FALSE}
    Timeouts = {FALSE}
    SlotSends = TRUE
    MaxSends = 2
INVARIANTS AssertsHold
CHECK_DEADLOCK FALSE
