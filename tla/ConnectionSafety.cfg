SPECIFICATION Spec
CONSTANTS
    Capacity = 2
    MaxWriteBufferSize = 4
    HeaderSize = 2
    BodySizes = {1}
    PeerPlans <- GoodAndBad
    Accepts = {TRUE, FALSE}
    Timeouts = {TRUE, FALSE}
    SlotSends = FALSE
    MaxSends = 2
INVARIANTS StreamIntact NothingLost WriteArmed ReadArmed MessagesIntact NoHeldMessage SendFinishedIsTrue LossIsReported
CHECK_DEADLOCK FALSE
