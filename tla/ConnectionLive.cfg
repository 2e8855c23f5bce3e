SPECIFICATION FairSpec
CONSTANTS
    Capacity = 2
    MaxWriteBufferSize = 0
    HeaderSize = 2
    BodySizes = {1}
    PeerPlans <- OneMessage
    Accepts = {TRUE, FALSE}
    Timeouts = {FALSE}
    SlotSends = FALSE
    MaxSends = 2
PROPERTIES SendsComplete MessagesArrive
CHECK_DEADLOCK FALSE
