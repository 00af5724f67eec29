CONSTANTS
    N = 2
    Exchanges = {"L"}
    Plan <- OneExchange
    Slots = 3
    WireSlots = 1
    MaxMsgs <- FullSink
SPECIFICATION FairSpec
PROPERTY EndStreamSent
CHECK_DEADLOCK FALSE
