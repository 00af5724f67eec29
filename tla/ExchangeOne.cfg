CONSTANTS
    N = 2
    Exchanges = {"L"}
    Plan <- OneExchange
    Slots = 2
    WireSlots = 1
    MaxMsgs <- FromOne
SPECIFICATION FairSpec
INVARIANTS TypeOK EndOfStreamComplete ShutdownComplete
PROPERTIES ImplementsExchange Termination
