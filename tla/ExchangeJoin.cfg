CONSTANTS
    N = 2
    Exchanges = {"L", "R"}
    Plan <- Join
    Slots = 1
    WireSlots = 1
    MaxMsgs <- BothSides
SPECIFICATION Spec
INVARIANTS ExchangeFound FinishedStaysErased NoPayloadRefused IndInv
CHECK_DEADLOCK FALSE
