CONSTANTS
    Inputs <- OneFile
    Ranges = {}
    BatchSize = 2
    MaxPending = 2
SPECIFICATION FairSpec
PROPERTY EndSignalled
CHECK_DEADLOCK FALSE
