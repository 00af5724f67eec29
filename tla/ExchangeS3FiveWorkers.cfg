SPECIFICATION Spec
CONSTANTS
    NumWorkers = 5
    NumLevels = 2
    Keys = {k1}
    HashValues = {2}
    MaxThreads = 5
    Unreliable = {}
    Rows <- MCRows
    Key <- MCKey
    Input <- MCInput
    Hashes <- MCHashes
INVARIANT SameKeySameWorker
CHECK_DEADLOCK FALSE
