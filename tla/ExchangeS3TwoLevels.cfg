SPECIFICATION FairSpec
CONSTANTS
    NumWorkers = 4
    NumLevels = 2
    Keys = {k1, k2}
    HashValues = {0, 1}
    MaxThreads = 4
    Unreliable = {3}
    Rows <- MCRows
    Key <- MCKey
    Input <- MCInput
    Hashes <- MCHashes
INVARIANT TypeOK
INVARIANT RowsAtOneWorker
INVARIANT EndOfStreamComplete
INVARIANT AllRowsArrive
INVARIANT SameKeySameWorker
PROPERTY Termination
CHECK_DEADLOCK FALSE
