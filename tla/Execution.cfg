SPECIFICATION Spec
CONSTANT
    Jobs <- MCJobs
    MurmurHash2 <- Murmur
    NumThreads = 2
    NumWorkers = 4
    MaxColumnSize = 2
    RowGroupSize = 2
INVARIANT ResultPreserved
INVARIANT PropertiesTrue
INVARIANT NoPassThrows
INVARIANT ExecutionCorrect
INVARIANT NoOperatorFails
PROPERTY QueryTerminates
