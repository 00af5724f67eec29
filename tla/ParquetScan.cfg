CONSTANTS
    Inputs <- TwoFiles
    Ranges <- Point
    BatchSize = 2
    MaxPending = 2
SPECIFICATION FairSpec
INVARIANTS TypeOK HandleAvailable ScanOrdered ScanComplete SlicesPartition
PROPERTY FilesSupplied
CHECK_DEADLOCK FALSE
