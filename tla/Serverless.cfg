SPECIFICATION Spec
CONSTANTS
  NumWorkers <- MCNumWorkers
  DirectLimit = 1
  StartupMaxDelay = 1
  FunctionTimeout = 2
  Reserve = 0
  LogPatience = 0
  RetryDelay = 2
  MaxAttempts = 2
  LastStart = 1
  InvokeTime = 0
  MaxFaults = 1
INVARIANT ReturnedComplete
INVARIANT RaiseJustified
INVARIANT InvokedOnce
PROPERTY QueryEnds
CHECK_DEADLOCK FALSE
