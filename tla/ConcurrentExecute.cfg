SPECIFICATION Spec
CONSTANTS
  Inputs <- MCInputs
  MaxNexts = 5
INVARIANT DeliveredExact
PROPERTY ImplementsIterator
PROPERTY ComputeEnds
PROPERTY RunnerFailureThrows
CHECK_DEADLOCK FALSE
