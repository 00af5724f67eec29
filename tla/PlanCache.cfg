SPECIFICATION Spec
CONSTANTS
  Rows <- MCRows
  MapFunc <- MCMapFunc
  MaxObjects = 9
INVARIANT OwnPlanExecuted
CHECK_DEADLOCK FALSE
