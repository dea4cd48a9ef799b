CONSTANTS
  None = None
  Scenarios <- OneScenario
  MaxTimers = 2
  Plain = {10}
  Access <- MCAccess
  Above = 1
  Below = 1
SPECIFICATION Spec
INVARIANTS StepSticks
CHECK_DEADLOCK FALSE
