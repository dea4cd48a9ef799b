CONSTANTS
  None = None
  Forks = {0, 1}
  WindowSize = 3
  Before = 2
  MaxCalls = 4
  CallGap = 2
  MaxClnum = 9
SPECIFICATION Spec
INVARIANTS StraceShown PositionShown
CHECK_DEADLOCK FALSE
