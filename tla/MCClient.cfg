CONSTANTS
  None = None
  Scenarios <- AllScenarios
  MaxTimers = 2
  Plain = {10}
  Access <- MCAccess
  Above = 1
  Below = 1
SPECIFICATION Spec
INVARIANTS ViewsSettled PositionSticks IaddrFollowsPosition VtimelineShown HistoryRecorded IdaFollows AddressReached FollowsLive
PROPERTY ForkSelected
CHECK_DEADLOCK FALSE
