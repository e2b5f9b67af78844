SPECIFICATION Spec
CONSTANTS
  Tools = {0, 1}
  MaxFrames = 3
  Registry = TRUE
  Calls = 3
  Busy = 2
  MaxConc = 1
  MaxShort = 1
  Expiries = 1
  HasLegacy = TRUE
  Faulty <- MCFaulty
  DeadlineAt = {"stream"}
  None = None
  NoName = ""
  Requests <- MCRequests
INVARIANTS TypeOK SlotsBalanced DeletedStaysGone RepliedOnce OwnHistory TurnRecordFaithful
PROPERTIES TurnsEnd
CHECK_DEADLOCK FALSE
