SPECIFICATION Spec
CONSTANTS
  Calls = {"close"}
  MaxDials = 3
  MaxSequence = 3
INVARIANTS TypeOK NothingLost TwiceOnlyLate
CONSTRAINT OneSessionAtATime
CHECK_DEADLOCK FALSE
