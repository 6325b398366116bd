SPECIFICATION Spec
CONSTANTS
  Me = me
  Others = {ann}
  Ssrcs = {x1}
  None = none
  MaxEpoch = 2
  MaxHandles = 3
INVARIANTS TypeOK HandlesKept Current
PROPERTY CloseReleases
CHECK_DEADLOCK FALSE
