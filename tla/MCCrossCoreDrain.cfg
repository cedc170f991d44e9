SPECIFICATION HopSpec
CONSTANTS
  NONE = NONE
  SAMPLES = 2
  CAP = 4
INVARIANT LeavesDrained
CHECK_DEADLOCK FALSE
