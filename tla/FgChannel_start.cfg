\* A start tag that comes before the channel is announced as armed
SPECIFICATION Spec
CONSTANTS
  BUFFER_SIZE = 6
  FG_REFILL_THRESHOLD = 2
  MaxTuples = 4
  MaxRuns = 1
INVARIANT StartedIsActive
CHECK_DEADLOCK FALSE
