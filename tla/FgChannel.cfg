\* Two runs of up to eight polynomials in a buffer of six places: REFILL, stop, restart, watchdog
SPECIFICATION FairSpec
CONSTANTS
  BUFFER_SIZE = 6
  FG_REFILL_THRESHOLD = 2
  MaxTuples = 8
  MaxRuns = 2
INVARIANTS TypeOK RefillInTime Watched
PROPERTIES InOrder SilenceStops
CHECK_DEADLOCK FALSE
