\* An erasure has a loss for its cause, and every loss is logged
CONSTANTS
  g_queueFg = g_queueFg
  g_queueMilFg = g_queueMilFg
  g_ecaEvent = g_ecaEvent
  Queue <- MCQueue
  Event <- MCEvent
  Capacity = 1
  AlarmCapacity = 2
  MaxLost = 2
SPECIFICATION FairSpec
INVARIANTS TypeOK 
PROPERTY LossIsLogged
