\* The MIL task does not sleep over its work, answers the client while it is awake, and every state machine comes back to ST_WAIT
CONSTANTS
  NFsm = 2
  NChannel = 1
  Timeout = 1
  QueueCapacity = 3
  EventCapacity = 2
SPECIFICATION FairSpec
INVARIANTS TypeOK SleepsWithoutWork
PROPERTIES FsmReturns ClientIsSynchronized
