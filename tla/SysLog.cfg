\* Two tasks log into a ring for two messages
CONSTANTS
  Task = {main, daq}
  Main = main
  NoTask = NoTask
  DeletedTask = DeletedTask
  Capacity = 4
  ItemLen = 2
  MaxItems = 2
  MaxMessages = 4
  MaxFaults = 1
SPECIFICATION FairSpec
INVARIANTS TypeOK AnswersWithinSize NoGap RepeatedForAnErasure
PROPERTIES AllReadOrAnswered LogReturns
CHECK_DEADLOCK FALSE
