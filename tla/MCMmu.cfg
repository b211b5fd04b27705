\* The LM32, the log daemon and mem-mon; the list may be deleted once
CONSTANTS
  lm32 = lm32
  logd = logd
  memmon = memmon
  User = {lm32, logd, memmon}
  Lm32 = lm32
  MemMon = memmon
  Script <- MCScript
  Tag <- MCTag
  DaqTag <- MCDaqTag
  MaxCapacity = 14
  SizeMod = 21
  MaxRestarts = 1
  MaxDeletes = 1
SPECIFICATION FairSpec
INVARIANTS TypeOK Separate SameArea
PROPERTIES CallsEnd
CONSTRAINT Unspoilt
CHECK_DEADLOCK FALSE
