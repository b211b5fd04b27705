\* The assertion of circular_index.c:144, without any reset
CONSTANTS
  Capacity = 8
  ShortLen = 2
  LongLen = 4
  MaxEbCycle = 3
  SeqMod = 2
  MaxBlocks = 4
  MaxLost = 1
  MaxResets = 0
SPECIFICATION Spec
INVARIANT AckWithinSize
