\* The ring with overflows, lost blocks, a reset and a new client
CONSTANTS
  Capacity = 8
  ShortLen = 2
  LongLen = 4
  MaxEbCycle = 3
  SeqMod = 2
  MaxBlocks = 4
  MaxLost = 1
  MaxResets = 1
SPECIFICATION FairSpec
INVARIANTS TypeOK AcksWithinSize WholeAndInOrder LossNoticed
CONSTRAINT Unspoilt
PROPERTIES ImplementsStream Drains SpaceIsMade
