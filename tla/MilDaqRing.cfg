\* The ring with a client that reads, and that clears the ring or is started again
CONSTANTS
  Capacity = 8
  ItemLen = 2
  MiddleBuffer = 4
  MaxEbCycle = 3
  MaxItems = 5
  MaxClears = 1
  MaxRestarts = 1
  MaxBoth = 1
SPECIFICATION FairSpec
INVARIANTS TypeOK AckWithinSize WholeItemsVisible NoTornItem
PROPERTIES ImplementsStream 
