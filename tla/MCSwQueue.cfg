\* SwQueue refines BoundedFifo
CONSTANTS
  a = a
  b = b
  c = c
  Item <- MCItem
  Capacity = 3
  Offset = 1
SPECIFICATION Spec
INVARIANT TypeOK
PROPERTY ImplementsFifo
