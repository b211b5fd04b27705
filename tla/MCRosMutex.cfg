\* The mutex excludes, and is released by the matching unlock
CONSTANTS
  t1 = t1
  t2 = t2
  t3 = t3
  Task <- MCTask
  NoTask = NoTask
  MaxNesting = 3
SPECIFICATION Spec
INVARIANTS TypeOK MutualExclusion CountsItsOwner
