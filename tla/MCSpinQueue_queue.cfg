SPECIFICATION FairSpec
CONSTANTS
  t1 = t1
  t2 = t2
  n1 = n1
  n2 = n2
  n3 = n3
  a = a
  b = b
  NULL = NULL
  NoItem = NoItem
  Thread = {t1, t2}
  Node = {n1, n2, n3}
  Item = {a, b}
  MaxSize = 1
  MaxCalls = 5
INVARIANTS
  MutualExclusion
  WellFormed
PROPERTIES
  ImplementsTaskQueue
  LockReleased
CHECK_DEADLOCK FALSE
