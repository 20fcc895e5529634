SPECIFICATION Spec
CONSTANTS
  HashItem = {1, 2, 3, 4}
  HashOf <- MCHashOf
  HASH_INITIAL_NUM_BUCKETS = 1
  HASH_BKT_CAPACITY_THRESH = 1
  MaxAdds = 4
  ListElem = {1, 2, 3, 4}
  BUCKET_SIZE = 1
  MaxAppends = 6
  Bit = {0, 7, 8, 15, 33}
  TS_BITMAP_PREALLOC = 2
  MaxClones = 2
  FieldName = {n1, n2}
  FieldValue = {v1, v2}
  Token = {t1, t2}
  FieldId = {1, 2, 3, 4}
  MaxReplies = 2
  MaxId = 4
  MaxLists = 3
  MaxSort = 6
  Char = {"a", "b"}
  MaxHay = 5
  MaxNeedle = 4
  Text = {x1, x2}
  StringId = {1, 2, 3, 4, 5}
  FIRST_SLOTS = 1
  MaxLen = 3
  SECOND = 2
  Delay = {0, 3}
  MaxTimers = 3
  MaxClock = 4
INVARIANTS
  HashIntegrity
  MissOnlyDuringExpansion
  IterationComplete
  ReaderInOrder
  BitmapIsSet
  MemoryAccounted
  ArrayOwnsItsStrings
  TimersExact
  IntersectExact
  SortsStably
  FindExact
PROPERTY
  ListImplementsSequence
\* A bound on additions, appends or clones ends a behaviour.
CHECK_DEADLOCK FALSE
