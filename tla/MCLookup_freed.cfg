SPECIFICATION MCSpec
CONSTANTS
  PK = {1, 2, 3}
  MaxDoc = 6
  MaxSeg = 6
  Workload <- MCWorkloadLookup
  BYTE = 2
  SEGMENT_MAX_DOC = 2
  QUEUE_SIZE_INPUT = 8
  Reader = {"r1"}
  Term = {"a", "b", "c"}
  TermsOf <- MCTermsOf
  Query <- MCQuery
  LOOKUP_MAX_SIZE = 4
  Garbage = {7}
  UINT32 = 100
  MaxLookups = 1
INVARIANT NothingFreedIsUsed
CHECK_DEADLOCK FALSE
