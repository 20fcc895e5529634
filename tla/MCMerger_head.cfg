SPECIFICATION Spec
CONSTANTS
  PK = {1, 2, 3, 4, 5}
  MaxDoc = 7
  MaxSeg = 10
  Workload <- MCWorkloadHead
  BYTE = 2
  SEGMENT_MAX_DOC = 1
  QUEUE_SIZE_INPUT = 4
INVARIANT NeverAborts
CHECK_DEADLOCK FALSE
