SPECIFICATION Spec
CONSTANTS
  PK = {1, 2, 3}
  MaxDoc = 5
  MaxSeg = 8
  Workload <- MCWorkloadMerge5
  BYTE = 2
  SEGMENT_MAX_DOC = 1
  QUEUE_SIZE_INPUT = 2
INVARIANT OneLivePerKey
CHECK_DEADLOCK FALSE
