SPECIFICATION Spec
CONSTANTS
  PK = {1, 2, 3, 4, 5}
  MaxDoc = 8
  MaxSeg = 12
  Workload <- MCWorkloadStale
  BYTE = 2
  SEGMENT_MAX_DOC = 1
  QUEUE_SIZE_INPUT = 2
INVARIANT LatestSurvives
CHECK_DEADLOCK FALSE
