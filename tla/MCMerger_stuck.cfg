SPECIFICATION FairSpec
CONSTANTS
  PK = {1, 2, 3}
  MaxDoc = 4
  MaxSeg = 6
  Workload <- MCWorkloadMerge4
  BYTE = 2
  SEGMENT_MAX_DOC = 1
  QUEUE_SIZE_INPUT = 2
PROPERTY MergeEnds
CHECK_DEADLOCK FALSE
