SPECIFICATION Spec
CONSTANTS
  PK = {1, 2, 3}
  MaxDoc = 7
  MaxSeg = 12
  Workload <- MCWorkloadMerge
  BYTE = 2
  SEGMENT_MAX_DOC = 1
  QUEUE_SIZE_INPUT = 2
INVARIANTS
  TypeOK
  RemovedStaysRemoved
  LatestSurvivesUnlessRecorded
  DuplicateOnlyAfterMergingUpdate
  DocumentsAccounted
  ReachableNotFreed
  QueueBound
CHECK_DEADLOCK FALSE
