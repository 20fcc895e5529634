SPECIFICATION Spec
CONSTANTS
  PK = {1, 2, 3}
  MaxDoc = 9
  MaxSeg = 9
  Workload <- MCWorkloadCapacity
  BYTE = 2
  SEGMENT_MAX_DOC = 2
  QUEUE_SIZE_INPUT = 3
INVARIANTS
  SegmentSizeBound
  DeletedCountExact
  KeyInv
PROPERTY MergeSourcesFrozen
CHECK_DEADLOCK FALSE
