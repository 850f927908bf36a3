\* Two segments: a checkpoint writes one or both of them, and with four records
\* a segment changes before, while and after it is written.
CONSTANTS
  SegmentCount = 2
  MaxRecords = 4
  StartsOverlap = FALSE
SPECIFICATION FairSpec
INVARIANTS TypeOK NoChangeForgotten RecoveryFindsIndex
PROPERTY CheckpointEnds
CHECK_DEADLOCK FALSE
