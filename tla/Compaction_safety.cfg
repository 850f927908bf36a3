\* Files of two data pages and chunks of one: a full file takes two chunks, and
\* a chunk may find the write buffer full. k2 is written by put_async.
CONSTANTS
  Keys = {k1, k2}
  SegmentKeys = {k2}
  PutPages = {1}
  FilePages = 3
  MaxSequence = 3
  NearFull = {FALSE}
  NoEntry = NoEntry
  ChunkPages = 1
  MaxRetryCount = 2
  PauseThreshold = 2
  ResumeThreshold = 0
  MaxFiles = 2
  MaxReads = 1
  SealedOnly = FALSE
  SerialAllocation = TRUE
  NoTask = NoTask
SPECIFICATION CompactionFairSpec
INVARIANTS IndexPointsAtRecord NoEntryInRemovedFile
           ReadsMissOnlyRemoved
PROPERTY CompactionEnds
CHECK_DEADLOCK FALSE
