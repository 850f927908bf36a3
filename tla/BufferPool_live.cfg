\* The default proportions: fewer buffers than the high-water mark.
CONSTANTS
  Keys = {k1}
  PutPages = {1, 2}
  FlushPages = 2
  BufferCount = 2
  MaxBufferCount = 3
  HighWater = 3
  LowWater = 1
  MaxSequence = 3
SPECIFICATION FairSpec
PROPERTY EveryPutAnswered
CHECK_DEADLOCK FALSE
