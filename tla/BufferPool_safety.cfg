\* A pool of two buffers that grows to three: four puts pass through expansion,
\* backpressure and relief.
CONSTANTS
  Keys = {k1}
  PutPages = {1, 2}
  FlushPages = 2
  BufferCount = 2
  MaxBufferCount = 3
  HighWater = 1
  LowWater = 0
  MaxSequence = 4
SPECIFICATION FairSpec
INVARIANTS TypeOK BuffersConserved NoIdleBuffer OneReplyEach
           AnsweredIsIndexed
PROPERTY OnlyStaleFlagStrands
CHECK_DEADLOCK FALSE
