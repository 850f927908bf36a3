\* Files of two data pages and records of one or two: the third page of a
\* behaviour needs a new file, and a small record may still go to a file that
\* was sealed for a large one.
CONSTANTS
  Keys = {k1, k2}
  PutPages = {1, 2}
  FilePages = 3
  MaxSequence = 3
  NearFull = {TRUE, FALSE}
  NoEntry = NoEntry
  NoCall = NoCall
  SerialAllocation = TRUE
  CallbackCalls = FALSE
SPECIFICATION SyncFairSpec
INVARIANTS SyncNoOverlap IndexPointsAtRecord
           SyncReadFindsItsRecord EachAnsweredOnce
PROPERTY SyncCallReturns
CHECK_DEADLOCK FALSE
