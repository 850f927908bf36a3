\* Synchronous requests are made while a file is allocated for waiting writes.
CONSTANTS
  Keys = {k1}
  PutPages = {1, 2}
  FilePages = 3
  MaxSequence = 3
  NearFull = {FALSE}
  NoEntry = NoEntry
  NoCall = NoCall
  SerialAllocation = FALSE
  CallbackCalls = FALSE
SPECIFICATION SyncSpec
PROPERTY QueueFindsOpenFile
CHECK_DEADLOCK FALSE
