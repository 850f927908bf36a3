CONSTANTS
  Keys = {k1}
  PutPages = {1}
  FilePages = 4
  MaxSequence = 3
  NearFull = {FALSE}
  NoEntry = NoEntry
SPECIFICATION Spec
INVARIANT IndexAgreesWithReload
CHECK_DEADLOCK FALSE
