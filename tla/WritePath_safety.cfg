\* Two keys, records of one or two pages, files of three data pages: the
\* third or fourth record of a behaviour needs a new file.
CONSTANTS
  Keys = {k1, k2}
  PutPages = {1, 2}
  FilePages = 4
  MaxSequence = 4
  NearFull = {TRUE, FALSE}
  NoEntry = NoEntry
SPECIFICATION FairSpec
INVARIANTS TypeOK NoOverlap IndexPointsAtRecord ReadsFindTheirRecord
           OneReplyEach NewestPutWins
PROPERTIES ImplementsStore EveryRequestAnswered
CHECK_DEADLOCK FALSE
