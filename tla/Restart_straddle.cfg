CONSTANTS
  Keys = {k1, k2}
  PutPages = {1, 2}
  FilePages = 5
  ChunkPages = 3
  Blobs = {1, 2, 3}
  LogCapacity = 3
  MaxWrites = 3
  MaxCrashes = 0
  MaxCuts = 0
  MaxFaults = 0
SPECIFICATION Spec
INVARIANT AckedPutsFound
CHECK_DEADLOCK FALSE
