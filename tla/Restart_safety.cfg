CONSTANTS
  Keys = {k1, k2}
  PutPages = {1, 2}
  FilePages = 3
  ChunkPages = 2
  Blobs = {1, 2, 3}
  LogCapacity = 2
  MaxWrites = 3
  MaxCrashes = 1
  MaxCuts = 2
  MaxFaults = 0
SPECIFICATION Spec
INVARIANTS TypeOK AcksSurviveClose OneCutIsSurvived MappedBlobsExist
           FilesDistinct RecordedPutsFound
PROPERTY RecordedDataStays
SYMMETRY Symmetry
CHECK_DEADLOCK FALSE
