\* Two writes may be on their way to the index at a time.
CONSTANTS
  k4 = k4
  Keys = {k1, k2, k3, k4}
  Home <- MCHome
  Capacity = 4
  MaxDist = 4
  Modulus = 10
  FirstSequence = 7
  MaxSequence = 5
  MaxPending = 2
  NoEntry = NoEntry
  NoOp = NoOp
SPECIFICATION FairSpec
PROPERTY ImplementsMap
CHECK_DEADLOCK FALSE
