\* The sequence numbers 7, 8, 9, 0, 1 wrap around; writes come in their order.
CONSTANTS
  k4 = k4
  Keys = {k1, k2, k3, k4, k5}
  Home <- MCHome
  Capacity = 4
  MaxDist = 4
  Modulus = 10
  FirstSequence = 7
  MaxSequence = 5
  MaxPending = 1
  NoEntry = NoEntry
  NoOp = NoOp
SPECIFICATION FairSpec
INVARIANTS TypeOK EveryLiveEntryIsFound OneEntryPerKey
PROPERTIES ImplementsMap UpsertReturns
CHECK_DEADLOCK FALSE
