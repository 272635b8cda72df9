SPECIFICATION Spec
CONSTANTS Mod = 16
          StreamLen = 18
          Capacity = 2
          Isns = {0, 13}
          MaxStale = 2
INVARIANTS AckedIsDelivered ClosestToCheckpoint
PROPERTIES WindowNeverRetreats InOrder
CHECK_DEADLOCK FALSE
