SPECIFICATION Spec
CONSTANTS Mod = 12
          MAX_PAYLOAD_SIZE = 2
          StreamLen = 13
          Capacity = 2
          Isns = {9}
          RetxTimeout = 1
          MaxWin = 2
          MaxStale = 1
          MaxRetx = 1
INVARIANTS TimerGuardsQueue QueueIsContiguous UnackedIsKept
           WindowRespected SentIsGenuine FinAckedIsAll
CHECK_DEADLOCK FALSE
