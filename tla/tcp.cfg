SPECIFICATION FairSpec
CONSTANTS Mod = 40
          MAX_PAYLOAD_SIZE = 1
          MAX_RETX_ATTEMPTS = 1
          LingerFactor = 2
          ClientLen = 2
          ServerLen = 3
          LossyServerLen = 0
          Capacity = 2
          ClientIsn = 38
          ServerIsn = 5
          Faults = {"loss", "duplication", "overtaking", "early_timeout", "abort"}
          MaxFaults = 2
INVARIANTS DeliveredIsPrefix AckedWasSent
PROPERTIES FollowsDiagram InOrder ClosesWhenReliable
CHECK_DEADLOCK FALSE
