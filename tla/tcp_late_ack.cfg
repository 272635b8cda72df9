SPECIFICATION FairSpec
CONSTANTS Mod = 40
          MAX_PAYLOAD_SIZE = 1
          MAX_RETX_ATTEMPTS = 2
          LingerFactor = 2
          ClientLen = 1
          ServerLen = 0
          LossyServerLen = 0
          Capacity = 2
          ClientIsn = 38
          ServerIsn = 5
          Faults = {"duplication"}
          MaxFaults = 1
PROPERTY Closes
CHECK_DEADLOCK FALSE
