SPECIFICATION Spec
CONSTANTS Mod = 40
          MAX_PAYLOAD_SIZE = 1
          MAX_RETX_ATTEMPTS = 1
          LingerFactor = 2
          ClientLen = 3
          ServerLen = 0
          LossyServerLen = 0
          Capacity = 2
          ClientIsn = 38
          ServerIsn = 5
          Faults = {}
          MaxFaults = 0
INVARIANT EndIsComplete
CHECK_DEADLOCK FALSE
