SPECIFICATION SocketSpec
CONSTANTS Mod = 40
          MAX_PAYLOAD_SIZE = 1
          MAX_RETX_ATTEMPTS = 1
          LingerFactor = 1
          ClientLen = 1
          InputLen = 1
          ServerLen = 4
          LossyServerLen = 0
          Capacity = 2
          PipeCapacity = 1
          CopyCapacity = 1
          ClientIsn = 38
          ServerIsn = 5
          Faults = {"drop", "abort", "loss"}
          MaxFaults = 1
INVARIANTS BytesConserved Survives EndOfFileIsTrue
PROPERTIES DropEnds Completes
CHECK_DEADLOCK FALSE
