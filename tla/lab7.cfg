SPECIFICATION Lab7Spec
CONSTANTS AddressBits = 4
          ETHERNET_BROADCAST = broadcast
          ETHERNET_UNSET = unset
          PENDING_TIME = 3
          MAPPING_TIME = 4
          Tick = 1
INVARIANTS OnlyFromPeer AnswersAreMine
PROPERTY Connects
