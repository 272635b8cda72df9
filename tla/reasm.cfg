SPECIFICATION ReassemblerSpec
CONSTANTS StreamLen = 8
          Capacity = 4
INVARIANTS DeliveredIsPrefix MapIsAhead NextByteIsTaken
PROPERTIES ReassemblesInOrder Completes
CHECK_DEADLOCK FALSE
