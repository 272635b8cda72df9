SPECIFICATION Spec
CONSTANTS Segments <- MCSegments
          Messages <- MCMessages
          Sender <- MCSender
          Receivers <- MCReceivers
INVARIANTS ArrivesUnchanged DamageIsHarmless HeaderDamageIsFound
CHECK_DEADLOCK FALSE
