SPECIFICATION FairSpec
CONSTANTS
  Jobs = 4
  UpdsCap = 3
INVARIANTS
  StreamTypeOK
  NoPanic
PROPERTIES
  ImplementsStream
  StreamEnds
  UpdatedReturns
  ClientAnswered
CHECK_DEADLOCK FALSE
