SPECIFICATION FairSpec
CONSTANTS
  ID = {f1, f2}
  Thread = {p1, p2, p3, r1}
  Put = {p1, p2, p3}
  Reader = {r1}
  NoCall = NoCall
  Faults = {"body", "disk", "create"}
INVARIANTS TypeOK OkIsStored
PROPERTIES UploadReturns
CHECK_DEADLOCK FALSE
