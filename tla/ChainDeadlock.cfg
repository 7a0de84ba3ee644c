SPECIFICATION FairSpec
CONSTANTS
  j1 = j1
  j2 = j2
  j3 = j3
  f1 = f1
  Nil = Nil
  Job = {j1, j2, j3}
  File = {f1}
  Worker = {w1}
  Build = {b1}
  Deps <- ChainDeps
  Inputs <- NoInputs
  Requests <- ChainRequests
  QueCap = 4
  ChanCap = 2
  UpdsCap = 4
  FreeSlots = 1
  Faults = {}
PROPERTIES SignalledFinishes
CHECK_DEADLOCK FALSE
