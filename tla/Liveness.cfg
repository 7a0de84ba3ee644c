SPECIFICATION ProgressSpec
CONSTANTS
  j1 = j1
  j2 = j2
  j3 = j3
  f1 = f1
  Nil = Nil
  Job = {j1, j2}
  File = {f1}
  Worker = {w1, w2}
  Build = {b1, b2}
  Deps <- PairDeps
  Inputs <- PairInputs
  Requests <- WholePair
  QueCap = 2
  ChanCap = 2
  UpdsCap = 2
  FreeSlots = 1
  Faults = {}
PROPERTIES BuildCompletes
CHECK_DEADLOCK FALSE
