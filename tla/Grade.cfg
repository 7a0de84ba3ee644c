SPECIFICATION Spec
CONSTANTS
  Task = {1, 2}
  Pkg = {p1, p2}
  Bad = p1
  NoBench = {p2}
  Covered = {1}
  MaxFiles = 2
INVARIANTS GradeTypeOK VerdictRight GreenMeansPassed
PROPERTIES GradeEnds
CHECK_DEADLOCK FALSE
