SPECIFICATION Spec
CONSTANTS
  MaxJobs = 4
  MaxDeps = 2
  MaxEdges = 5
  ID <- IDs
  Graph <- SmallGraphs
INVARIANTS EveryJobSorted DepsSortedFirst RecursionBounded ReturnsTopSort
PROPERTY Returns
CHECK_DEADLOCK FALSE
