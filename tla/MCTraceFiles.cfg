CONSTANTS
  Ids = {0, 1}
  MaxLines = 4
  NumIds = {1, 2}
  NumOps = {2, 3, 4}
  Iters = {1, 2, 3}
  Passes = 2
SPECIFICATION Spec
INVARIANTS TypeOK VerdictIsRight CheckedRunsThrough GeneratedRunsThrough PrintedLeaksNothing ReturnedIsInBounds
CHECK_DEADLOCK FALSE
