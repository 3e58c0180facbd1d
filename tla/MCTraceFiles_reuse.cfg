CONSTANTS
  Ids = {0, 1}
  MaxLines = 3
  NumIds = {1, 2}
  NumOps = {2, 3, 4}
  Iters = {1}
  Passes = 2
SPECIFICATION Spec
INVARIANT ReusedIdIsRefused
CHECK_DEADLOCK FALSE
