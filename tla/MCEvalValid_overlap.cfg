CONSTANTS
  Lo = 64
  Hi = 96
  CELL = 8
  Tops = {96}
  Ids = {0, 1}
  Sizes = {8, 24}
  Junk = {7}
  Allocators = {FALSE}
  NumTraces = 1
  MaxOps = 2
SPECIFICATION Spec
INVARIANTS AcceptedApart
CHECK_DEADLOCK FALSE
