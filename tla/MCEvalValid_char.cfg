CONSTANTS
  Lo = 64
  Hi = 96
  CELL = 8
  Tops = {96}
  Ids = {200}
  Sizes = {8}
  Junk = {7}
  Allocators = {TRUE}
  NumTraces = 1
  MaxOps = 2
SPECIFICATION Spec
INVARIANTS NoFalseAlarm
CHECK_DEADLOCK FALSE
