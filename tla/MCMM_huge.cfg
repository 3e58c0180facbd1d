CONSTANTS
  WORD = 256
  MEM_START = 64
  MAX_HEAP = 80
  CHUNKSIZE = 32
  Sizes = {8, 250}
  Tags = {}
  Garbage = {0}
SPECIFICATION Spec
INVARIANTS BlockHoldsRequest
