CONSTANTS
  WORD = 65536
  MEM_START = 64
  MAX_HEAP = 96
  CHUNKSIZE = 16
  Sizes = {0, 12}
  Tags = {16}
  Garbage = {0}
SPECIFICATION Spec
INVARIANTS IInv PayloadsApart
PROPERTIES CallReturns
