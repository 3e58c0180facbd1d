CONSTANTS
  WORD = 65536
  MEM_START = 64
  MAX_HEAP = 96
  CHUNKSIZE = 32
  Sizes = {8, 24}
  Tags = {1, 2}
  Garbage = {0}
  Ids = {1, 2}
  MaxOps = 5
  Repeats = 2
SPECIFICATION DSpec
INVARIANTS DTypeOK OnlyMemoryRunsOut ReplaysAgree UtilizationIsAFraction
CHECK_DEADLOCK FALSE
