CONSTANTS
  WORD = 65536
  MEM_START = 64
  MAX_HEAP = 80
  CHUNKSIZE = 32
  Sizes = {0, 8, 24}
  Tags = {16}
  Garbage = {0}
SPECIFICATION Spec
INVARIANTS TypeOK BoundaryTags Coalesced NothingLeaked SearchSkipsNothing
PROPERTIES RefusedOnlyWhenExhausted ImplementsPromise
