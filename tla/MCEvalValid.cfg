CONSTANTS
  Lo = 64
  Hi = 88
  CELL = 4
  Tops = {80, 88}
  Ids = {0, 1}
  Sizes = {0, 8, 16, 24}
  Junk = {7}
  Allocators = {TRUE, FALSE}
  NumTraces = 2
  MaxOps = 4
SPECIFICATION Spec
INVARIANTS TypeOK NoFalseAlarm RangesTrackBlocks OverlapsCaught
PROPERTIES DriverKeepsItsSide
CHECK_DEADLOCK FALSE
