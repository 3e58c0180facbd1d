CONSTANTS
  WORD = 4096
  MEM_START = 64
  MAX_HEAP = 16
  Sizes = {8, 16, 4080}
  MAX_ETIME = 4
  Runs = 2
  Durations = {1, 3}
  Adjustments <- Settings
  Packages = {"gettod", "itimer"}
  TRACEDIR <- Traces
  DEFAULT_TRACEFILES <- DefaultFiles
  Dirs <- Given
  Names = {"a.rep", "b.rep"}
  MaxArgs = 3
  Teams <- TeamsOfOneAndTwo
  OpCounts = {0, 3}
  Utils = {0, 50, 100}
  AVG_LIBC_THRUPUT = 2
SPECIFICATION Spec
INVARIANTS TypeOK FilesAreAsAsked HeapIsOfThisPass ReportAgrees IndexInRange KilledOnlyAfterADay
PROPERTIES HeapNeverShrinks Terminates
CHECK_DEADLOCK FALSE
