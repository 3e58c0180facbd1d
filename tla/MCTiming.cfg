CONSTANTS
  Ks = {1, 2, 3}
  Limits = {3}
  Epsilons = {50}
  Bytes = {16, 32}
  Blocks = {2, 32}
  WORD = 16
  NEVENT = 2
  THRESHOLD = 2
  RECORDTHRESH = 5
  LOOP = 4
  MaxTicks = 2
  Machines <- AllThree
  Counts = {0, 12, 252}
  Costs = {2, 6}
SPECIFICATION Spec
INVARIANTS TypeOK KeepsTheSmallest ReturnsTheBest
INVARIANTS CounterIsExact CompensationIsBounded
PROPERTIES StopsForAReason EveryCallReturns
CHECK_DEADLOCK FALSE
