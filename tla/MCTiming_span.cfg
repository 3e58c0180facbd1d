CONSTANTS
  Ks = {1}
  Limits = {2}
  Epsilons = {50}
  Bytes = {16}
  Blocks = {32}
  WORD = 16
  NEVENT = 2
  THRESHOLD = 2
  RECORDTHRESH = 5
  LOOP = 4
  MaxTicks = 2
  Machines <- AnAlpha
  Counts = {0, 12}
  Costs = {2, 6}
SPECIFICATION Spec
INVARIANT AlphaCountsItsSpan
CHECK_DEADLOCK FALSE
