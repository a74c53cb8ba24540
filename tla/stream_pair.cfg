SPECIFICATION Safe
CONSTANTS
  Browsers = {b1}
  Scripts = {s1}
  Budget <- Pair
INVARIANTS GapFree
CHECK_DEADLOCK FALSE
