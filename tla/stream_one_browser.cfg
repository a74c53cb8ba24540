SPECIFICATION Safe
CONSTANTS
  Browsers = {b1}
  Scripts = {}
  Budget <- Everything
INVARIANTS StatusAgrees
PROPERTIES ImplementsSafeFeed
CHECK_DEADLOCK FALSE
