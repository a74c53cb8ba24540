SPECIFICATION Spec
CONSTANTS
  Browsers = {b1}
  Scripts = {}
  Budget <- Restarts
PROPERTIES ImplementsFeed BrowserFinishes
CHECK_DEADLOCK FALSE
