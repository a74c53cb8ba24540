SPECIFICATION Spec
CONSTANTS
  Cells = {"B0", "O3"}
  Order <- TwoCells
  Size <- Sizes
  Models = {"120b", "7b"}
  Metered = {"120b"}
  FirstModel <- OneModel
  Limit = 2
  Cost = 2
  MaxErrors = 2
  MaxRounds = 2
  Budget <- Trouble
INVARIANTS DoneIsWhole QuotaKept
PROPERTIES EventuallyDone
CHECK_DEADLOCK FALSE
