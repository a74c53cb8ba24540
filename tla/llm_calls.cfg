SPECIFICATION Spec
CONSTANTS
  Tiers = {"JUDGE", "BACKBONE_PRIMARY"}
  Settings = {"high", "low"}
  SettingOf <- TierSettings
  ModelOf <- Models120b
  Substitutable = {"JUDGE"}
  Fallback = "local"
  Threads = {h1, h2}
  Requests = {r1}
  MaxRetries = 2
  Trigger = 2
  Budget <- Hostile
INVARIANTS PinnedIsPinned SubstitutionsOnRecord PaysOnce
PROPERTIES EveryCallEnds
CHECK_DEADLOCK FALSE
