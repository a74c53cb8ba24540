SPECIFICATION AnswerSpec
CONSTANTS
  Names <- MCNames
  Domain <- MCDomain
  Scopes <- MCScopes
  Attrs <- MCAttrs
  Universal <- MCUniversal
  SlotOrder <- MCSlotOrder
  Parent <- MCParent
  Top = Top
  Words <- MCWords
  SigName <- MCSigName
  AppOf <- MCAppOf
  TieBreak <- MCTieBreak
  Commensurable <- MCCommensurable
  SameValue <- Same1
  Clear <- MCClear
  Drafts <- MCDrafts
  Replies <- MCReplies
  Retries <- MCRetries
  MaxReasks = 2
  MaxPieces = 3
INVARIANTS FoldedAsMeant DecisionIsTrue 
CHECK_DEADLOCK FALSE
