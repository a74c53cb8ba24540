SPECIFICATION Spec
CONSTANTS
  Names <- MCNames
  Domain <- MCDomain
  Scopes <- MCScopes
  Attrs <- MCAttrs
  Universal <- MCUniversal
  Outcomes <- Fee
  Passages = {1, 2, 3, 4, 5}
  OutcomesMatch <- SameFee
  ValuesMatch <- SameFee
  Votes <- FeeVotes
  OutcomeMargin = 0
  Entailment <- MCEntailment
  OverlapThreshold = 1
  NestThreshold = 2
  Lists <- MCLists
  Judgements <- MCJudgements
  Known <- Everything
  MaxFrames = 4
INVARIANTS SpecificityGoverns OrderInvariant ComposedConsistent ReaderAgrees
CHECK_DEADLOCK FALSE
