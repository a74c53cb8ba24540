SPECIFICATION Spec
CONSTANTS
  Names <- MCNames
  Domain <- MCDomain
  Scopes <- MCScopes
  Attrs <- MCAttrs
  Universal <- MCUniversal
  Outcomes <- MCOutcomes
  OutcomesMatch <- MCMatch
  Likeness <- MCLikeness
  WordedAlike = {}
  WordedSame = {}
  Low = 150000
  High = 500000
  HeadScores = {}
  Votes <- MCVotes
  OutcomeMargin = 0
  Entailment <- MCEntailment
  OverlapThreshold = 1
  NestThreshold = 2
  Everyone = "everyone"
  Requests <- MCRequests
  Replies <- MCReplies
  MaxQuestions = 2
  Blank = "blank"
INVARIANTS AnswerIsEarned OverrideDoesNotFlatter
CHECK_DEADLOCK FALSE
