SPECIFICATION StudySpec
CONSTANTS
  Annotators = {a1, a2}
  Desks = {d1, d2}
  Batch <- MCBatch
  Unasked = {"q2"}
  Types = {"conditional"}
  Relations = {"refinement"}
  Proposals <- MCProposals
  Sittings = 3
  Reviewers = {r1, r2}
  Terminals = {t1, t2}
  Instances <- MCInstances
  Versions = 2
  Verdicts = 2
  Kills = 1
  Pool <- MCPool
  Comparators = {h1, h2}
  Freezes = 2
  Edits = 1
  Written <- MCWritten
  Openly = {"gov"}
  QuoteWords = 2
  Openings <- MCOpenings
  Pages <- MCPages
  Changes = 2
  Drafts <- MCDrafts
  Fixtures <- MCFixtures
  Reach = 2
  DevSets <- MCDevSets
  Stage2 <- MCStage2
  Wants <- MCWants
  Test <- MCTest
  Detectors = 2
  Audits <- MCAudits
  Samples = {2, 3}
  Bar <- MCBar
  GoldPairs <- MCGoldPairs
  Findings <- MCFindings
  Context <- MCContext
  Items <- MCItems
  Closeness = {0, 1, 2}
  Delta = 1
  Personas <- MCPersonas
  GoldOutcome <- MCGoldOutcome
  DefaultCase = {"ordinary"}
  Replies <- MCReplies
  Quotes <- MCQuotes
  Hedges = {"may"}
  Denials = {"no"}
  GoldCases <- MCCases
  Discordant <- MCDiscordant
  SecondP <- MCSecondP
  Sizes = {1, 2}
  Floor = 2
  Spent = {1, 3}
  Controls = {0, 2}
  Cap = 16
SYMMETRY MCSymmetry
INVARIANTS ComparedStands PersonDecided VerdictsSurvive AnswersAreFrozen RestoredIsOriginal NothingWithheldShips
  ProjectsOtherwise MocksAreSound ChosenTellsApart EveryClaimSpoken StrictIsEarned CountsAddUp HolmIsClosed
PROPERTIES SplitsHold
CHECK_DEADLOCK FALSE
