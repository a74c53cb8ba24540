SPECIFICATION Spec
CONSTANTS
  Collections = {fees, visas}
  Texts <- MCTexts
  Threads = {t1, t2}
  Ks = {2, 3}
  Rankings <- MCRankings
  RrfK = 60
  Show = 2
  Depth = 20
  MaxWords = 8
  MinWords = 4
  Requests = 4
SYMMETRY Alike
INVARIANTS KeepsTheBestOfItsOwn DeletedIsGone
CHECK_DEADLOCK FALSE
