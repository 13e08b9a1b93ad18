SPECIFICATION Spec
CONSTANTS
  s1 = s1
  Stmts <- OneStmt
  Iters = {1}
  Lobs = {"none"}
  ConvFails = FALSE
  FollowSpoiled = TRUE
  PlainAfter = FALSE
  MaxReqs = 3
  MaxBreaks = 1
  MaxPieces = 1
  MaxMore = 1
INVARIANT AnswersOwn
CHECK_DEADLOCK FALSE
