SPECIFICATION Spec
CONSTANTS
  s1 = s1
  Stmts <- OneStmt
  Iters = {1, 2}
  Lobs <- AllLobs
  ConvFails = TRUE
  FollowSpoiled = TRUE
  PlainAfter = TRUE
  MaxReqs = 3
  MaxBreaks = 2
  MaxPieces = 1
  MaxMore = 1
INVARIANTS AnswersMatch AtMostOnce InStep SuccessMeansRun
PROPERTY CallReturns
CHECK_DEADLOCK FALSE
