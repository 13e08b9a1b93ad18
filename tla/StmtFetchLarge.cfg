SPECIFICATION Spec
CONSTANTS
  FetchSize = 3
  LoginBatch = 4
  Totals <- MixedTotals
  Widths = {"short"}
  NRows = {1}
  Iters = {0}
  Orients = {"NEXT", "CURRENT"}
  ReExecute = TRUE
  DefineWhen = {"after"}
  Undefined = TRUE
  MaxExecs = 2
  MaxFetched = 8
INVARIANTS TableServes NeverBehindPosition
CHECK_DEADLOCK FALSE
