SPECIFICATION Spec
CONSTANTS
  FetchSize = 3
  LoginBatch = 6
  Totals <- SmallTotals
  Widths <- TwoWidths
  NRows = {1, 2}
  Iters = {0, 1, 2}
  Orients = {"NEXT", "CURRENT"}
  ReExecute = TRUE
  DefineWhen = {"before", "after"}
  Undefined = FALSE
  MaxExecs = 3
  MaxFetched = 4
INVARIANTS RowsSound RowsInOrder
PROPERTY ImplementsResultSet
