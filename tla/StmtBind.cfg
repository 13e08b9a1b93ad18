SPECIFICATION Spec
CONSTANTS
  MaxName = 3
  Texts <- AllTexts
  Bound <- BindTexts
  Vars <- TwoVars
  Rows = 2
  Nulls = {{}, {1}, {2}}
  Layouts = {"plain", "packed", "interleaved"}
  Columns = 2
  MaxDefines = 3
INVARIANTS PreparedAsScanned SentAsBound DefinesReachColumns
