SPECIFICATION Spec
CONSTANTS
  MaxWork = 2
  MaxSess = 2
  MaxBreaks = 1
  MaxKept = 1
  MaxMisread = 1
  RollbkAll = FALSE
INVARIANT CommitMeansKept
