SPECIFICATION Spec
CONSTANTS
  MaxWork = 2
  MaxSess = 2
  MaxBreaks = 1
  MaxKept = 1
  MaxMisread = 1
  RollbkAll = TRUE
INVARIANTS TransactionKnown CommitTakesAll RollbackTakesAll NoOrphan
