SPECIFICATION Spec
CONSTANTS
  MaxTx = 3
  MaxId = 3
  MaxStmts = 1
  MaxRestarts = 0
  Enabled <- ConcurrentRollback
CHECK_DEADLOCK FALSE
INVARIANTS
  RollbackKeepsOthersRows
