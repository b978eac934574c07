SPECIFICATION Spec
CONSTANTS
  Row = {r1, r2}
  InitRow = {r1, r2}
  MaxTx = 3
  MaxTs = 3
  SnapshotTs = {}
  LateErrors = FALSE
INVARIANT RollbackLeavesNoMark
