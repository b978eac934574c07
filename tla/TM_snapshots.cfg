SPECIFICATION Spec
CONSTANTS
  Row = {r1}
  InitRow = {}
  MaxTx = 4
  MaxTs = 2
  SnapshotTs = {2}
  LateErrors = TRUE
INVARIANTS
  TypeOK
  ReadTsBalanced
  NoFutureRows
