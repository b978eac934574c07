SPECIFICATION Spec
CONSTANTS
  Row = {r1}
  InitRow = {}
  MaxTx = 4
  MaxTs = 4
  SnapshotTs = {}
  LateErrors = FALSE
INVARIANTS
  FirstCommitterWins
  RecordedMarks
