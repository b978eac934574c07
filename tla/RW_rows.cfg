SPECIFICATION Spec
CONSTANTS
  p1 = p1
  p2 = p2
SYMMETRY Symmetric
INVARIANTS
  TypeOK
  Durable
  UncommittedDiscarded
  CommittedRowsKept
  RowCountsRight
  MarksReleased
CHECK_DEADLOCK FALSE
