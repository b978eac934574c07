SPECIFICATION Spec
CONSTANTS
  Tx = {t1, t2, t3}
  Row = {r1, r2}
  Slot = {s1, s2}
  MaxTs = 3
  UnmarkedWrites = TRUE
SYMMETRY Symmetry
INVARIANTS
  TypeOK
  OwnWritesReadable
  NoUncommittedData
  NewestSurvives
CHECK_DEADLOCK FALSE
