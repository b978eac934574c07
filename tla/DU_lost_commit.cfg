SPECIFICATION Spec
CONSTANTS
  Page = {p1}
  MaxTx = 2
  MaxCrash = 1
  MaxCheckpoint = 0
  MaxLog = 8
  Concurrent = TRUE
  PowerLoss = FALSE
  TornTail = FALSE
INVARIANT Durable
CHECK_DEADLOCK FALSE
