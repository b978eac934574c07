SPECIFICATION Spec
CONSTANTS
  num_threads = 2
  Capacity = 2
  MaxChunks = 3
PROPERTY LargeResultsEnd
CHECK_DEADLOCK FALSE
