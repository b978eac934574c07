SPECIFICATION Spec
CONSTANTS
  N = 3
  Threads = {1}
  MaxRows = 2
  PageWords = 6
  MaxOther = 1
INVARIANT BatchRight
CHECK_DEADLOCK FALSE
