SPECIFICATION Spec
CONSTANTS
  a = a
  b = b
  c = c
INVARIANTS
  TypeOK
  CompleteOrError
PROPERTIES
  ImplementsBreaker
  Recovers
  BoundedCallsEnd
  LiveIsUsable
  Answered
  Released
CHECK_DEADLOCK FALSE
