SPECIFICATION Spec
CONSTANTS
  p1 = p1
  p2 = p2
  p3 = p3
  null = null
  oob = oob
  junk = junk
INVARIANTS
  EndedStaysEnded
  UsersAgree
  RequestsBounded
  ClientsAgree
  
  
  StatementsRight
  PathsRight
  ValuesKept
CHECK_DEADLOCK FALSE
