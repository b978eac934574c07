SPECIFICATION Spec
CONSTANTS
  p1 = p1
  p2 = p2
SYMMETRY Symmetric
INVARIANTS
  SchemasAgree
  NeverSilentlyLost
  CachedPlansCurrent
  IndexRight
  Forgotten
  Retrievable
  NeighborsRight
PROPERTIES
  RollbackUndoes
CHECK_DEADLOCK FALSE
