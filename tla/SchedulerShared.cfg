SPECIFICATION Spec
CONSTANTS
  a = a
  b = b
  c = c
  d = d
  None = None
  Tasks = {a, b, c}
  ExecuteAt <- MCExecuteAt
  Priority <- MCPriority
  Parent <- MCParent
  Panics = {b}
  Runners = {r1, r2}
  Clients = {c1}
  Horizon = 2
CHECK_DEADLOCK FALSE
INVARIANTS
  Accounted
  StopsOnlyWhenCancelled
