SPECIFICATION Spec
CONSTANTS
  a = a
  b = b
  c = c
  d = d
  None = None
  Tasks = {a, d}
  ExecuteAt <- MCExecuteAt
  Priority <- MCPriority
  Parent <- MCParent
  Panics = {}
  Runners = {r1}
  Clients = {c1}
  Horizon = 2
CHECK_DEADLOCK FALSE
INVARIANT
  NeverEarly
