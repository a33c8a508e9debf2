SPECIFICATION FairSpec
CONSTANTS
  a = a
  b = b
  c = c
  d = d
  None = None
  Tasks = {a, b, c, d}
  ExecuteAt <- MCExecuteAt
  Priority <- MCPriority
  Parent <- MCParent
  Panics = {b}
  Runners = {r1}
  Clients = {}
  Horizon = 2
CHECK_DEADLOCK FALSE
INVARIANTS
  TypeOK
  NeverEarly
  SeenIsStillThere
PROPERTIES
  ImplementsContract
  SeenTasksDrain
  ParkedRunSeesAdd
  CancelledRunReturns
