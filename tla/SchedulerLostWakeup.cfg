SPECIFICATION FairSpec
CONSTANTS
  a = a
  b = b
  c = c
  d = d
  None = None
  Tasks = {a}
  ExecuteAt <- MCExecuteAt
  Priority <- MCPriority
  Parent <- MCParent
  Panics = {}
  Runners = {r1}
  Clients = {}
  Horizon = 1
CHECK_DEADLOCK FALSE
PROPERTY
  EveryAddIsSeen
