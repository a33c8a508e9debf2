CONSTANTS
  S = S
  A = A
  B = B
  D = D
  Nodes <- MCNodes
  Graphs <- MCGraphs
  Payments <- MCPayments
  MaxInt64 = 1000000
SPECIFICATION Spec
INVARIANT FindsLowestCost
CHECK_DEADLOCK FALSE
