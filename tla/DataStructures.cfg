SPECIFICATION MCSpec
CONSTANTS
  Values = {1, 2, 3}
  MaxSize = 5
  Nothing = Nothing
  Keys = {1, 2, 3, 4}
  CacheValues = {1, 2}
  Capacities = {0, 1, 2, 3}
  NoNode = NoNode
  Sizes = {1, 2, 3}
  Readings = {1, 2}
  Asks = {0, 1, 2, 4}
  MaxPushes = 6
  Horizon = 2
  Width = 2
  Gateways = {"g1", "g2"}
  MaxRoutes = 3
  Far <- MCFar
  Words <- MCWords
  WideRunes = {"u"}
  Factories <- MCFactories
CHECK_DEADLOCK FALSE
INVARIANTS
  AllTypes
  HeapOrder
  TreeIsSound
  PrefixesOfWords
  OneChain
  ReadsAreExact
  LongestPrefix
  WinsInTime
PROPERTIES
  ImplementsPriorityQueue
  KeysAreSets
  CallsActOnSequences
  ImplementsLRU
  HoldsRecent
