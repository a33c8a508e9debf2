SPECIFICATION FairSpec
CONSTANTS
  UrlCounts = {0, 1, 3}
  PoolSizes = {0, 1, 2}
  Outcomes = {"healthy", "error"}
INVARIANTS
  SendNeverBlocks
  EachUrlOnce
  CompleteUnlessInterrupted
PROPERTIES
  RunCheckerReturns
  FeederExits
