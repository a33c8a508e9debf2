SPECIFICATION Spec
CONSTANTS
  UrlCounts = {2}
  PoolSizes = {1}
  Outcomes = {"healthy"}
INVARIANTS
  CancelledRunReportsError
