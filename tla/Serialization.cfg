SPECIFICATION MCSpec
CONSTANTS
  Depth = 3
  Values = {a}
  a = a
  MaxKeys = 3
  Empty = Empty
  Items <- MCItems
  MaxItems = 6
CHECK_DEADLOCK FALSE
INVARIANTS
  ProofsAfterSet
  RootOfNeighbours
  ProofVerifies
  RootDeterminesItems
  DecodesWhole
  ReadsInOrder
