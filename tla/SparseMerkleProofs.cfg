SPECIFICATION Spec
CONSTANTS
  Depth = 3
  Values = {a}
  a = a
  MaxKeys = 3
  Empty = Empty
INVARIANT
  ProofsVerify
