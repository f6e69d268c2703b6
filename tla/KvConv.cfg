CONSTANTS
  k1 = k1
  k2 = k2
  Nil = Nil
  Keys <- MCKeys
  MaxKvs = 3
  MaxOps = 2
SPECIFICATION Spec
INVARIANT
  ResponseMatchesReference
