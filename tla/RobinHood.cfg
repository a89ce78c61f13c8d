SPECIFICATION Spec
CONSTANTS
  k1 = k1
  k2 = k2
  k3 = k3
  k4 = k4
  v1 = v1
  v2 = v2
  NULL = NULL
  Key <- Keys4
  Value <- Values2
  Hash <- HashWrap
  InitialCap = 2
  ShrinkDivisor = 4
INVARIANTS TableSound CountExact
PROPERTIES CallReturns ImplementsDictionary
