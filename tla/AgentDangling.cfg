SPECIFICATION Spec
CONSTANTS
  t1 = t1
  t2 = t2
  p1 = p1
  p2 = p2
  p3 = p3
  b1 = b1
  b2 = b2
  b3 = b3
  NULL = NULL
  Thread <- MCThread2
  Key <- Paths2
  Value <- Buffers2
  Capacity = 1
  Request <- MixedRequest
  RuleMaps <- MixedRules
INVARIANT PointerValid
