SPECIFICATION Spec
CONSTANTS
  k1 = k1
  k2 = k2
  k3 = k3
  k4 = k4
  v1 = v1
  v2 = v2
  i1 = i1
  i2 = i2
  i3 = i3
  NULL = NULL
  Key <- Keys4
  Hash <- Hash4
  Value <- TwoValues
  Item <- Items3
  Bucket <- MCBucket
  Lengths <- OneLength
  TotalMemory = 2
  Wrap = 16
  MaxAccess = 5
  MaxFree = 1
INVARIANTS RecordsSound MemoryAccounted
PROPERTIES SetReturns ImplementsLru
