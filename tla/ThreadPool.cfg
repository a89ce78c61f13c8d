SPECIFICATION Spec
CONSTANTS
  w1 = w1
  w2 = w2
  w3 = w3
  a = a
  b = b
  c = c
  d = d
  Owner = Owner
  NULL = NULL
  Worker <- Workers3
  Task <- Tasks4
  Submits <- Submits4
INVARIANTS WorksSound NoLostWakeup ShutdownSafe
PROPERTIES DestroyReturns ImplementsTaskPool
