SPECIFICATION Spec
CONSTANTS
  p1 = p1
  s1 = s1
  mytest = mytest
  aout = aout
  f = f
  g = g
  d = d
  e = e
  h = h
  NULL = NULL
  Process <- Processes
  CommOf <- CommOfAll
  Sender <- Senders
  Comm <- Comms
  Path <- Paths
  Absolute <- AbsolutePaths
  Slashed <- SlashedPaths
  SectionOf <- TheSections
  Entries <- TheEntries
  Request <- Requests
  Options <- AllOptions
  Files <- TheFiles
  DefaultTarget = mytest
  DefaultSection = aout
INVARIANTS TypeOK HooksPaired FaultsKnown RulesAsSent RulesAsAsked
PROPERTY NluserEnds
