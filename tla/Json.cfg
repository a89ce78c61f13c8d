SPECIFICATION Spec
CONSTANTS
  Alphabets <- AllAlphabets
  MaxLength <- Lengths
  UintMax = 2
  IntMax = 9
  EntrySize = 2
  IntLimit <- IntLimits
INVARIANTS WritesFit PassesAgree MemorySound AcceptsGrammar TreeRight
PROPERTY CallReturns
CHECK_DEADLOCK FALSE
