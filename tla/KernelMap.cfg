SPECIFICATION Spec
CONSTANTS
  k1 = k1
  k2 = k2
  k3 = k3
  zero = zero
  read = read
  NULL = NULL
  Key <- Keys3
  Permission <- Permissions
  Zero = zero
  Sent <- SentRules
  Hash <- HashWrap
  Cap = 2
INVARIANTS TableSound AnswerRight ReadsOwned
PROPERTY LookupEnds
