\* An int of four bits, whole numbers exact to 2^6, a long long of eight bits.
SPECIFICATION Spec
CONSTANTS
  IntBits = 4
  IntMax = 7
  UintMax = 15
  ExactBits = 6
  ExactLimit = 64
  MachineBits = 8
  Undefined = Undefined
  Literals <- MCLiterals
INVARIANTS
  AcceptedFits
  ReadersAgree
  RefusedForCause
CHECK_DEADLOCK FALSE
