\* Every list of up to four moves over four registers.
SPECIFICATION FairSpec
CONSTANTS
  Regs = {1, 2, 3, 4}
  FirstTemp = 10
  Imms = {}
  MoveLists <- AllLists
INVARIANTS
  SameEffect
