\* Up to five moves over five registers and a literal.
SPECIFICATION FairSpec
CONSTANTS
  Regs = {1, 2, 3, 4, 5}
  FirstTemp = 10
  Imms = {k}
  MoveLists <- ForksEndLists
INVARIANTS
  ValuesHeld
  SameEffect
  OneSparePerCycle
PROPERTIES
  Terminates
