\* One and two registers in functions of up to three blocks.
SPECIFICATION FairSpec
CONSTANTS
  VRegs = {1, 2}
  Funcs <- MCFuncs
INVARIANTS
  FixedPoint
  IntervalsExact
  ListsAsSets
PROPERTIES
  Terminates
