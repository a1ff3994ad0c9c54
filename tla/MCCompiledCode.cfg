\* The programs of MCCompiledCode on six general registers and twelve cells.
SPECIFICATION Spec
CONSTANTS
  NaN = NaN
  NegZero = NegZero
  Sources <- MCSources
  NumGeneral = 6
  NumCells = 12
INVARIANTS
  AccessesNamed
  SameEffect
  NoDefect
  NoNeedlessJump
PROPERTIES
  EffectsHappen
