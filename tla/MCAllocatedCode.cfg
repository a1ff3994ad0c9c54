\* Functions of up to nineteen instructions over four virtual registers, on a
\* register file of three general registers, sp and ra, with four cells of
\* memory.
SPECIFICATION CodeSpec
CONSTANTS
  VRegs = {1, 2, 3, 4}
  Registers = {0, 1, 2, 3, 4}
  NumGeneral = 3
  NameLen <- MCNameLen
  NumMemorySlots = 4
  ScoreUnit = 12252240
  Inputs <- MCCodeInputs
  Programs <- MCPrograms
INVARIANTS
  RegisterExclusive
  SlotExclusive
  ScratchSuffices
  NoNeedlessSpill
  OperandsHeld
  FramesKept
  ForeignKept
PROPERTIES
  Terminates
