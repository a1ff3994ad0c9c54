\* The functions of MCStatementRuns, on a machine that answers 0 or 1.
SPECIFICATION Spec
CONSTANTS
  Programs <- MCPrograms
  Levels <- MCLevels
  Names = {"x", "y", "p"}
  Answers = {0, 1}
INVARIANTS
  TypeOK
  AssignedBeforeRead
  SameFlow
PROPERTIES
  Follows
