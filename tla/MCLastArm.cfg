\* A switch whose default arm is its last and has no statements.
SPECIFICATION Spec
CONSTANTS
  Programs <- LastArmPrograms
  Levels <- LastArmLevels
  Names = {"x", "y", "p"}
  Answers = {0, 1}
INVARIANT AssignedBeforeRead
