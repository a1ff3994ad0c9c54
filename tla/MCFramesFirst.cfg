\* Is every recursion without room for its first activation refused?
SPECIFICATION Spec
CONSTANTS
  Funcs = {0, 1, 2, 3}
  Entry = 0
  Graphs <- MCGraphs
  Lefts = {1}
  MaxNesting = 7
INVARIANT FirstActivationFits
