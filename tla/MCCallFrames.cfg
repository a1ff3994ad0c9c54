\* Up to four functions, up to five slots for their frames.
SPECIFICATION Spec
CONSTANTS
  Funcs = {0, 1, 2, 3}
  Entry = 0
  Graphs <- MCGraphs
  Lefts = {0, 1, 2, 3, 5}
  MaxNesting = 7
INVARIANTS
  SearchesAgree
  CountsErrLow
  CountsExact
  OrdinaryCallsFit
  RecursionReported
