\* Three tests sharing a chip that is started at most three times.
SPECIFICATION PoolSpec
CONSTANTS
  Tests = {"a", "b", "c"}
  Callers = {"a1", "a2", "b1", "c1"}
  TestOf <- MCTestOf
  MaxStarts = 3
INVARIANTS
  HeldAlone
  NothingLeft
PROPERTIES
  FreshWhenHanded
