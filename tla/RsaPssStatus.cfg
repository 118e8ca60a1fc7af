CONSTANT ITERATIONS = 3
SPECIFICATION Spec
INVARIANTS
  PassedRunReturnsZero
CHECK_DEADLOCK FALSE
