CONSTANT ITERATIONS = 3
SPECIFICATION Spec
INVARIANTS
  FreesKeys
CHECK_DEADLOCK FALSE
