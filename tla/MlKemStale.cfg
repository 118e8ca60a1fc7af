CONSTANT ITERATIONS = 3
SPECIFICATION Spec
INVARIANTS
  MatchIsAgreement
CHECK_DEADLOCK FALSE
