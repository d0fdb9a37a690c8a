SPECIFICATION Spec
CONSTANTS
  r1 = r1
  r2 = r2
  s1 = s1
  s2 = s2
  MaxGeneration = 1
CONSTANT Runs <- TwoRuns
CONSTANT States <- TwoStates
\* Every run may be over, and a closed pipeline starts none.
CHECK_DEADLOCK FALSE
INVARIANT NothingHeld
