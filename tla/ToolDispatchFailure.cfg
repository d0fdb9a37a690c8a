SPECIFICATION Spec
CONSTANTS
  N = 3
  MaxConcurrency = 2
  MaxActive = 2
  MaxCalls = 3
\* A batch that ended has nothing left to do.
CHECK_DEADLOCK FALSE
INVARIANT FailureIsAnAnswer
