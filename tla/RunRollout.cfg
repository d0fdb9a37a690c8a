SPECIFICATION FairSpec
CONSTANTS
  r1 = r1
  r2 = r2
  host = host
  QueueSize = 1
  MaxFaults = 1
CONSTANT Runs <- TwoRuns
CONSTANT Cancellable <- OneRun
CONSTANT Host <- host
CONSTANT MaxEvents <- OneTalks
\* Every run may be over and the recorder shut down.
CHECK_DEADLOCK FALSE
INVARIANTS
  PublishedIsDurable
  TrailIntact
PROPERTY RunsEnd
