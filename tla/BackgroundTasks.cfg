SPECIFICATION FairSpec
CONSTANTS
  Tasks = {t1, t2}
  NoTask = NoTask
  Watched = {t1}
  MaxConcurrent = 1
  MaxJobs = 2
  MaxChunks = 1
  MaxCrashes = 2
\* A reader that holds the event loop stops the process.
CHECK_DEADLOCK FALSE
INVARIANTS
  RecordsTrue
  JobsInReach
PROPERTIES
  JobsEnd
