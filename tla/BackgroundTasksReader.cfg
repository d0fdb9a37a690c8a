SPECIFICATION Spec
CONSTANTS
  Tasks = {t1, t2}
  NoTask = NoTask
  Watched = {t1}
  MaxConcurrent = 1
  MaxJobs = 2
  MaxChunks = 1
  MaxCrashes = 0
CHECK_DEADLOCK FALSE
INVARIANT ReaderYields
