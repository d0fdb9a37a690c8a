SPECIFICATION Spec
CONSTANTS
    j1 = j1
    j2 = j2
    Jobs = {j1, j2}
    Period <- MCPeriod
    MaxTime = 1
    MaxOps = 2
    MaxFaults = 1
    None = none
INVARIANT
    JobsKept
CHECK_DEADLOCK FALSE
