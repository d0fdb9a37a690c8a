SPECIFICATION Spec
CONSTANTS
    j1 = j1
    j2 = j2
    Jobs = {j1, j2}
    Period <- MCPeriod
    MaxTime = 3
    MaxOps = 3
    MaxFaults = 1
    None = none
INVARIANTS
    JobsKeptUnlessCut
PROPERTIES
    FiresOnce
    DueIsServed
CHECK_DEADLOCK FALSE
