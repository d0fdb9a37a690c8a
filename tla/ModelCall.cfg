SPECIFICATION Spec
CONSTANTS
    MaxRetries = 2
    TimeoutRetries = 1
    MaxInner = 2
    MaxTools = 2
INVARIANTS
    ShownIsRecorded
    BilledOnce
    WorkKept
CHECK_DEADLOCK FALSE
