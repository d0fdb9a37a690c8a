SPECIFICATION Spec
CONSTANTS
    ToolCalls = {t1}
    Gates = {g1}
    MaxVersion = 2
    MaxAnswers = 2
    None = none
INVARIANTS
    RunsAsPermitted
    NoStaysNo
PROPERTIES
    ClosedReleases
