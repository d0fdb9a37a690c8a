SPECIFICATION Spec
CONSTANTS
    ToolCalls = {}
    Gates = {g1}
    MaxVersion = 0
    MaxAnswers = 1
    None = none
INVARIANT VerdictHonoured
