SPECIFICATION ManagerSpec
CONSTANTS
    Names = {n1, n2}
    Callers = {c1, c2}
    Founder = f
    Nothing = nothing
    Overlap = FALSE
    MaxCancels = 1
INVARIANTS
    OneTransportEach
PROPERTIES
    AllOrNothing
    FailsFast
