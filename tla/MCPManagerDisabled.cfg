SPECIFICATION ManagerSpec
CONSTANTS
    Names = {n1}
    Callers = {c1, c2}
    Founder = f
    Nothing = nothing
    Overlap = TRUE
    MaxCancels = 0
PROPERTY DisabledStays
