CONSTANTS
    Runners = {r1, r2}
    Late = {r1}
    Codes = {97777}
    RPCs = {a}
    Dates = {0}
    Base = 1
    Cap = 2
    Grace = 1
    Interval = 2
    Budget = 1
    Window = 1
    Threshold = 3
    DelInterval = 2
    MaxTime = 3
    MaxErrors = 1
    Deleting = TRUE
    MaxManual = 0
SPECIFICATION Spec
CHECK_DEADLOCK FALSE
PROPERTIES DeletesAreSpaced
