CONSTANTS
    Runners = {r1}
    Late = {}
    Codes = {5000, 97778}
    RPCs = {a, b}
    Dates = {0, 2}
    Base = 1
    Cap = 2
    Grace = 1
    Interval = 2
    Budget = 1
    Window = 1
    Threshold = 2
    DelInterval = 2
    MaxTime = 4
    MaxErrors = 3
    Deleting = FALSE
    MaxManual = 1
SPECIFICATION Spec
CHECK_DEADLOCK FALSE
INVARIANTS BudgetIsKept NoLostWakeup
PROPERTIES  NewerErrorWins SpacingIsKept CooldownHolds
