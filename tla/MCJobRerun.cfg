\* The command that has completed is run again.
CONSTANTS
    MaxSteps = 3
    EveryStep = 2
    FirstSteps = {3}
    OutCap = 2
    ErrCap = 2
    MaxWarns = 0
    MaxNoise = 0
    MaxKills = 0
    MayDiverge = FALSE
    MayRaise = FALSE
SPECIFICATION Spec
CHECK_DEADLOCK FALSE
INVARIANTS
    NeverCrashes
