\* More warnings than the stderr pipe holds, a foreign line, a diverging loss, bad
\* input, and either process may be killed.
CONSTANTS
    MaxSteps = 3
    EveryStep = 2
    FirstSteps <- MCFirstSteps
    OutCap = 2
    ErrCap = 1
    MaxWarns = 2
    MaxNoise = 1
    MaxKills = 1
    MayDiverge = TRUE
    MayRaise = TRUE
SPECIFICATION FairSpec
CHECK_DEADLOCK FALSE
INVARIANTS
    TypeOK
    EveryLineRead
    NoSuccessLost
PROPERTIES
    ImplementsCall
    TerminatesUnlessStderrFull
