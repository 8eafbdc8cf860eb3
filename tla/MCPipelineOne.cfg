\* Every choice of stages in one run, after earlier runs or none.
CONSTANTS
    r1 = r1
    r2 = r2
    Runs = {r1}
    NoRun = NoRun
    Project = Project
    NoFile = NoFile
    Options <- AnyCommand
    Leftovers <- Earlier
    MayFail = TRUE
    MaxFaults = 1
SPECIFICATION FairSpec
CHECK_DEADLOCK FALSE
INVARIANTS
    TypeOK
    SuccessIsComplete
    FailureShowsItsStage
    PackagesItsCheckpoint
    EvaluationIsHeldOut
PROPERTIES
    EveryRunEnds
