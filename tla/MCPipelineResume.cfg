\* pretrain alone, after an earlier run.
CONSTANTS
    r1 = r1
    r2 = r2
    Runs = {r1}
    NoRun = NoRun
    Project = Project
    NoFile = NoFile
    Options <- PretrainOnly
    Leftovers <- Earlier
    MayFail = FALSE
    MaxFaults = 0
SPECIFICATION Spec
CHECK_DEADLOCK FALSE
INVARIANTS
    PretrainAloneResumes
