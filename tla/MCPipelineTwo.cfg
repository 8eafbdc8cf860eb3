\* Two runs, one after the other or at the same time.
CONSTANTS
    r1 = r1
    r2 = r2
    Runs = {r1, r2}
    NoRun = NoRun
    Project = Project
    NoFile = NoFile
    Options <- TwoCommands
    Leftovers = {}
    MayFail = FALSE
    MaxFaults = 1
SPECIFICATION Spec
CHECK_DEADLOCK FALSE
SYMMETRY RunSymmetry
INVARIANTS
    WorkspaceVerifiable
PROPERTIES
    RecordOnlyGrows
    RunsImplementBuild
