\* A second training run after the first.
CONSTANTS
    r1 = r1
    r2 = r2
    Runs = {r1, r2}
    NoRun = NoRun
    Project = Project
    NoFile = NoFile
    Options <- TrainCommands
    Leftovers = {}
    MayFail = FALSE
    MaxFaults = 0
SPECIFICATION Spec
CHECK_DEADLOCK FALSE
INVARIANTS
    CheckpointVerifiable
