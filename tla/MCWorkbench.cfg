\* Two terminals and the desktop, three commands, one edit, one change of the world.
CONSTANTS
    t1 = t1
    t2 = t2
    small = small
    big = big
    uhd = uhd
    Terminals = {t1, t2}
    Names = {small, big, uhd}
    Overlaps <- MCOverlaps
    Undescribed = Undescribed
    Times = {0, 1}
    Never = Never
    Malformed = Malformed
    NoLicense = NoLicense
    Undecodable = Undecodable
    Machines <- MCMachines
    LicenseFiles <- MCLicenses
    Worlds <- MCWorlds
    ModelSizes = {"20M", "200M"}
    Contexts = {2048}
    NoContext = NoContext
    Trainings <- MCTrainings
    Requests <- MCRequests
    MaxCommands = 3
    MaxEvents = 1
    NoFile = NoFile
    Torn = Torn
    None = None
SPECIFICATION Spec
CHECK_DEADLOCK FALSE
INVARIANTS
    TypeOK
    EditsSurvive
    AdviceFitsProject
    AdviceIsMonotone
PROPERTIES
    OnlyALicenseGrants
    WindowAnswers
