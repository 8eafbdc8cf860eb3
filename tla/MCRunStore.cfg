\* Two commands that run at the same time, may draw one id and may be killed, and a reader.
CONSTANTS
    c1 = c1
    c2 = c2
    Commands = {c1, c2}
    Ids = {1, 2}
    NStages = 1
    MaxArtifacts = 1
    MaxKills = 1
    NoId = NoId
    NoFile = NoFile
    Truncated = Truncated
    Mixed = Mixed
SPECIFICATION FairSpec
INVARIANTS
    TypeOK
    WriteThrough
    EndIsExplained
PROPERTIES
    ImplementsLedger
    ListingAnswers
    UnendedIsDead
