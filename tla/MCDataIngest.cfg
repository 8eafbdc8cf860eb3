\* Two runs over a corpus that grows in between.
CONSTANTS
    a = a
    b = b
    c = c
    s1 = s1
    s2 = s2
    s3 = s3
    seed = seed
    Sources = {s1, s2, s3}
    Texts = {a, b, c}
    EmptyText = EmptyText
    Blank = Blank
    BadJson = BadJson
    NoText = NoText
    TooLong = TooLong
    Corpora <- MCCorpora
    Additions = {a, c}
    Requests <- MCRequests
    Scale = 4
    Seeds = {seed}
    Bucket <- MCBucket
    Tokens <- MCTokens
    BlockSize = 2
    MaxRuns = 2
    MaxLines = 3
SPECIFICATION Spec
CHECK_DEADLOCK FALSE
INVARIANTS
    TypeOK
    IngestIsExact
    SplitIsStable
    LearnsFromTrain
    PackingKeepsTokens
