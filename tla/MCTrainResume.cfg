\* One worker at a time, killed and run again with other options.
CONSTANTS
    small = small
    big = big
    i1 = i1
    i2 = i2
    i3 = i3
    i4 = i4
    w1 = w1
    w2 = w2
    Workers = {w1}
    Inodes = {i1, i2, i3}
    NoInode = NoInode
    Torn = Torn
    Jobs <- MixedJobs
    Archs = {small, big}
    NBlocks = 3
    BatchSize = 2
    Order <- MCOrder
    Overlap = "none"
    MaxSpawns = 3
    MaxFaults = 2
SPECIFICATION FairSpec
CHECK_DEADLOCK FALSE
INVARIANTS
    TypeOK
    CheckpointReadable
    BalancedUse
    LostWorkBounded
PROPERTIES
    NoProgressLost
    DoneIsDurable
    OnlyDeclaredFailures
    EveryWorkerEnds
