\* A worker whose parent was killed is still saving when the next one starts.
CONSTANTS
    small = small
    big = big
    i1 = i1
    i2 = i2
    i3 = i3
    i4 = i4
    w1 = w1
    w2 = w2
    Workers = {w1, w2}
    Inodes = {i1, i2, i3, i4}
    NoInode = NoInode
    Torn = Torn
    Jobs <- SameJob
    Archs = {small, big}
    NBlocks = 3
    BatchSize = 2
    Order <- MCOrder
    Overlap = "orphans"
    MaxSpawns = 3
    MaxFaults = 2
SPECIFICATION Spec
CHECK_DEADLOCK FALSE
SYMMETRY Symmetric
INVARIANTS
    CheckpointReadable
