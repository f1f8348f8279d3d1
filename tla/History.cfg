SPECIFICATION Spec
CONSTANTS
    Flushers = {f1, f2}
    MaxTime = 6
    MaxSamples = 2
    ChunkSize = 1
    QueueCap = 2
    Retain = 4
    MaxFaults = 1
INVARIANTS FilesSound 
CHECK_DEADLOCK FALSE
SYMMETRY Symmetry
