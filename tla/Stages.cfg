SPECIFICATION Spec
CONSTANTS
    Files = {1, 2}
    Workers = {w1, w2}
    Skipped = {}
    Thumbed = {2}
    Embeds = TRUE
    ListBuffer = 1
    FileBuffer = 1
    BatchSize = 2
    StoreCapacity = 1
    Limits = {0, 1}
    MaxTasks = 1
INVARIANTS
    NothingMissed
PROPERTIES
    FlushedMeansSaved
    CloseEnds
    StageEnds
    ConnectionsReturned
CHECK_DEADLOCK FALSE
