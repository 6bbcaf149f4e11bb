SPECIFICATION FairSpec
CONSTANTS
    Config = config
    Expand = expand
    Watchers = {config, expand}
    Paths <- MCPaths
    NoPath = nopath
    Absent = absent
    Interval = 2
    Capacity = 10
    MaxVersion = 2
    MaxChanges = 3
INVARIANTS
    UpdatesInTime
PROPERTIES
    Debounced
    ConfigApplied
    DirsCollected
CHECK_DEADLOCK FALSE
