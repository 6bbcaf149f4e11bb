SPECIFICATION FairSpec
CONSTANTS
    Files <- MCFiles
    Dirs = {"a_b/", "a-b/"}
    Tags = {}
    Clients = {scanner}
    Scanner = scanner
    Keep = 10
    Failing = {}
    Under <- MCUnder
    TaskDirs <- MCTaskDirs
    Matches <- MCUnder
    Capacity = 1
    Limits = {0, 1}
    Thumbnailed = {1, 3}
    MayStop = TRUE
    MaxScans = 2
    MaxChanges = 1
INVARIANTS
    AnsweredMeansSaved
PROPERTIES
    ScanReconciles
    CompleteScanKeeps
    ScanEnds
CHECK_DEADLOCK FALSE
