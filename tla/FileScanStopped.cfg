SPECIFICATION Spec
CONSTANTS
    Files <- MCFiles
    Dirs = {"a_b/", "a-b/"}
    Tags = {}
    Clients = {scanner}
    Scanner = scanner
    Keep = 10
    Failing = {}
    Under <- MCUnder
    TaskDirs <- MCFirstDir
    Matches <- MCUnder
    Capacity = 2
    Limits = {0}
    Thumbnailed = {1, 3}
    MayStop = TRUE
    MaxScans = 1
    MaxChanges = 0
PROPERTIES
    KeepsExisting
CHECK_DEADLOCK FALSE
