SPECIFICATION Spec
CONSTANTS
    Files <- MCTwoFiles
    Dirs = {}
    Tags = {"fav"}
    Clients = {c1, c2}
    Capacity = 2
    Keep = 10
    Failing = {}
    Operations = {"addTagIds"}
    MaxRequests = 3
    MaxTagged = 0
    MaxDeleted = 0
PROPERTIES
    RequestsAreKept
CHECK_DEADLOCK FALSE
