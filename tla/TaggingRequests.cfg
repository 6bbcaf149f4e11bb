SPECIFICATION FairSpec
CONSTANTS
    Files <- MCTwoFiles
    Dirs = {}
    Tags = {"fav"}
    Clients = {c1, c2}
    Capacity = 2
    Keep = 10
    Failing = {}
    Operations = {"addTagIds", "removeTagIds"}
    MaxRequests = 3
    MaxTagged = 0
    MaxDeleted = 0
INVARIANTS
    OneActiveVersion
    CreatedIsFound
PROPERTIES
    EveryRequestAnswered
CHECK_DEADLOCK FALSE
