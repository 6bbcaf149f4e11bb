SPECIFICATION Spec
CONSTANTS
    Files <- MCThreeFiles
    Dirs = {}
    Tags = {"fav"}
    Clients = {c1}
    Capacity = 2
    Keep = 1
    Failing = {"addTag", "addTagId", "compact"}
    Operations = {"addTagIds", "removeTagIds", "invertTagIds"}
    MaxRequests = 1
    MaxTagged = 1
    MaxDeleted = 2
INVARIANTS
    TypeOK
PROPERTIES
    AnswersAreVisible
    DeleteTouchesOneFile
CHECK_DEADLOCK FALSE
