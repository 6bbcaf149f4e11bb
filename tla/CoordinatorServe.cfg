SPECIFICATION FairSpec
CONSTANTS
    Collections = {colA}
    Clients = {c1, c2}
    Worker = worker
    Calls <- MCCalls
    Stoppable <- MCNoIds
    MayClose = TRUE
    MaxCalls = 2
INVARIANTS
    OneTaskPerId
    CompletedIsUnregistered
    NoTaskForgotten
PROPERTIES
    StartsBest
    EveryTaskCompletes
CHECK_DEADLOCK FALSE
