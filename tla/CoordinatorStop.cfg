SPECIFICATION FairSpec
CONSTANTS
    Collections = {colA}
    Clients = {c1, c2}
    Worker = worker
    Calls <- MCScanCalls
    Stoppable <- MCStopIds
    MayClose = TRUE
    MaxCalls = 3
INVARIANTS
    IInv
    NoLostWakeup
PROPERTIES
    ImplementsBoard
    WorkerStops
CHECK_DEADLOCK FALSE
