SPECIFICATION Spec
CONSTANTS
    Ids = {1, 2}
    Viewers = {v1}
    SceneCost = 1
    MaxSize = 0
    Partial = partial
    MaxTime = 6
    MaxVersion = 1
INVARIANTS
    ChangesAreNoticed
    TagChangesAreNoticed
    KeptTilesAreComplete
CHECK_DEADLOCK FALSE
