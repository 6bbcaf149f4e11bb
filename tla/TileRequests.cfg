SPECIFICATION FairSpec
CONSTANTS
    Handlers = {1, 3, 4}
    Kind <- MCKind
    Zoom <- MCZoom
    Capacity = 2
    Limits = {0, 1, 2}
    MaxReloads = 1
    MaxPanics = 1
INVARIANTS
    TokensMatchRequests
    RenderingBounded
PROPERTIES
    EveryRequestAnswered
CHECK_DEADLOCK FALSE
