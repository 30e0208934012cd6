SPECIFICATION Spec
CONSTANTS
    s1 = s1
    s2 = s2
    Buffers = {b1, b2, b3}
    QUIT = QUIT
    NoUrl = NoUrl
    Nothing = Nothing
    Configs <- MCConfigs
    MaxInterval = 2
INVARIANTS
    OwnedOnce
    QueueHoldsNewest
PROPERTIES
    ShutdownCompletes
    StatusCatchesUp
CHECK_DEADLOCK FALSE
