SPECIFICATION Spec
CONSTANTS
    STORE_TIERS = 3
    Capacity <- MCCapacity
    Interval <- MCInterval
    Metrics = {m1}
    Values = {1}
    ClockSteps <- MCClockSteps
    SavedTimes = {1, 3}
    MaxClock = 11
    MaxPushes = 4
    Windows = {1, 3, 8}
    CHART_POINTS = 1
    MAX_SERIES_POINTS = 2
INVARIANTS
    TypeOK
    MeansExact
    EverySampleOnce
    BucketWidth
    ZoomOutHidesNothing
PROPERTIES
    RefinesBoundedHistory
CHECK_DEADLOCK FALSE
