SPECIFICATION AlertsSpec
CONSTANTS
    cpu = cpu
    fs = fs
    cpu_high = cpu_high
    storage_full = storage_full
    Keep = Keep
    NoMetric = NoMetric
    Metrics = {fs}
    Defaults <- Disk
    DefaultOrder <- DiskOrder
    UserIds = {u1, u2}
    MAX_RULES = 2
    DefaultDuration = 2
    Edits <- Retunings
    Registries <- DiskComesAndGoes
    ClockSteps <- Steady
    EventsFail = TRUE
    OtherTopics <- Elsewhere
    MaxSamples = 4
    MaxLaunches = 2
    MaxEdits = 2
    MaxLinks = 3
INVARIANTS
    AlarmIsExact
    BrokerMirrorsUnlessMissed
    EventMirrorsRule
    DefaultCover
PROPERTY
    UserRulesSurvive
CHECK_DEADLOCK FALSE
