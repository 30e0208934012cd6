SPECIFICATION AlertsSpec
CONSTANTS
    cpu = cpu
    fs = fs
    cpu_high = cpu_high
    storage_full = storage_full
    Keep = Keep
    NoMetric = NoMetric
    Metrics = {cpu, fs}
    Defaults <- DiskAndCpu
    DefaultOrder <- DiskAndCpuOrder
    UserIds = {u1}
    MAX_RULES = 3
    DefaultDuration = 2
    Edits <- Replacements
    Registries <- BothMetrics
    ClockSteps <- Steady
    EventsFail = FALSE
    OtherTopics = {}
    MaxSamples = 6
    MaxLaunches = 2
    MaxEdits = 2
    MaxLinks = 0
PROPERTY
    OneSampleRaisesNothing
CHECK_DEADLOCK FALSE
