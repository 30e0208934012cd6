SPECIFICATION Spec
CONSTANTS
    cpu = cpu
    mem_used = mem_used
    disk = disk
    NAN = NAN
    JUNK = JUNK
    Ids = {cpu, mem_used, disk}
    Registries <- OneRegistry
    HEADER_FLUSH_EVERY = 2
    WriteErrors = FALSE
    MaxSamples = 9
    MaxRuns = 3
INVARIANT
    CrashLosesLastFew
CHECK_DEADLOCK FALSE
