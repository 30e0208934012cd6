SPECIFICATION Spec
CONSTANTS
    cpu = cpu
    mem_used = mem_used
    disk = disk
    NAN = NAN
    JUNK = JUNK
    Ids = {cpu, mem_used, disk}
    Registries <- ChangingRegistries
    HEADER_FLUSH_EVERY = 2
    WriteErrors = TRUE
    MaxSamples = 4
    MaxRuns = 3
INVARIANTS
    CleanRestartExact
    CrashLossBounded
    AttributedUnlessTorn
    FileMirrorsHistory
PROPERTIES
    RefinesDurableHistory
CHECK_DEADLOCK FALSE
