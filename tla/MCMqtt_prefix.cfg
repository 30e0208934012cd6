SPECIFICATION Spec
CONSTANTS
    Metrics = {"sensor", "zone"}
    Essential = {"sensor"}
    RawZones = {"zone"}
    NamedSensors = {"sensor"}
    Hosts = {"a"}
    NoHost = "none"
    Prefixes = {"p", "q"}
    Configs <- PrefixConfigs
    Registries <- OneRegistry
    Selections <- OneSelection
    ConnectFails = FALSE
    MaxApplies = 1
    MaxDrops = 1
    MaxChanges = 0
    MaxStarts = 1
INVARIANT StopRetracts
CHECK_DEADLOCK FALSE
