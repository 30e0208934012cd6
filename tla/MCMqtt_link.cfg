SPECIFICATION Spec
CONSTANTS
    Metrics = {"sensor", "zone"}
    Essential = {"sensor"}
    RawZones = {"zone"}
    NamedSensors = {"sensor"}
    Hosts = {"a", "b"}
    NoHost = "none"
    Prefixes = {"p"}
    Configs <- LinkConfigs
    Registries <- LinkRegistries
    Selections <- LinkSelections
    ConnectFails = TRUE
    MaxApplies = 1
    MaxDrops = 2
    MaxChanges = 1
    MaxStarts = 2
INVARIANT OnlineMeansConnected
INVARIANT DiscoveryComplete
INVARIANT FirstSamplePublishes
PROPERTY ComesOnline
CHECK_DEADLOCK FALSE
