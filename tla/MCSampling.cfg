SPECIFICATION Spec
CONSTANTS
    vlan_1 = vlan_1
    vlan_dot_1 = vlan_dot_1
    optics = optics
    cpu_core = cpu_core
    port1 = port1
    port2 = port2
    NAN = NAN
    DeviceOrder <- MCDeviceOrder
    MetricId <- MCMetricId
    MAX_DEVICES = 2
    SensorOrder <- MCSensorOrder
    PortOrder <- MCPortOrder
    Flash = {}
    SensorAnswers <- MCSensorAnswers
    PortAnswers <- MCPortAnswers
    SLOW_INTERVAL_S = 2
    WORD = 8
    Pids = {101, 102}
    PROCS_MAX = 1
    PROCS_INTERVAL_S = 2
    Gaps = {1, 2}
    MaxEvents = 4
INVARIANTS
    RateNotOverstated
    SharesExact
    SlowAttributed
    CpuShareTrue
PROPERTIES
    ProcessIsListed
