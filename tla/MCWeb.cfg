SPECIFICATION Spec
CONSTANTS
    SampleInterval = SampleInterval
    MqttPassword = MqttPassword
    InfluxEnabled = InfluxEnabled
    typed = typed
    Blank = Blank
    ValuesOf <- MCValuesOf
    Fallback <- MCFallback
    Parsed <- MCParsed
    Unfilled <- MCUnfilled
    Secrets = {MqttPassword}
    KeptWhenBlank = {MqttPassword}
    StuckBoxes = {InfluxEnabled}
    Scopes = {"display", "transmit"}
    Metrics = {cpu}
    Clients = {c1}
    SSE_MAX_STALLED = 2
    SendBuffer = 2
    MaxChanges = 3
    MaxFields = 1
INVARIANTS
    QuiescentAgrees
    AppliedFollowsValues
    PasswordKept
    SelectionSurvives
    DroppedWhenStalled
PROPERTIES
    DeadIsDropped
CHECK_DEADLOCK FALSE
