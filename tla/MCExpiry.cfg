\* Expiry over time, across an outage.
CONSTANTS
    None = None
    g1 = g1
    s1 = s1
    Chars <- MCChars
    HexDigits <- MCHexDigits
    ThumbprintLength = 2
    ServiceGuids = {g1}
    ServiceTypes = {"type"}
    States = {s1}
    Messages <- Nothing
    Snapshots <- Nothing
    BrokerLists <- Nothing
    AllowedThumbprints <- Nothing
    SensitiveFilters <- Nothing
    GraceMins = 2
    SecsPerMin = 1
    MsPerSec = 1
    TtlModulus = 4
    MaxClock = 6
    MaxRateKeys = 0
    Threshold = 1
    Window = 1
    Brokers <- OneBroker
    HomeBroker <- B1
    Client <- O1
    ServiceType = "type"
    TtlMins = 1
    AnyState = s1
    Impostors <- Nothing
    PollInterval = 1
    MaxSessions = 2
    MaxNet = 1
    MaxLate = 0
SPECIFICATION SensorSpec
CHECK_DEADLOCK FALSE
INVARIANTS LoopTypeOK
PROPERTIES TtlAlarmJustified ExpiryIsReported
