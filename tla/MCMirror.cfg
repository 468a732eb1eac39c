\* Outages, late replies and impostors; the poll never comes due.
CONSTANTS
    None = None
    g1 = g1
    s1 = s1
    Chars <- MCChars
    HexDigits <- MCHexDigits
    ThumbprintLength = 2
    ServiceGuids = {g1}
    ServiceTypes = {"type"}
    States = {s1}
    Messages <- Nothing
    Snapshots <- Nothing
    BrokerLists <- Nothing
    AllowedThumbprints <- Nothing
    SensitiveFilters <- Nothing
    GraceMins = 1
    SecsPerMin = 1
    MsPerSec = 1
    TtlModulus = 4
    MaxClock = 1
    MaxRateKeys = 0
    Threshold = 1
    Window = 1
    Brokers <- OneBroker
    HomeBroker <- B1
    Client <- O1
    ServiceType = "type"
    TtlMins = 1
    AnyState = s1
    Impostors <- MCImpostors
    PollInterval = 5
    MaxSessions = 2
    MaxNet = 2
    MaxLate = 1
SPECIFICATION SensorSpec
CHECK_DEADLOCK FALSE
INVARIANTS MirrorsRegistry KnownBrokersAreGenuine
PROPERTIES UnregisterIsNamed
