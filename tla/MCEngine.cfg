\* Registrations, renewals, hijacks, removals, expiry, broker events of genuine and
\* other senders and both registry replies; the rate maps have a run of their own.
CONSTANTS
    None = None
    s1 = s1
    s2 = s2
    Chars <- MCChars
    HexDigits <- MCHexDigits
    ThumbprintLength = 2
    ServiceGuids = {g1, g2}
    ServiceTypes = {"type"}
    States = {s1, s2}
    Messages <- MCMessages
    Snapshots <- ServiceSnapshots
    BrokerLists <- MCBrokerLists
    AllowedThumbprints <- MCAllowed
    SensitiveFilters <- MCSensitive
    GraceMins = 1
    SecsPerMin = 1
    MsPerSec = 1
    TtlModulus = 4
    MaxClock = 6
    MaxRateKeys = 0
    Threshold = 1
    Window = 1
SPECIFICATION Spec
CHECK_DEADLOCK FALSE
INVARIANTS TypeOK NoRepeatedTtlAlert ReportedIsOverdue NoThumbprintBroker
PROPERTIES OwnerNeverMoves RemovalReportsExpiry BrokersChangeOnlyBySync
