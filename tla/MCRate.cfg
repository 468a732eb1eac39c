\* Three keys compete for two places: eviction, a full map, alarms.
CONSTANTS
    Keys = {k1, k2, k3}
    MaxRateKeys = 2
    Threshold = 2
    Window = 2
    MsPerSec = 2
    MaxTime = 6
SPECIFICATION Spec
CHECK_DEADLOCK FALSE
INVARIANTS TypeOK MemoryBounded ExcessIsAlarmed
PROPERTIES FreshTimesAreKept ImplementsRateAlarm
