\* Two sinks that overflow, fail and end, one of which may fail for ever, and a
\* reader of stdout that may fall behind, stop reading or go away.
CONSTANTS
    Sinks = {"syslog", "http"}
    Capacity = 1
    PipeSize = 1
    MaxRecords = 3
SPECIFICATION Spec
CHECK_DEADLOCK FALSE
INVARIANTS TypeOK OrderIsKept EveryRecordIsAccountedFor StreamHasNoGap
PROPERTIES DispatchReturns RecordsAreDealtWith OnlyWritesHoldUp
