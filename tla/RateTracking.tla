---------------------------- MODULE RateTracking ----------------------------
(***************************************************************************)
(* One rate map of the detection engine over time: messages of any key,    *)
(* the periodic poll, the clock.  The engine keeps two such maps, one per  *)
(* publisher and one per topic, which never touch each other.              *)
(*                                                                         *)
(* alarms holds the keys for which the last call returned a rate alert.    *)
(* heard is an auxiliary variable no action reads: the times of a key's    *)
(* messages since its last alarm, of those that are not stale and did not  *)
(* come when MaxRateKeys other keys were busy.                             *)
(***************************************************************************)
EXTENDS RateWindow

CONSTANTS Keys,      \* publishers, or topics
          MsPerSec,  \* the poll's clock is in whole seconds: 1000
          MaxTime    \* bound on the clock, in ms

ASSUME RateTrackingAssumption == MsPerSec \in Nat \ {0} /\ MaxTime \in Nat

VARIABLES now, rates, alarms, heard

vars == <<now, rates, alarms, heard>>

Init == /\ now = 0
        /\ rates = EmptyRates
        /\ alarms = {}
        /\ heard = [key \in Keys |-> <<>>]

Busy(key) == DropStale(heard[key], now) # <<>>

\* There is no place left for a first message of key.
Crowded(key) == ~Busy(key) /\ Cardinality({k \in Keys : Busy(k)}) >= MaxRateKeys

Publish(key) ==
    /\ Len(DropStale(heard[key], now)) <= Threshold   \* bounds heard
    /\ rates' = TrackRate(rates, key, now)
    /\ alarms' = IF RateExceeded(rates, key, now) THEN {key} ELSE {}
    /\ heard' = [heard EXCEPT ![key] = IF alarms' = {key} THEN <<>>
                                       ELSE IF Crowded(key) THEN @
                                       ELSE DropStale(Append(@, now), now)]
    /\ UNCHANGED now

\* poll_timeouts counts in whole seconds: it may look up to a second back.
Poll ==
    /\ rates' = PruneAll(rates, (now \div MsPerSec) * MsPerSec)
    /\ alarms' = {}
    /\ UNCHANGED <<now, heard>>

Tick == /\ now < MaxTime
        /\ now' = now + 1
        /\ UNCHANGED <<rates, alarms, heard>>

Next == (\E key \in Keys : Publish(key)) \/ Poll \/ Tick

Spec == Init /\ [][Next]_vars

-----------------------------------------------------------------------------
\* Type correctness: a rate map holds queues of past times.
TypeOK ==
    /\ now \in 0 .. MaxTime
    /\ DOMAIN rates \subseteq Keys
    /\ rates \in [DOMAIN rates -> Seq(0 .. now)]
    /\ alarms \subseteq Keys
    /\ heard \in [Keys -> Seq(0 .. now)]

\* The memory of rate tracking is bounded whatever is published: at most
\* MaxRateKeys entries (detections.rs:571), and no queue is ever left longer
\* than the threshold because an alarm empties it (detections.rs:594).
MemoryBounded ==
    /\ Cardinality(DOMAIN rates) <= MaxRateKeys
    /\ \A key \in DOMAIN rates : Len(rates[key]) <= Threshold

\* README, detections 6 and 7: more than Threshold messages of one key within
\* a window never go by without an alarm, unless the map was full of other keys
\* with fresh messages when the first of them came (detections.rs:571).
ExcessIsAlarmed ==
    \A key \in Keys : Len(DropStale(heard[key], now)) <= Threshold

\* Eviction never forgets a message that still counts: pruning, by the poll or
\* to make room, leaves every fresh time of every key in its queue.
FreshTimesAreKept ==
    [][\A key \in DOMAIN rates :
          DropStale(rates[key], now) # <<>> =>
             \/ alarms' = {key}
             \/ key \in DOMAIN rates' /\ Len(DropStale(rates'[key], now))
                                           >= Len(DropStale(rates[key], now))]_<<rates, alarms>>

-----------------------------------------------------------------------------
\* The promise, by the age of the messages that should count.  Poll and eviction
\* are stutters.
Abstract == INSTANCE RateAlarm WITH
    recent <- [key \in Keys |-> [age \in 0 .. Window |->
                 Cardinality({i \in DOMAIN heard[key] : now - heard[key][i] = age})]]

\* Rate tracking raises exactly the alarms promised, whatever is evicted and pruned
\* meanwhile, and leaves out only the keys the promise lets it leave out.
ImplementsRateAlarm == Abstract!Spec
=============================================================================
