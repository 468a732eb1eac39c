----------------------------- MODULE RateWindow -----------------------------
(***************************************************************************)
(* The sliding window that counts messages per publisher and per topic     *)
(* (track_rate and the pruning of poll_timeouts_at in                      *)
(* src/src/detections.rs).  A rate map is a function from the keys that    *)
(* have an entry to the queue of their publish times, oldest first.  An    *)
(* entry with an empty queue is still an entry: it takes a place.          *)
(***************************************************************************)
EXTENDS Integers, Sequences, FiniteSets

CONSTANTS MaxRateKeys,  \* entries a rate map may hold: 10 000
          Threshold,    \* messages per window that are still normal: 100
          Window        \* length of the window: 60 000 ms

ASSUME RateAssumption == /\ MaxRateKeys \in Nat
                         /\ Threshold \in Nat
                         /\ Window \in Nat

EmptyRates == [key \in {} |-> <<>>]

\* Mutant of Fresh: the window is one millisecond short.
FreshInside(time, now) == now - time < Window

Fresh(time, now) == now - time <= Window

StalePrefix(queue, now) ==
    {i \in DOMAIN queue : \A j \in 1 .. i : ~Fresh(queue[j], now)}

\* Pop the front while it is stale.
DropStale(queue, now) ==
    SubSeq(queue, Cardinality(StalePrefix(queue, now)) + 1, Len(queue))

\* Drop what is stale from every queue and the entries this leaves empty.
PruneAll(rates, now) ==
    [key \in {k \in DOMAIN rates : DropStale(rates[k], now) # <<>>}
        |-> DropStale(rates[key], now)]

\* Mutant of HasRoom: one entry too many.
HasRoomForOneMore(rates, key) ==
    key \in DOMAIN rates \/ Cardinality(DOMAIN rates) <= MaxRateKeys

HasRoom(rates, key) == key \in DOMAIN rates \/ Cardinality(DOMAIN rates) < MaxRateKeys

\* Mutant of MakeRoom: a full map is emptied.
MakeRoomForAll(rates, key, now) == IF HasRoom(rates, key) THEN rates ELSE EmptyRates

\* The map in which the message is counted: pruned only when there is no room.
MakeRoom(rates, key, now) ==
    IF HasRoom(rates, key) THEN rates ELSE PruneAll(rates, now)

\* Mutant of Counted: the time written down is the end of the message's window.
CountedUntil(rates, key, now) ==
    DropStale(Append(IF key \in DOMAIN rates THEN rates[key] ELSE <<>>, now + Window), now)

\* The key's queue with this message in it.
Counted(rates, key, now) ==
    DropStale(Append(IF key \in DOMAIN rates THEN rates[key] ELSE <<>>, now), now)

\* Mutant of RateExceeded: the alarm comes one message late.
RateExceededLate(rates, key, now) ==
    LET roomy == MakeRoom(rates, key, now)
    IN  HasRoom(roomy, key) /\ Len(Counted(roomy, key, now)) > Threshold + 1

\* The message is counted (there is room for its key) and is one too many.
RateExceeded(rates, key, now) ==
    LET roomy == MakeRoom(rates, key, now)
    IN  HasRoom(roomy, key) /\ Len(Counted(roomy, key, now)) > Threshold

\* The map after the message; an alarm empties the queue but keeps the entry.
TrackRate(rates, key, now) ==
    LET roomy == MakeRoom(rates, key, now)
    IN  IF ~HasRoom(roomy, key) THEN roomy
        ELSE [k \in DOMAIN roomy \cup {key} |->
                IF k # key THEN roomy[k]
                ELSE IF RateExceeded(rates, key, now) THEN <<>>
                ELSE Counted(roomy, key, now)]
=============================================================================
