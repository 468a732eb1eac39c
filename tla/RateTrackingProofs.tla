------------------------- MODULE RateTrackingProofs -------------------------
(***************************************************************************)
(* Rate tracking for any keys: type correctness, the memory bound, that no *)
(* excess goes by without an alarm, that eviction forgets nothing that     *)
(* counts, and that all of it implements RateAlarm.                        *)
(***************************************************************************)
EXTENDS RateTracking, RateWindowProofs, FunctionTheorems

LEMMA TypeOKIsRateMap == TypeOK => IsRateMap(rates, Keys, 0 .. now)
BY DEF TypeOK, IsRateMap

LEMMA InitType == Init => TypeOK
BY RateTrackingAssumption, EmptySeq DEF Init, TypeOK, EmptyRates

LEMMA NextType == TypeOK /\ [Next]_vars => TypeOK'
<1> SUFFICES ASSUME TypeOK, [Next]_vars PROVE TypeOK'
  OBVIOUS
<1> USE RateTrackingAssumption
<1>1. ASSUME NEW key \in Keys, Publish(key) PROVE TypeOK'
  <2>1. now' = now /\ now \in 0 .. now
    BY <1>1 DEF TypeOK, Publish
  <2>2. IsRateMap(rates', Keys, 0 .. now)
    BY <1>1, <2>1, TypeOKIsRateMap, TrackRateType DEF Publish
  <2>3. alarms' \subseteq Keys
    BY <1>1 DEF Publish
  <2>4. Append(heard[key], now) \in Seq(0 .. now)
    BY <2>1, AppendProperties DEF TypeOK
  <2>5. DropStale(Append(heard[key], now), now) \in Seq(0 .. now)
    BY <2>4, DropStaleType
  <2>6. heard' \in [Keys -> Seq(0 .. now)]
    BY <1>1, <2>5, EmptySeq DEF Publish, TypeOK
  <2> QED BY <2>1, <2>2, <2>3, <2>6 DEF TypeOK, IsRateMap
<1>2. CASE Poll
  <2>1. IsRateMap(rates', Keys, 0 .. now)
    BY <1>2, TypeOKIsRateMap, PruneAllType DEF Poll
  <2> QED BY <1>2, <2>1 DEF Poll, TypeOK, IsRateMap
<1>3. CASE Tick
  <2>1. now' \in 0 .. MaxTime /\ 0 .. now \subseteq 0 .. now'
    BY <1>3 DEF Tick, TypeOK
  <2>2. Seq(0 .. now) \subseteq Seq(0 .. now')
    BY <2>1, SeqMonotonic
  <2> QED BY <1>3, <2>1, <2>2 DEF Tick, TypeOK
<1>4. CASE UNCHANGED vars
  BY <1>4 DEF vars, TypeOK
<1> QED BY <1>1, <1>2, <1>3, <1>4 DEF Next

\* The rate map always holds queues of past times, of keys that published.
THEOREM TypeCorrect == Spec => []TypeOK
<1>1. Init => TypeOK
  BY InitType
<1>2. TypeOK /\ [Next]_vars => TypeOK'
  BY NextType
<1> QED BY <1>1, <1>2, PTL DEF Spec

\* MemoryBounded is inductive once the map is known to be finite.
LEMMA InitBounded == Init => IsBounded(rates)
BY RateAssumption, FS_EmptySet DEF Init, IsBounded, EmptyRates

LEMMA NextBounded == TypeOK /\ IsBounded(rates) /\ [Next]_vars => IsBounded(rates')
<1> SUFFICES ASSUME TypeOK, IsBounded(rates), [Next]_vars PROVE IsBounded(rates')
  OBVIOUS
<1>1. ASSUME NEW key \in Keys, Publish(key) PROVE IsBounded(rates')
  <2>1. now \in 0 .. now
    BY RateTrackingAssumption DEF TypeOK
  <2> QED BY <1>1, <2>1, TypeOKIsRateMap, TrackRateType DEF Publish
<1>2. CASE Poll
  BY <1>2, TypeOKIsRateMap, PruneAllType DEF Poll
<1>3. CASE Tick \/ UNCHANGED vars
  BY <1>3 DEF Tick, vars
<1> QED BY <1>1, <1>2, <1>3 DEF Next

\* However many keys publish and however fast, the map never has more than
\* MaxRateKeys entries nor a queue longer than Threshold.
THEOREM MemoryIsBounded == Spec => []MemoryBounded
<1>1. Init => IsBounded(rates)
  BY InitBounded
<1>2. TypeOK /\ IsBounded(rates) /\ [Next]_vars => IsBounded(rates)'
  BY NextBounded
<1>3. IsBounded(rates) => MemoryBounded
  BY DEF IsBounded, MemoryBounded
<1> QED BY <1>1, <1>2, <1>3, TypeCorrect, PTL DEF Spec

-----------------------------------------------------------------------------
(* Every excess is alarmed *)

\* What a rate map still counts of a key.
FreshIn(map, key, time) ==
    IF key \in DOMAIN map THEN DropStale(map[key], time) ELSE <<>>

\* The strengthening of ExcessIsAlarmed: whatever was pruned and evicted, the
\* map counts exactly the messages that should count.
HeardIsKept == \A key \in Keys : DropStale(heard[key], now) = FreshIn(rates, key, now)

\* Pruning, by now or by an earlier time, does not touch what still counts.
LEMMA PruneKeepsFresh ==
    ASSUME NEW K, NEW map, IsRateMap(map, K, Int),
           NEW before \in Int, NEW time \in Int, before <= time, NEW key
    PROVE  FreshIn(PruneAll(map, before), key, time) = FreshIn(map, key, time)
<1> DEFINE pruned == PruneAll(map, before)
<1>1. /\ DOMAIN pruned = {k \in DOMAIN map : DropStale(map[k], before) # <<>>}
      /\ \A k \in DOMAIN pruned : pruned[k] = DropStale(map[k], before)
  BY DEF PruneAll
<1>2. \A k \in DOMAIN map : map[k] \in Seq(Int)
  BY DEF IsRateMap
<1>3. \A k \in DOMAIN map : DropStale(DropStale(map[k], before), time) = DropStale(map[k], time)
  BY <1>2, DropStaleTwice
<1> SUFFICES FreshIn(pruned, key, time) = FreshIn(map, key, time)
  OBVIOUS
<1> HIDE DEF pruned
<1>4. CASE key \in DOMAIN pruned
  BY <1>1, <1>3, <1>4 DEF FreshIn
<1>5. CASE key \in DOMAIN map /\ key \notin DOMAIN pruned
  <2>1. DropStale(map[key], before) = <<>>
    BY <1>1, <1>5
  <2>2. DropStale(map[key], time) = <<>>
    BY <2>1, <1>3, <1>5, DropStaleEmpty
  <2> QED BY <1>5, <2>2 DEF FreshIn
<1>6. CASE key \notin DOMAIN map
  BY <1>1, <1>6 DEF FreshIn
<1> QED BY <1>4, <1>5, <1>6

\* Making room for a key does not touch what still counts of any key.
LEMMA MakeRoomKeepsFresh ==
    ASSUME NEW K, NEW map, IsRateMap(map, K, Int), NEW time \in Int, NEW for, NEW key
    PROVE  FreshIn(MakeRoom(map, for, time), key, time) = FreshIn(map, key, time)
BY PruneKeepsFresh DEF MakeRoom

LEMMA TypedAsInts ==
    ASSUME TypeOK
    PROVE  /\ IsRateMap(rates, Keys, Int) /\ now \in Int
           /\ \A key \in Keys : heard[key] \in Seq(Int)
<1>1. now \in Int /\ 0 .. now \subseteq Int
  BY RateTrackingAssumption DEF TypeOK
<1>2. Seq(0 .. now) \subseteq Seq(Int)
  BY <1>1, SeqMonotonic
<1> QED BY <1>1, <1>2 DEF TypeOK, IsRateMap

\* The map has room for a message exactly when the promise counts it.
LEMMA RoomUnlessCrowded ==
    ASSUME TypeOK, IsBounded(rates), HeardIsKept, NEW key \in Keys
    PROVE  HasRoom(MakeRoom(rates, key, now), key) <=> ~Crowded(key)
<1> DEFINE busy == {k \in Keys : Busy(k)}
           pruned == PruneAll(rates, now)
<1>1. \A k \in Keys : Busy(k) <=> k \in DOMAIN rates /\ DropStale(rates[k], now) # <<>>
  BY DEF HeardIsKept, FreshIn, Busy
<1>2. DOMAIN rates \subseteq Keys
  BY DEF TypeOK
<1>3. busy = DOMAIN pruned
  BY <1>1, <1>2 DEF PruneAll
<1>4. busy \in SUBSET DOMAIN rates
  BY <1>1
<1>5. IsFiniteSet(DOMAIN rates) /\ Cardinality(DOMAIN rates) \in Nat
      /\ Cardinality(DOMAIN rates) <= MaxRateKeys
  BY FS_CardinalityType DEF IsBounded
<1>6. IsFiniteSet(busy) /\ Cardinality(busy) \in Nat
      /\ Cardinality(busy) <= Cardinality(DOMAIN rates)
      /\ (Cardinality(DOMAIN rates) = Cardinality(busy) => DOMAIN rates = busy)
  BY <1>4, <1>5, FS_Subset, FS_CardinalityType
<1>7. Crowded(key) <=> key \notin busy /\ Cardinality(busy) >= MaxRateKeys
  BY DEF Crowded
<1> HIDE DEF busy, pruned
<1>8. CASE HasRoom(rates, key)
  <2>1. MakeRoom(rates, key, now) = rates
    BY <1>8 DEF MakeRoom
  <2>2. ~Crowded(key)
    <3> SUFFICES ASSUME key \notin busy, Cardinality(busy) >= MaxRateKeys PROVE FALSE
      BY <1>7
    <3>1. Cardinality(busy) = Cardinality(DOMAIN rates)
          /\ ~(Cardinality(DOMAIN rates) < MaxRateKeys)
      BY <1>5, <1>6, RateAssumption
    <3>2. key \in DOMAIN rates
      BY <3>1, <1>8 DEF HasRoom
    <3> QED BY <3>1, <3>2, <1>6
  <2> QED BY <1>8, <2>1, <2>2
<1>9. CASE ~HasRoom(rates, key)
  <2>1. MakeRoom(rates, key, now) = pruned
    BY <1>9 DEF MakeRoom, pruned
  <2>2. HasRoom(pruned, key) <=> key \in busy \/ Cardinality(busy) < MaxRateKeys
    BY <1>3 DEF HasRoom
  <2> QED BY <2>1, <2>2, <1>6, <1>7, RateAssumption
<1> QED BY <1>8, <1>9

\* What a message leaves of a key's queue, in the map and in heard.
LEMMA PublishKeepsFresh ==
    ASSUME TypeOK, IsBounded(rates), HeardIsKept, NEW key \in Keys, Publish(key),
           NEW k \in Keys
    PROVE  DropStale(heard'[k], now) = FreshIn(rates', k, now)
<1> DEFINE roomy == MakeRoom(rates, key, now)
           old == IF key \in DOMAIN roomy THEN roomy[key] ELSE <<>>
           exceeded == RateExceeded(rates, key, now)
<1>1. IsRateMap(rates, Keys, Int) /\ now \in Int /\ \A x \in Keys : heard[x] \in Seq(Int)
  BY TypedAsInts
<1>2. IsRateMap(roomy, Keys, Int)
  BY <1>1, PruneAllType DEF MakeRoom
<1>3. FreshIn(roomy, k, now) = DropStale(heard[k], now)
  BY <1>1, MakeRoomKeepsFresh DEF HeardIsKept
<1>4. rates' = TrackRate(rates, key, now) /\ (alarms' = {key} <=> exceeded)
  BY DEF Publish
<1>5. DOMAIN heard = Keys
      /\ heard' = [heard EXCEPT ![key] = IF alarms' = {key} THEN <<>>
                                         ELSE IF Crowded(key) THEN @
                                         ELSE DropStale(Append(@, now), now)]
  BY DEF Publish, TypeOK
<1>6. CASE ~HasRoom(roomy, key)
  <2>1. ~exceeded /\ Crowded(key) /\ rates' = roomy
    BY <1>4, <1>6, RoomUnlessCrowded DEF RateExceeded, TrackRate
  <2>2. heard'[k] = heard[k]
    BY <2>1, <1>4, <1>5
  <2> QED BY <2>1, <2>2, <1>3
<1>7. CASE HasRoom(roomy, key)
  <2>1. rates' = [x \in DOMAIN roomy \cup {key} |->
                    IF x # key THEN roomy[x]
                    ELSE IF exceeded THEN <<>> ELSE Counted(roomy, key, now)]
    BY <1>4, <1>7 DEF TrackRate
  <2>2. ~Crowded(key)
    BY <1>7, RoomUnlessCrowded
  <2> HIDE DEF roomy, exceeded
  <2>3. CASE k # key
    <3>1. heard'[k] = heard[k]
      BY <1>5, <2>3
    <3>2. FreshIn(rates', k, now) = FreshIn(roomy, k, now)
      BY <2>1, <2>3 DEF FreshIn
    <3> QED BY <3>1, <3>2, <1>3
  <2>4. CASE k = key /\ exceeded
    <3>1. heard'[k] = <<>>
      BY <1>4, <1>5, <2>4
    <3>2. FreshIn(rates', k, now) = DropStale(<<>>, now)
      BY <2>1, <2>4 DEF FreshIn
    <3> QED BY <3>1, <3>2
  <2>5. CASE k = key /\ ~exceeded
    <3>1. old \in Seq(Int)
      BY <1>2, EmptySeq DEF IsRateMap
    <3>2. Counted(roomy, key, now) = DropStale(Append(old, now), now)
      BY DEF Counted
    <3>3. DropStale(old, now) = DropStale(heard[k], now)
      BY <1>3, <2>5, DropStaleEmpty DEF FreshIn
    <3> HIDE DEF old
    <3>4. DropStale(Append(old, now), now) = DropStale(Append(heard[k], now), now)
      BY <3>1, <3>3, <1>1, DropStaleAppend
    <3>5. heard'[k] = DropStale(Append(heard[k], now), now)
      BY <1>4, <1>5, <2>2, <2>5
    <3>6. FreshIn(rates', k, now) = DropStale(Counted(roomy, key, now), now)
      BY <2>1, <2>5 DEF FreshIn
    <3> QED BY <3>2, <3>4, <3>5, <3>6
  <2> QED BY <2>3, <2>4, <2>5
<1> QED BY <1>6, <1>7

\* Time only makes more of a queue stale.
LEMMA TickKeepsFresh ==
    ASSUME TypeOK, HeardIsKept, Tick, NEW k \in Keys
    PROVE  DropStale(heard[k], now') = FreshIn(rates, k, now')
<1>1. IsRateMap(rates, Keys, Int) /\ now \in Int /\ heard[k] \in Seq(Int)
  BY TypedAsInts
<1>2. now' \in Int /\ now <= now'
  BY <1>1 DEF Tick
<1>3. DropStale(heard[k], now') = DropStale(FreshIn(rates, k, now), now')
  BY <1>1, <1>2, DropStaleTwice DEF HeardIsKept
<1>4. CASE k \in DOMAIN rates
  <2>1. rates[k] \in Seq(Int)
    BY <1>1, <1>4 DEF IsRateMap
  <2> QED BY <2>1, <1>1, <1>2, <1>3, <1>4, DropStaleTwice DEF FreshIn
<1>5. CASE k \notin DOMAIN rates
  BY <1>3, <1>5, DropStaleEmpty DEF FreshIn
<1> QED BY <1>4, <1>5

\* The time by which the poll prunes.
LEMMA PollTime ==
    ASSUME TypeOK
    PROVE  (now \div MsPerSec) * MsPerSec \in Int /\ (now \div MsPerSec) * MsPerSec <= now
<1>1. now \in Nat /\ MsPerSec \in Nat \ {0}
  BY RateTrackingAssumption DEF TypeOK
<1> QED BY <1>1, SMTT(30)

LEMMA NextKeepsHeard ==
    TypeOK /\ IsBounded(rates) /\ HeardIsKept /\ [Next]_vars => HeardIsKept'
<1> SUFFICES ASSUME TypeOK, IsBounded(rates), HeardIsKept, [Next]_vars PROVE HeardIsKept'
  OBVIOUS
<1>1. ASSUME NEW key \in Keys, Publish(key) PROVE HeardIsKept'
  <2>1. now' = now
    BY <1>1 DEF Publish
  <2> QED BY <1>1, <2>1, PublishKeepsFresh DEF HeardIsKept
<1>2. CASE Poll
  <2>1. \A k \in Keys : FreshIn(rates', k, now) = FreshIn(rates, k, now)
    BY <1>2, TypedAsInts, PollTime, PruneKeepsFresh DEF Poll
  <2> QED BY <1>2, <2>1 DEF Poll, HeardIsKept
<1>3. CASE Tick
  <2>1. rates' = rates /\ heard' = heard
    BY <1>3 DEF Tick
  <2> QED BY <1>3, <2>1, TickKeepsFresh DEF HeardIsKept
<1>4. CASE UNCHANGED vars
  BY <1>4 DEF vars, HeardIsKept
<1> QED BY <1>1, <1>2, <1>3, <1>4 DEF Next

\* The map counts what should count, at all times.
LEMMA HeardCorrect == Spec => [](IsBounded(rates) /\ HeardIsKept)
<1>1. Init => IsBounded(rates) /\ HeardIsKept
  <2>1. Init => HeardIsKept
    BY DropStaleEmpty DEF Init, EmptyRates, HeardIsKept, FreshIn
  <2> QED BY <2>1, InitBounded
<1>2. TypeOK /\ (IsBounded(rates) /\ HeardIsKept) /\ [Next]_vars
        => (IsBounded(rates) /\ HeardIsKept)'
  BY NextBounded, NextKeepsHeard
<1> QED BY <1>1, <1>2, TypeCorrect, PTL DEF Spec

\* However messages, polls and evictions come, more than Threshold messages of a
\* key within a window never go by without an alarm, unless the map was full.
THEOREM NoExcessGoesBy == Spec => []ExcessIsAlarmed
<1>1. TypeOK /\ IsBounded(rates) /\ HeardIsKept => ExcessIsAlarmed
  <2> SUFFICES ASSUME TypeOK, IsBounded(rates), HeardIsKept, NEW key \in Keys
               PROVE  Len(FreshIn(rates, key, now)) <= Threshold
    BY DEF ExcessIsAlarmed, HeardIsKept
  <2>1. CASE key \in DOMAIN rates
    <3>1. rates[key] \in Seq(Int)
      BY <2>1, TypedAsInts DEF IsRateMap
    <3>2. /\ Len(DropStale(rates[key], now)) <= Len(rates[key])
          /\ Len(DropStale(rates[key], now)) \in Nat /\ Len(rates[key]) \in Nat
      BY <3>1, DropStaleType, LenProperties
    <3>3. Len(rates[key]) <= Threshold
      BY <2>1 DEF IsBounded
    <3> QED BY <2>1, <3>2, <3>3, RateAssumption DEF FreshIn
  <2>2. CASE key \notin DOMAIN rates
    BY <2>2, EmptySeq, RateAssumption DEF FreshIn
  <2> QED BY <2>1, <2>2
<1> QED BY <1>1, HeardCorrect, TypeCorrect, PTL

-----------------------------------------------------------------------------
(* Eviction forgets nothing that counts *)

\* A call that does not alarm leaves at least as many fresh times as before.
LEMMA TrackKeepsFresh ==
    ASSUME NEW K, NEW map, IsRateMap(map, K, Int), NEW time \in Int, NEW key \in K,
           ~RateExceeded(map, key, time), NEW k \in K
    PROVE  /\ FreshIn(TrackRate(map, key, time), k, time) \in Seq(Int)
           /\ Len(FreshIn(TrackRate(map, key, time), k, time)) >= Len(FreshIn(map, k, time))
<1> DEFINE roomy == MakeRoom(map, key, time)
           old == IF key \in DOMAIN roomy THEN roomy[key] ELSE <<>>
           tracked == TrackRate(map, key, time)
<1>1. IsRateMap(roomy, K, Int) /\ FreshIn(roomy, k, time) = FreshIn(map, k, time)
  BY PruneAllType, MakeRoomKeepsFresh DEF MakeRoom
<1>2. \A m : IsRateMap(m, K, Int) => FreshIn(m, k, time) \in Seq(Int)
  BY DropStaleType, EmptySeq DEF FreshIn, IsRateMap
<1>3. FreshIn(map, k, time) \in Seq(Int) /\ Len(FreshIn(map, k, time)) \in Nat
  BY <1>2, LenProperties
<1>4. CASE ~HasRoom(roomy, key) \/ k # key
  <2>1. FreshIn(tracked, k, time) = FreshIn(roomy, k, time)
    BY <1>4 DEF TrackRate, FreshIn
  <2> QED BY <2>1, <1>1, <1>3
<1>5. CASE HasRoom(roomy, key) /\ k = key
  <2>1. tracked[key] = DropStale(Append(old, time), time) /\ key \in DOMAIN tracked
    BY <1>5 DEF TrackRate, Counted
  <2>2. old \in Seq(Int) /\ DropStale(old, time) = FreshIn(roomy, k, time)
    BY <1>1, <1>5, EmptySeq, DropStaleEmpty DEF IsRateMap, FreshIn
  <2> HIDE DEF old, tracked, roomy
  <2>3. FreshIn(tracked, k, time) = DropStale(DropStale(Append(old, time), time), time)
    BY <1>5, <2>1 DEF FreshIn
  <2>4. Append(old, time) \in Seq(Int)
    BY <2>2, AppendProperties
  <2>5. DropStale(DropStale(Append(old, time), time), time) = DropStale(Append(old, time), time)
    <3>1. time <= time
      OBVIOUS
    <3>2. \A q \in Seq(Int) : DropStale(DropStale(q, time), time) = DropStale(q, time)
      BY <3>1, DropStaleTwice
    <3> QED BY <2>4, <3>2
  <2>6. DropStale(Append(old, time), time) = Append(DropStale(old, time), time)
    BY <2>2, DropStaleAppend
  <2>7. FreshIn(tracked, k, time) = Append(FreshIn(map, k, time), time)
    BY <2>2, <2>3, <2>5, <2>6, <1>1
  <2> QED BY <2>7, <1>3, AppendProperties DEF tracked
<1> QED BY <1>4, <1>5

\* Whatever the poll or an eviction prunes, the fresh messages of every key stay
\* counted until the key's alarm.
THEOREM EvictionForgetsNothing == Spec => FreshTimesAreKept
<1> DEFINE Q(key) == DropStale(rates[key], now) # <<>> =>
                       \/ alarms' = {key}
                       \/ key \in DOMAIN rates' /\ Len(DropStale(rates'[key], now))
                                                     >= Len(DropStale(rates[key], now))
           P == \A key \in DOMAIN rates : Q(key)
<1>1. ASSUME TypeOK, NEW key \in DOMAIN rates, NEW map, FreshIn(map, key, now) \in Seq(Int),
             Len(FreshIn(map, key, now)) >= Len(FreshIn(rates, key, now)),
             DropStale(rates[key], now) # <<>>
      PROVE  key \in DOMAIN map
             /\ Len(DropStale(map[key], now)) >= Len(DropStale(rates[key], now))
  <2>1. rates[key] \in Seq(Int)
    BY <1>1, TypedAsInts DEF IsRateMap
  <2>2. DropStale(rates[key], now) \in Seq(Int)
    BY <2>1, DropStaleType
  <2>3. Len(DropStale(rates[key], now)) \in Nat \ {0}
    BY <1>1, <2>2, EmptySeq
  <2>4. FreshIn(map, key, now) # <<>>
    BY <1>1, <2>3, EmptySeq DEF FreshIn
  <2> QED BY <1>1, <2>4 DEF FreshIn
<1>2. TypeOK /\ [Next]_vars => [P]_<<rates, alarms>>
  <2> SUFFICES ASSUME TypeOK, Next, ~UNCHANGED <<rates, alarms>>, NEW key \in DOMAIN rates,
                      DropStale(rates[key], now) # <<>>, alarms' # {key}
               PROVE  key \in DOMAIN rates' /\ Len(DropStale(rates'[key], now))
                                                >= Len(DropStale(rates[key], now))
    BY DEF vars
  <2>1. IsRateMap(rates, Keys, Int) /\ now \in Int /\ key \in Keys
    BY TypedAsInts DEF TypeOK
  <2>2. FreshIn(rates, key, now) \in Seq(Int)
    BY <2>1, DropStaleType DEF IsRateMap, FreshIn
  <2>3. Len(FreshIn(rates, key, now)) \in Nat
    BY <2>2, LenProperties
  <2>4. ASSUME NEW of \in Keys, Publish(of)
        PROVE  /\ FreshIn(rates', key, now) \in Seq(Int)
               /\ Len(FreshIn(rates', key, now)) >= Len(FreshIn(rates, key, now))
    <3>1. rates' = TrackRate(rates, of, now)
      BY <2>4 DEF Publish
    <3>2. CASE ~RateExceeded(rates, of, now)
      BY <3>1, <3>2, <2>1, TrackKeepsFresh
    <3>3. CASE RateExceeded(rates, of, now)
      <4> DEFINE roomy == MakeRoom(rates, of, now)
      <4>1. of # key
        BY <2>4, <3>3 DEF Publish
      <4>2. FreshIn(rates', key, now) = FreshIn(roomy, key, now)
        BY <3>1, <4>1 DEF TrackRate, FreshIn
      <4>3. FreshIn(roomy, key, now) = FreshIn(rates, key, now)
        BY <2>1, MakeRoomKeepsFresh
      <4> QED BY <4>2, <4>3, <2>2, <2>3
    <3> QED BY <3>2, <3>3
  <2>5. CASE Poll
    <3>1. FreshIn(rates', key, now) = FreshIn(rates, key, now)
      BY <2>1, <2>5, PollTime, PruneKeepsFresh DEF Poll
    <3> QED BY <3>1, <2>2, <2>3, <1>1
  <2>6. CASE Tick
    BY <2>6 DEF Tick
  <2> QED BY <2>4, <2>5, <2>6, <1>1 DEF Next
<1> QED BY <1>2, TypeCorrect, PTL DEF Spec, FreshTimesAreKept

-----------------------------------------------------------------------------
(* Rate tracking implements RateAlarm *)

\* The messages of each age in a queue: what recent is for a key.
AgesOf(queue, time) ==
    [age \in 0 .. Window |-> Cardinality({i \in DOMAIN queue : time - queue[i] = age})]

\* A queue of past times, oldest first.
InOrder(queue, time) ==
    /\ queue \in Seq(Int) /\ time \in Int
    /\ \A i \in DOMAIN queue : queue[i] <= time
    /\ \A i, j \in DOMAIN queue : i <= j => queue[i] <= queue[j]

HeardInOrder == \A key \in Keys : InOrder(heard[key], now)

\* Sets that a bijection relates have the same number of elements.
LEMMA SameNumber ==
    ASSUME NEW S, NEW T, IsFiniteSet(S), NEW f \in [S -> T],
           \A x, y \in S : f[x] = f[y] => x = y, \A y \in T : \E x \in S : f[x] = y
    PROVE  IsFiniteSet(T) /\ Cardinality(T) = Cardinality(S)
<1>1. f \in Bijection(S, T)
  BY Fun_IsBij
<1>2. ExistsBijection(S, T)
  BY <1>1, Fun_ExistsBij
<1> QED BY <1>2, FS_Bijection

\* The members of a finite set can be numbered.
LEMMA Numbering ==
    ASSUME NEW S, IsFiniteSet(S)
    PROVE  \E f \in [1 .. Cardinality(S) -> S] :
             /\ \A x, y \in 1 .. Cardinality(S) : f[x] = f[y] => x = y
             /\ \A y \in S : \E x \in 1 .. Cardinality(S) : f[x] = y
<1> DEFINE N == 1 .. Cardinality(S)
<1>1. ExistsBijection(N, S)
  BY FS_CardinalityType
<1> HIDE DEF N
<1>2. PICK f : f \in Bijection(N, S)
  BY <1>1, Fun_ExistsBij
<1>3. /\ f \in [N -> S]
      /\ \A x, y \in N : f[x] = f[y] => x = y
      /\ \A y \in S : \E x \in N : f[x] = y
  BY <1>2, Fun_BijectionProperties
<1> QED BY <1>3 DEF N

\* What is left of a queue in order are all its fresh times.
LEMMA FreshOnes ==
    ASSUME NEW queue, NEW time, InOrder(queue, time)
    PROVE  LET fresh == {i \in DOMAIN queue : time - queue[i] \in 0 .. Window}
           IN  /\ IsFiniteSet(fresh)
               /\ Cardinality(fresh) = Len(DropStale(queue, time))
<1> DEFINE fresh == {i \in DOMAIN queue : time - queue[i] \in 0 .. Window}
           len == Len(queue)
<1>1. len \in Nat /\ DOMAIN queue = 1 .. len /\ \A i \in 1 .. len : queue[i] \in Int
  BY LenProperties, ElementOfSeq DEF InOrder
<1>2. PICK n \in Nat : /\ CutAt(queue, n, time)
                       /\ DropStale(queue, time) = SubSeq(queue, n + 1, Len(queue))
  BY CutOfDropStale DEF InOrder
<1>3. n \in 0 .. Len(queue)
  BY <1>2 DEF CutAt
<1>4. Len(DropStale(queue, time)) = len - n
  BY <1>2, <1>3, Suffix DEF InOrder
<1> HIDE DEF len
<1>5. fresh = n + 1 .. len
  <2>0. n \in 0 .. len
    BY <1>3 DEF len
  <2>1. ASSUME NEW i \in n + 1 .. len PROVE i \in fresh
    <3>1. n + 1 \in 1 .. len /\ i \in 1 .. len /\ n + 1 <= i
      BY <1>1, <2>0, <2>1
    <3>2. Fresh(queue[n + 1], time)
      <4>1. n < Len(queue)
        BY <1>1, <2>0, <3>1 DEF len
      <4> QED BY <1>2, <4>1 DEF CutAt
    <3>3. queue[n + 1] <= queue[i] /\ queue[i] <= time /\ time \in Int
      BY <1>1, <3>1 DEF InOrder
    <3>4. time - queue[i] \in 0 .. Window
      BY <1>1, <3>1, <3>2, <3>3, RateAssumption DEF Fresh
    <3> QED BY <1>1, <3>1, <3>4
  <2>2. ASSUME NEW i \in fresh PROVE i \in n + 1 .. len
    <3>1. i \in 1 .. len /\ queue[i] \in Int /\ time - queue[i] \in 0 .. Window /\ time \in Int
      BY <1>1 DEF InOrder
    <3>2. Fresh(queue[i], time)
      BY <3>1, RateAssumption DEF Fresh
    <3>3. i \notin 1 .. n
      BY <1>2, <3>2 DEF CutAt
    <3> QED BY <1>1, <2>0, <3>1, <3>3
  <2> QED BY <2>1, <2>2
<1>6. IsFiniteSet(n + 1 .. len)
      /\ Cardinality(n + 1 .. len) = IF n + 1 > len THEN 0 ELSE len - (n + 1) + 1
  BY <1>1, FS_Interval
<1>7. n \in 0 .. len
  BY <1>3 DEF len
<1> HIDE DEF fresh
<1>8. Cardinality(fresh) = len - n
  BY <1>1, <1>5, <1>6, <1>7
<1> QED BY <1>4, <1>5, <1>6, <1>8 DEF fresh

\* The promise counts as many messages as the map.
LEMMA TotalIsLength ==
    ASSUME NEW queue, NEW time, InOrder(queue, time)
    PROVE  Abstract!Total(AgesOf(queue, time)) = Len(DropStale(queue, time))
<1> DEFINE fresh == {i \in DOMAIN queue : time - queue[i] \in 0 .. Window}
           Aged(age) == {i \in DOMAIN queue : time - queue[i] = age}
           counts == AgesOf(queue, time)
           Pairs == UNION {{age} \X (1 .. counts[age]) : age \in 0 .. Window}
           Numbers(f, age) == /\ f \in [1 .. counts[age] -> Aged(age)]
                              /\ \A x, y \in 1 .. counts[age] : f[x] = f[y] => x = y
                              /\ \A y \in Aged(age) : \E x \in 1 .. counts[age] : f[x] = y
<1>1. IsFiniteSet(fresh) /\ Cardinality(fresh) = Len(DropStale(queue, time))
  BY FreshOnes
<1>2. \A age \in 0 .. Window : Aged(age) \in SUBSET fresh /\ counts[age] = Cardinality(Aged(age))
  BY DEF AgesOf
<1>3. ASSUME NEW age \in 0 .. Window PROVE \E f : Numbers(f, age)
  <2>1. IsFiniteSet(Aged(age)) /\ counts[age] = Cardinality(Aged(age))
    BY <1>1, <1>2, FS_Subset
  <2> HIDE DEF Aged, counts
  <2> QED BY <2>1, Numbering
<1> DEFINE number == [age \in 0 .. Window |-> CHOOSE f : Numbers(f, age)]
           member == [pair \in Pairs |-> number[pair[1]][pair[2]]]
<1>4. ASSUME NEW age \in 0 .. Window PROVE Numbers(number[age], age)
  <2> HIDE DEF Numbers
  <2> QED BY <1>3
<1> HIDE DEF number, counts
<1>5. \A pair \in Pairs : pair[1] \in 0 .. Window /\ pair[2] \in 1 .. counts[pair[1]]
                          /\ pair = <<pair[1], pair[2]>>
  OBVIOUS
<1>6. \A age \in 0 .. Window : \A x \in 1 .. counts[age] : <<age, x>> \in Pairs
  OBVIOUS
<1>7. \A pair \in Pairs : member[pair] = number[pair[1]][pair[2]]
  OBVIOUS
<1> HIDE DEF Pairs, member, fresh
<1>8. ASSUME NEW pair \in Pairs PROVE member[pair] \in Aged(pair[1])
  <2> DEFINE age == pair[1]
             x == pair[2]
  <2>1. age \in 0 .. Window /\ x \in 1 .. counts[age] /\ member[pair] = number[age][x]
    BY <1>5, <1>7
  <2> HIDE DEF Aged, age, x
  <2>2. number[age] \in [1 .. counts[age] -> Aged(age)]
    BY <1>4, <2>1
  <2>3. member[pair] \in Aged(age)
    BY <2>1, <2>2
  <2> QED BY <2>3 DEF age
<1>9. member \in [Pairs -> fresh]
  <2>1. \A pair \in Pairs : member[pair] \in fresh
    BY <1>2, <1>5, <1>8
  <2>2. member = [pair \in Pairs |-> member[pair]]
    BY DEF member
  <2> QED BY <2>1, <2>2
<1>10. ASSUME NEW p \in Pairs, NEW q \in Pairs, member[p] = member[q] PROVE p = q
  <2>1. p[1] = q[1]
    BY <1>8, <1>10
  <2>2. p[2] = q[2]
    <3> HIDE DEF Aged
    <3> QED BY <1>4, <1>5, <1>7, <1>10, <2>1
  <2> QED BY <1>5, <2>1, <2>2
<1>11. ASSUME NEW i \in fresh PROVE \E p \in Pairs : member[p] = i
  <2> DEFINE age == time - queue[i]
  <2>1. age \in 0 .. Window /\ i \in Aged(age)
    BY <1>11 DEF fresh
  <2> HIDE DEF age, Aged
  <2>2. PICK x \in 1 .. counts[age] : number[age][x] = i
    BY <1>4, <2>1
  <2>3. <<age, x>> \in Pairs
    BY <1>6, <2>1
  <2>4. member[<<age, x>>] = i
    BY <1>7, <2>2, <2>3
  <2> QED BY <2>3, <2>4
<1>12. IsFiniteSet(fresh) => Cardinality(Pairs) = Cardinality(fresh)
  <2>1. \E g \in Bijection(Pairs, fresh) : TRUE
    BY <1>9, <1>10, <1>11, Fun_IsBij
  <2>2. ExistsBijection(fresh, Pairs)
    BY <2>1, Fun_ExistsBij, Fun_ExistsBijSymmetric
  <2> QED BY <2>2, FS_Bijection
<1>13. Abstract!Total(counts) = Cardinality(Pairs)
  <2>1. Abstract!Cardinality(Pairs) = Cardinality(Pairs)
    BY Zenon DEF Abstract!Cardinality, Cardinality
  <2>2. Abstract!Total(counts) = Abstract!Cardinality(Pairs)
    BY Zenon DEF Abstract!Total, Abstract!Ages, Pairs
  <2> QED BY <2>1, <2>2
<1> QED BY <1>1, <1>12, <1>13 DEF counts, fresh

\* Dropping what is stale changes no count.
LEMMA AgesOfDropStale ==
    ASSUME NEW queue \in Seq(Int), NEW time \in Int
    PROVE  AgesOf(DropStale(queue, time), time) = AgesOf(queue, time)
<1> DEFINE rest == DropStale(queue, time)
           Aged(q, age) == {i \in DOMAIN q : time - q[i] = age}
           len == Len(queue)
<1>1. PICK n \in Nat : CutAt(queue, n, time) /\ rest = SubSeq(queue, n + 1, Len(queue))
  BY CutOfDropStale
<1>2. len \in Nat /\ DOMAIN queue = 1 .. len /\ \A i \in 1 .. len : queue[i] \in Int
  BY LenProperties, ElementOfSeq
<1>3. n \in 0 .. len /\ \A i \in 1 .. n : ~Fresh(queue[i], time)
  BY <1>1 DEF CutAt
<1>4. rest \in Seq(Int) /\ Len(rest) = len - n /\ \A i \in 1 .. len - n : rest[i] = queue[n + i]
  BY <1>1, <1>3, Suffix
<1>5. DOMAIN rest = 1 .. len - n
  BY <1>4, LenProperties
<1> HIDE DEF len, rest
<1>6. ASSUME NEW age \in 0 .. Window
      PROVE  Cardinality(Aged(rest, age)) = Cardinality(Aged(queue, age))
  <2> DEFINE f == [i \in Aged(rest, age) |-> n + i]
  <2>1. ASSUME NEW i \in Aged(rest, age) PROVE n + i \in Aged(queue, age)
    <3>1. i \in 1 .. len - n /\ n + i \in 1 .. len
      BY <1>2, <1>3, <1>5
    <3> QED BY <1>2, <1>4, <2>1, <3>1
  <2>2. ASSUME NEW j \in Aged(queue, age) PROVE j - n \in Aged(rest, age) /\ n + (j - n) = j
    <3>1. j \in 1 .. len /\ time - queue[j] = age /\ queue[j] \in Int
      BY <1>2
    <3>2. Fresh(queue[j], time)
      BY <3>1, RateAssumption DEF Fresh
    <3>3. j \notin 1 .. n
      BY <1>3, <3>2
    <3>4. j - n \in 1 .. len - n /\ n + (j - n) = j
      BY <1>2, <1>3, <3>1, <3>3
    <3> QED BY <1>4, <1>5, <3>1, <3>4
  <2>3. IsFiniteSet(Aged(rest, age))
    <3>1. Aged(rest, age) \in SUBSET (1 .. len - n) /\ IsFiniteSet(1 .. len - n)
      BY <1>2, <1>3, <1>5, FS_Interval
    <3> HIDE DEF Aged
    <3> QED BY <3>1, FS_Subset
  <2>4. \A i \in Aged(rest, age) : i \in Int
    BY <1>5
  <2> HIDE DEF Aged
  <2>5. f \in [Aged(rest, age) -> Aged(queue, age)]
    BY <2>1
  <2>6. \A x, y \in Aged(rest, age) : f[x] = f[y] => x = y
    BY <2>4
  <2>7. \A j \in Aged(queue, age) : \E i \in Aged(rest, age) : f[i] = j
    BY <2>2
  <2> HIDE DEF f
  <2> QED BY <2>3, <2>5, <2>6, <2>7, SameNumber
<1> QED BY <1>6 DEF AgesOf, rest

\* A message is one more of age 0.
LEMMA AgesOfAppend ==
    ASSUME NEW queue \in Seq(Int), NEW time \in Int
    PROVE  AgesOf(Append(queue, time), time) = [AgesOf(queue, time) EXCEPT ![0] = @ + 1]
<1> DEFINE longer == Append(queue, time)
           Aged(q, age) == {i \in DOMAIN q : time - q[i] = age}
           len == Len(queue)
<1>1. len \in Nat /\ DOMAIN queue = 1 .. len /\ \A i \in 1 .. len : queue[i] \in Int
  BY LenProperties, ElementOfSeq
<1>2. /\ longer \in Seq(Int) /\ Len(longer) = len + 1
      /\ \A i \in 1 .. len : longer[i] = queue[i]
      /\ longer[len + 1] = time
  BY AppendProperties
<1>3. DOMAIN longer = 1 .. len + 1
  BY <1>2, LenProperties
<1> HIDE DEF len, longer
<1>4. \A i : i \in 1 .. len + 1 <=> i \in 1 .. len \/ i = len + 1
  BY <1>1
<1>5. ASSUME NEW age \in 0 .. Window
      PROVE  Cardinality(Aged(longer, age)) =
               IF age = 0 THEN Cardinality(Aged(queue, age)) + 1 ELSE Cardinality(Aged(queue, age))
  <2>1. IsFiniteSet(Aged(queue, age)) /\ len + 1 \notin Aged(queue, age)
    <3>1. Aged(queue, age) \in SUBSET (1 .. len) /\ IsFiniteSet(1 .. len)
      BY <1>1, FS_Interval
    <3>2. len + 1 \notin 1 .. len
      BY <1>1
    <3> HIDE DEF Aged
    <3> QED BY <3>1, <3>2, FS_Subset
  <2>2. CASE age = 0
    <3>1. Aged(longer, age) = Aged(queue, age) \cup {len + 1}
      BY <1>1, <1>2, <1>3, <1>4, <2>2
    <3> HIDE DEF Aged
    <3> QED BY <2>1, <2>2, <3>1, FS_AddElement
  <2>3. CASE age # 0
    <3>1. Aged(longer, age) = Aged(queue, age)
      BY <1>1, <1>2, <1>3, <1>4, <2>3
    <3> QED BY <2>3, <3>1
  <2> QED BY <2>2, <2>3
<1> QED BY <1>5 DEF AgesOf, longer

\* A millisecond later every message is older by one.
LEMMA AgesLater ==
    ASSUME NEW queue, NEW time, InOrder(queue, time)
    PROVE  AgesOf(queue, time + 1) =
             [age \in 0 .. Window |-> IF age = 0 THEN 0 ELSE AgesOf(queue, time)[age - 1]]
<1> DEFINE Aged(t, age) == {i \in DOMAIN queue : t - queue[i] = age}
<1>1. \A i \in DOMAIN queue : queue[i] \in Int /\ queue[i] <= time /\ time \in Int
  BY LenProperties, ElementOfSeq DEF InOrder
<1>2. ASSUME NEW age \in 0 .. Window, age = 0 PROVE Cardinality(Aged(time + 1, age)) = 0
  <2>1. Aged(time + 1, age) = {}
    BY <1>1, <1>2
  <2> QED BY <2>1, FS_EmptySet
<1>3. ASSUME NEW age \in 0 .. Window, age # 0
      PROVE  /\ age - 1 \in 0 .. Window
             /\ Cardinality(Aged(time + 1, age)) = Cardinality(Aged(time, age - 1))
  <2>1. Aged(time + 1, age) = Aged(time, age - 1)
    BY <1>1
  <2>2. age - 1 \in 0 .. Window
    BY <1>3, RateAssumption
  <2> QED BY <2>1, <2>2
<1> QED BY <1>2, <1>3 DEF AgesOf

\* No messages.
LEMMA AgesOfNone == ASSUME NEW time PROVE AgesOf(<<>>, time) = [age \in 0 .. Window |-> 0]
<1>1. \A age \in 0 .. Window : {i \in DOMAIN <<>> : time - <<>>[i] = age} = {}
  OBVIOUS
<1> QED BY <1>1, FS_EmptySet DEF AgesOf

\* Appending the present and dropping what is stale keep a queue in order.
LEMMA StaysInOrder ==
    ASSUME NEW queue, NEW time, InOrder(queue, time)
    PROVE  InOrder(DropStale(Append(queue, time), time), time)
<1> DEFINE longer == Append(queue, time)
           rest == DropStale(longer, time)
           len == Len(queue)
<1>1. queue \in Seq(Int) /\ time \in Int
  BY DEF InOrder
<1>2. len \in Nat /\ DOMAIN queue = 1 .. len
  BY <1>1, LenProperties
<1>3. /\ longer \in Seq(Int) /\ Len(longer) = len + 1
      /\ \A i \in 1 .. len : longer[i] = queue[i]
      /\ longer[len + 1] = time
  BY <1>1, AppendProperties
<1> HIDE DEF longer, len
<1>4. PICK n \in Nat : CutAt(longer, n, time) /\ rest = SubSeq(longer, n + 1, Len(longer))
  BY <1>3, CutOfDropStale
<1>5. n \in 0 .. Len(longer)
  BY <1>4 DEF CutAt
<1>6. /\ rest \in Seq(Int) /\ Len(rest) = Len(longer) - n
      /\ \A i \in 1 .. Len(longer) - n : rest[i] = longer[n + i]
  BY <1>3, <1>4, <1>5, Suffix
<1>7. DOMAIN rest = 1 .. Len(longer) - n
  BY <1>6, LenProperties
<1> HIDE DEF rest
<1>8. \A i \in 1 .. len + 1 : longer[i] <= time
  <2>1. \A i \in 1 .. len + 1 : i \in 1 .. len \/ i = len + 1
    BY <1>2
  <2> QED BY <1>1, <1>2, <1>3, <2>1 DEF InOrder
<1>9. ASSUME NEW i \in 1 .. len + 1, NEW j \in 1 .. len + 1, i <= j PROVE longer[i] <= longer[j]
  <2>1. CASE j = len + 1
    BY <1>3, <1>8, <2>1
  <2>2. CASE j # len + 1
    <3>1. i \in 1 .. len /\ j \in 1 .. len
      BY <1>2, <1>9, <2>2
    <3> QED BY <1>2, <1>3, <1>9, <3>1 DEF InOrder
  <2> QED BY <2>1, <2>2
<1>10. \A i \in DOMAIN rest : n + i \in 1 .. len + 1 /\ rest[i] = longer[n + i] /\ i \in Int
  BY <1>2, <1>3, <1>5, <1>6, <1>7
<1>11. \A i \in DOMAIN rest : rest[i] <= time
  BY <1>8, <1>10
<1>12. ASSUME NEW i \in DOMAIN rest, NEW j \in DOMAIN rest, i <= j PROVE rest[i] <= rest[j]
  <2>1. n + i \in 1 .. len + 1 /\ n + j \in 1 .. len + 1 /\ n + i <= n + j
    BY <1>10, <1>12
  <2> QED BY <1>9, <1>10, <2>1
<1> QED BY <1>1, <1>6, <1>11, <1>12 DEF InOrder, rest, longer

\* What was heard of each key stays in the order of time.
LEMMA HeardStaysInOrder == TypeOK /\ HeardInOrder /\ [Next]_vars => HeardInOrder'
<1> SUFFICES ASSUME TypeOK, HeardInOrder, [Next]_vars, NEW k \in Keys
             PROVE  InOrder(heard'[k], now')
  BY DEF HeardInOrder
<1>1. InOrder(heard[k], now) /\ now \in Int
  BY TypedAsInts DEF HeardInOrder
<1>2. InOrder(<<>>, now)
  BY <1>1, EmptySeq DEF InOrder
<1>3. ASSUME NEW key \in Keys, Publish(key) PROVE InOrder(heard'[k], now')
  <2>1. /\ now' = now
        /\ heard'[k] \in {<<>>, heard[k], DropStale(Append(heard[k], now), now)}
    BY <1>3 DEF Publish, TypeOK
  <2> QED BY <1>1, <1>2, <2>1, StaysInOrder
<1>4. CASE Poll \/ UNCHANGED vars
  BY <1>1, <1>4 DEF Poll, vars
<1>5. CASE Tick
  <2>1. now' = now + 1 /\ heard' = heard
    BY <1>5 DEF Tick
  <2>2. \A i \in DOMAIN heard[k] : heard[k][i] \in Int /\ heard[k][i] <= now
    BY <1>1, LenProperties, ElementOfSeq DEF InOrder
  <2> QED BY <1>1, <2>1, <2>2 DEF InOrder
<1> QED BY <1>3, <1>4, <1>5 DEF Next

\* The counts of the promise, by the messages heard.
Recent == [key \in Keys |-> AgesOf(heard[key], now)]

\* What the promise and the map say of one key.
LEMMA PromiseOfKey ==
    ASSUME TypeOK, IsBounded(rates), HeardIsKept, HeardInOrder, NEW key \in Keys
    PROVE  /\ Abstract!Total(Recent[key]) = Len(FreshIn(rates, key, now))
           /\ Len(FreshIn(rates, key, now)) \in Nat
           /\ ~Crowded(key) <=>
                \/ key \in {k \in Keys : Abstract!Total(Recent[k]) > 0}
                \/ Abstract!Cardinality({k \in Keys : Abstract!Total(Recent[k]) > 0}) < MaxRateKeys
<1>1. ASSUME NEW k \in Keys
      PROVE  /\ Abstract!Total(Recent[k]) = Len(FreshIn(rates, k, now))
             /\ Len(FreshIn(rates, k, now)) \in Nat
             /\ Busy(k) <=> Abstract!Total(Recent[k]) > 0
  <2>1. InOrder(heard[k], now) /\ Recent[k] = AgesOf(heard[k], now)
    BY DEF HeardInOrder, Recent
  <2>2. DropStale(heard[k], now) = FreshIn(rates, k, now) /\ DropStale(heard[k], now) \in Seq(Int)
    BY <2>1, DropStaleType DEF HeardIsKept, InOrder
  <2>3. Abstract!Total(Recent[k]) = Len(DropStale(heard[k], now))
    BY <2>1, TotalIsLength
  <2> QED BY <2>2, <2>3, EmptySeq, LenProperties DEF Busy
<1> DEFINE busy == {k \in Keys : Busy(k)}
<1>2. busy = {k \in Keys : Abstract!Total(Recent[k]) > 0}
  BY <1>1
<1>3. Abstract!Cardinality(busy) = Cardinality(busy)
  BY Zenon DEF Abstract!Cardinality, Cardinality
<1>4. Cardinality(busy) \in Nat
  <2>1. busy \in SUBSET DOMAIN rates
    BY DropStaleEmpty DEF HeardIsKept, FreshIn, Busy
  <2> QED BY <2>1, FS_Subset, FS_CardinalityType DEF IsBounded
<1>5. ~Crowded(key) <=> key \in busy \/ Cardinality(busy) < MaxRateKeys
  BY <1>4, RateAssumption DEF Crowded
<1> HIDE DEF busy
<1> QED BY <1>1, <1>2, <1>3, <1>5

\* A message counts with its queue's fresh times and itself, and is alarmed if that is
\* too many; a message without room changes nothing.
LEMMA PublishRefines ==
    ASSUME TypeOK, IsBounded(rates), HeardIsKept, HeardInOrder, NEW key \in Keys, Publish(key)
    PROVE  \/ alarms' = {} /\ Recent' = Recent
           \/ /\ ~Crowded(key) /\ Abstract!Total(Recent[key]) + 1 <= Threshold
              /\ Recent' = [Recent EXCEPT ![key][0] = @ + 1] /\ alarms' = {}
           \/ /\ ~Crowded(key) /\ Abstract!Total(Recent[key]) + 1 > Threshold
              /\ Recent' = [Recent EXCEPT ![key] = [age \in 0 .. Window |-> 0]]
              /\ alarms' = {key}
<1> DEFINE roomy == MakeRoom(rates, key, now)
           old == IF key \in DOMAIN roomy THEN roomy[key] ELSE <<>>
           exceeded == RateExceeded(rates, key, now)
           total == Abstract!Total(Recent[key])
<1>1. IsRateMap(rates, Keys, Int) /\ now \in Int /\ \A x \in Keys : heard[x] \in Seq(Int)
  BY TypedAsInts
<1>2. /\ alarms' = IF exceeded THEN {key} ELSE {}
      /\ now' = now /\ heard \in [Keys -> Seq(0 .. now)]
      /\ heard' = [heard EXCEPT ![key] = IF alarms' = {key} THEN <<>>
                                         ELSE IF Crowded(key) THEN @
                                         ELSE DropStale(Append(@, now), now)]
  BY DEF Publish, TypeOK
<1>3. HasRoom(roomy, key) <=> ~Crowded(key)
  BY RoomUnlessCrowded
<1>4. exceeded <=> ~Crowded(key) /\ total + 1 > Threshold
  <2>1. exceeded <=> HasRoom(roomy, key) /\ Len(Counted(roomy, key, now)) > Threshold
    BY DEF RateExceeded
  <2>2. IsRateMap(roomy, Keys, Int)
    BY <1>1, PruneAllType DEF MakeRoom
  <2>3. old \in Seq(Int) /\ DropStale(old, now) = FreshIn(roomy, key, now)
    BY <2>2, EmptySeq, DropStaleEmpty DEF IsRateMap, FreshIn
  <2>4. FreshIn(roomy, key, now) = FreshIn(rates, key, now)
    BY <1>1, MakeRoomKeepsFresh
  <2>5. Counted(roomy, key, now) = DropStale(Append(old, now), now)
    BY DEF Counted
  <2> HIDE DEF old, roomy
  <2>6. Counted(roomy, key, now) = Append(FreshIn(rates, key, now), now)
    BY <1>1, <2>3, <2>4, <2>5, DropStaleAppend
  <2>7. FreshIn(rates, key, now) \in Seq(Int)
    BY <2>3, <2>4, DropStaleType
  <2>8. Len(Counted(roomy, key, now)) = total + 1
    BY <1>1, <2>6, <2>7, AppendProperties, PromiseOfKey
  <2> QED BY <1>3, <2>1, <2>8
<1>5. total \in Nat
  BY PromiseOfKey
<1> HIDE DEF exceeded
<1>6. \A k \in Keys : Recent[k] = AgesOf(heard[k], now) /\ Recent'[k] = AgesOf(heard'[k], now)
  BY <1>2 DEF Recent
<1>7. Recent = [k \in Keys |-> Recent[k]] /\ Recent' = [k \in Keys |-> Recent'[k]]
  BY DEF Recent
<1>8. \A k \in Keys : k # key => Recent'[k] = Recent[k]
  BY <1>2, <1>6
<1>9. 0 \in 0 .. Window /\ DOMAIN Recent[key] = 0 .. Window
  BY RateAssumption DEF Recent, AgesOf
<1>10. CASE exceeded
  <2>1. heard'[key] = <<>> /\ alarms' = {key}
    BY <1>2, <1>10
  <2>2. Recent'[key] = [age \in 0 .. Window |-> 0]
    BY <1>6, <2>1, AgesOfNone
  <2>3. Recent' = [Recent EXCEPT ![key] = [age \in 0 .. Window |-> 0]]
    BY <1>7, <1>8, <2>2
  <2> QED BY <1>4, <1>10, <2>1, <2>3
<1>11. CASE ~exceeded /\ Crowded(key)
  <2>1. heard' = heard /\ alarms' = {}
    BY <1>2, <1>11
  <2>2. Recent' = Recent
    BY <1>6, <1>7, <2>1
  <2> QED BY <2>1, <2>2
<1>12. CASE ~exceeded /\ ~Crowded(key)
  <2>1. heard'[key] = DropStale(Append(heard[key], now), now) /\ alarms' = {}
    BY <1>2, <1>12
  <2>2. Append(heard[key], now) \in Seq(Int)
    BY <1>1, AppendProperties
  <2>3. Recent'[key] = AgesOf(Append(heard[key], now), now)
    BY <1>1, <1>6, <2>1, <2>2, AgesOfDropStale
  <2>4. Recent'[key] = [Recent[key] EXCEPT ![0] = @ + 1]
    BY <1>1, <1>6, <2>3, AgesOfAppend
  <2> HIDE DEF total
  <2>5. Recent' = [Recent EXCEPT ![key][0] = @ + 1]
    BY <1>7, <1>8, <2>4
  <2>6. total + 1 <= Threshold
    BY <1>4, <1>5, <1>12, RateAssumption
  <2> QED BY <1>12, <2>1, <2>5, <2>6 DEF total
<1> QED BY <1>10, <1>11, <1>12

\* A step of rate tracking is one of the promise, or none.
LEMMA StepRefines ==
    TypeOK /\ IsBounded(rates) /\ HeardIsKept /\ HeardInOrder /\ [Next]_vars
        => [Abstract!Next]_(Abstract!vars)
<1> SUFFICES ASSUME TypeOK, IsBounded(rates), HeardIsKept, HeardInOrder, [Next]_vars
             PROVE  [Abstract!Next]_(Abstract!vars)
  OBVIOUS
<1>1. Abstract!vars = <<Recent, alarms>> /\ Abstract!vars' = <<Recent, alarms>>'
  BY DEF Abstract!vars, Recent, AgesOf
<1>2. ASSUME alarms' = {}, Recent' = Recent PROVE Abstract!Next
  BY <1>2 DEF Abstract!Next, Abstract!OtherWork, Recent, AgesOf
<1>3. ASSUME NEW key \in Keys, ~Crowded(key) PROVE Abstract!Counts(key)
  BY <1>3, PromiseOfKey DEF Abstract!Counts, Abstract!Busy, Recent, AgesOf
<1>4. ASSUME NEW key \in Keys, Publish(key) PROVE Abstract!Next
  <2>1. CASE alarms' = {} /\ Recent' = Recent
    BY <1>2, <2>1
  <2>2. CASE /\ ~Crowded(key) /\ Abstract!Total(Recent[key]) + 1 <= Threshold
             /\ Recent' = [Recent EXCEPT ![key][0] = @ + 1] /\ alarms' = {}
    <3>1. Abstract!Normal(key)
      BY <1>3, <2>2 DEF Abstract!Normal, Recent, AgesOf
    <3> QED BY <3>1 DEF Abstract!Next
  <2>3. CASE /\ ~Crowded(key) /\ Abstract!Total(Recent[key]) + 1 > Threshold
             /\ Recent' = [Recent EXCEPT ![key] = [age \in 0 .. Window |-> 0]]
             /\ alarms' = {key}
    <3>1. Abstract!Excessive(key)
      BY <1>3, <2>3 DEF Abstract!Excessive, Abstract!NoMessages, Abstract!Ages, Recent, AgesOf
    <3> QED BY <3>1 DEF Abstract!Next
  <2> QED BY <1>4, <2>1, <2>2, <2>3, PublishRefines
<1>5. CASE Poll
  <2>1. alarms' = {} /\ Recent' = Recent
    BY <1>5 DEF Poll, Recent
  <2> QED BY <1>2, <2>1
<1>6. CASE Tick
  <2>1. now' = now + 1 /\ heard' = heard /\ alarms' = alarms
    BY <1>6 DEF Tick
  <2>2. ASSUME NEW key \in Keys
        PROVE  Recent'[key] = [age \in 0 .. Window |->
                                 IF age = 0 THEN 0 ELSE Recent[key][age - 1]]
    BY <2>1, AgesLater DEF HeardInOrder, Recent
  <2>3. Recent' = [key \in Keys |-> Recent'[key]]
    BY DEF Recent
  <2>4. Recent' = [key \in Keys |-> [age \in 0 .. Window |->
                                       IF age = 0 THEN 0 ELSE Recent[key][age - 1]]]
    BY <2>2, <2>3
  <2>5. Abstract!Elapse
    BY <2>1, <2>4 DEF Abstract!Elapse, Abstract!Ages, Recent, AgesOf
  <2> QED BY <2>5 DEF Abstract!Next
<1>7. CASE UNCHANGED vars
  BY <1>1, <1>7 DEF vars, Recent
<1> QED BY <1>4, <1>5, <1>6, <1>7 DEF Next

\* Rate tracking raises exactly the alarms that RateAlarm promises, whatever the poll and
\* evictions prune meanwhile (track_rate, poll_timeouts).
THEOREM KeepsThePromise == Spec => ImplementsRateAlarm
<1>1. Init => Abstract!Init /\ HeardInOrder
  <2> SUFFICES ASSUME Init PROVE Abstract!Init /\ HeardInOrder
    OBVIOUS
  <2>1. heard = [key \in Keys |-> <<>>] /\ now = 0 /\ alarms = {}
    BY DEF Init
  <2>2. Recent = [key \in Keys |-> [age \in 0 .. Window |-> 0]]
    BY <2>1, AgesOfNone DEF Recent
  <2>3. Abstract!Init
    BY <2>1, <2>2 DEF Abstract!Init, Abstract!NoMessages, Abstract!Ages, Recent, AgesOf
  <2>4. HeardInOrder
    BY <2>1, EmptySeq DEF HeardInOrder, InOrder
  <2> QED BY <2>3, <2>4
<1>2. TypeOK /\ HeardInOrder /\ [Next]_vars => HeardInOrder'
  BY HeardStaysInOrder
<1>3. TypeOK /\ (IsBounded(rates) /\ HeardIsKept) /\ HeardInOrder /\ [Next]_vars
        => [Abstract!Next]_(Abstract!vars)
  BY StepRefines
<1>4. Spec => []HeardInOrder
  BY <1>1, <1>2, TypeCorrect, PTL DEF Spec
<1> QED BY <1>1, <1>3, <1>4, TypeCorrect, HeardCorrect, PTL DEF Spec, ImplementsRateAlarm, Abstract!Spec
=============================================================================
