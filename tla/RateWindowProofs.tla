-------------------------- MODULE RateWindowProofs --------------------------
(* What the operators of the sliding window return, for every parameter.   *)
EXTENDS RateWindow, SequenceTheorems, FiniteSetTheorems, TLAPS

\* A rate map over keys and times.
IsRateMap(rates, keys, times) == /\ DOMAIN rates \subseteq keys
                                 /\ rates \in [DOMAIN rates -> Seq(times)]

\* A rate map within its bounds: the entries fit, and so does every queue.
IsBounded(rates) == /\ IsFiniteSet(DOMAIN rates)
                    /\ Cardinality(DOMAIN rates) <= MaxRateKeys
                    /\ \A key \in DOMAIN rates : Len(rates[key]) <= Threshold

\* Dropping the stale front of a queue leaves a queue of its times, no longer.
LEMMA DropStaleType ==
    ASSUME NEW T, NEW queue \in Seq(T), NEW now
    PROVE  /\ DropStale(queue, now) \in Seq(T)
           /\ Len(DropStale(queue, now)) <= Len(queue)
<1> DEFINE prefix == StalePrefix(queue, now)
<1>1. Len(queue) \in Nat /\ DOMAIN queue = 1 .. Len(queue)
  BY LenProperties
<1>2. IsFiniteSet(1 .. Len(queue))
  BY <1>1, FS_Interval
<1>3. prefix \in SUBSET (1 .. Len(queue))
  BY <1>1 DEF StalePrefix
<1>4. IsFiniteSet(prefix)
  BY <1>2, <1>3, FS_Subset
<1>5. Cardinality(prefix) \in Nat
  BY <1>4, FS_CardinalityType
<1> DEFINE first == Cardinality(prefix) + 1
<1>6. first \in Int /\ first >= 1 /\ Len(queue) \in Int
  BY <1>1, <1>5
<1>7. \A i \in first .. Len(queue) : queue[i] \in T
  <2> SUFFICES ASSUME NEW i \in first .. Len(queue) PROVE queue[i] \in T
    OBVIOUS
  <2>1. i \in 1 .. Len(queue)
    BY <1>6
  <2> QED BY <2>1, ElementOfSeq
<1> HIDE DEF first
<1>8. /\ SubSeq(queue, first, Len(queue)) \in Seq(T)
      /\ Len(SubSeq(queue, first, Len(queue)))
           = IF first <= Len(queue) THEN Len(queue) - first + 1 ELSE 0
  BY <1>6, <1>7, SubSeqProperties
<1>9. DropStale(queue, now) = SubSeq(queue, first, Len(queue))
  BY DEF DropStale, first
<1> QED BY <1>1, <1>6, <1>8, <1>9

\* What is left of a queue without its first n entries.
LEMMA Suffix ==
    ASSUME NEW T, NEW queue \in Seq(T), NEW n \in 0 .. Len(queue)
    PROVE  /\ SubSeq(queue, n + 1, Len(queue)) \in Seq(T)
           /\ Len(SubSeq(queue, n + 1, Len(queue))) = Len(queue) - n
           /\ \A i \in 1 .. Len(queue) - n :
                 SubSeq(queue, n + 1, Len(queue))[i] = queue[n + i]
<1>1. Len(queue) \in Nat
  BY LenProperties
<1>2. n + 1 \in Int /\ Len(queue) \in Int
  BY <1>1
<1>3. \A i \in n + 1 .. Len(queue) : queue[i] \in T
  <2>1. \A i \in n + 1 .. Len(queue) : i \in 1 .. Len(queue)
    BY <1>1
  <2> QED BY <2>1, ElementOfSeq
<1> DEFINE m == n + 1
           rest == SubSeq(queue, m, Len(queue))
<1> HIDE DEF m
<1>4. /\ rest \in Seq(T)
      /\ Len(rest) = IF m <= Len(queue) THEN Len(queue) - m + 1 ELSE 0
      /\ \A i \in 1 .. Len(queue) - m + 1 : rest[i] = queue[m + i - 1]
  BY <1>2, <1>3, SubSeqProperties DEF m
<1> HIDE DEF rest
<1>5. Len(rest) = Len(queue) - n
  BY <1>1, <1>4 DEF m
<1>6. \A i \in 1 .. Len(queue) - n : i \in 1 .. Len(queue) - m + 1 /\ m + i - 1 = n + i
  BY <1>1 DEF m
<1>7. \A i \in 1 .. Len(queue) - n : rest[i] = queue[n + i]
  BY <1>4, <1>6
<1> QED BY <1>4, <1>5, <1>7 DEF rest, m

\* n entries from the front of queue are stale, and no more.
CutAt(queue, n, now) == /\ n \in 0 .. Len(queue)
                        /\ \A i \in 1 .. n : ~Fresh(queue[i], now)
                        /\ n < Len(queue) => Fresh(queue[n + 1], now)

\* A queue has one such place, and dropping the stale front cuts there.
LEMMA CutOfDropStale ==
    ASSUME NEW T, NEW queue \in Seq(T), NEW now
    PROVE  /\ \E n \in Nat : CutAt(queue, n, now)
           /\ \A n \in Nat : CutAt(queue, n, now) =>
                 DropStale(queue, now) = SubSeq(queue, n + 1, Len(queue))
<1> DEFINE prefix == StalePrefix(queue, now)
<1>1. Len(queue) \in Nat /\ DOMAIN queue = 1 .. Len(queue)
  BY LenProperties
<1>2. prefix = {i \in 1 .. Len(queue) : \A j \in 1 .. i : ~Fresh(queue[j], now)}
  BY <1>1 DEF StalePrefix
<1>3. IsFiniteSet(1 .. Len(queue)) /\ prefix \in SUBSET (1 .. Len(queue))
  BY <1>1, <1>2, FS_Interval
<1>4. IsFiniteSet(prefix) /\ Cardinality(prefix) \in Nat
  BY <1>3, FS_Subset, FS_CardinalityType
<1> DEFINE size == Cardinality(prefix)
<1>5. \A n \in Nat : IsFiniteSet(1 .. n) /\ Cardinality(1 .. n) = n
  BY FS_Interval
<1>6. \A i \in prefix : 1 .. i \subseteq prefix
  BY <1>1, <1>2
<1>7. prefix \subseteq 1 .. size
  <2> SUFFICES ASSUME NEW i \in prefix PROVE i \in 1 .. size
    OBVIOUS
  <2>1. i \in Nat /\ i >= 1
    BY <1>3
  <2>2. 1 .. i \in SUBSET prefix
    BY <1>6
  <2>3. Cardinality(1 .. i) <= size
    BY <2>2, <1>4, FS_Subset
  <2> QED BY <2>1, <2>3, <1>4, <1>5
<1>8. prefix = 1 .. size
  <2>1. prefix \in SUBSET (1 .. size) /\ Cardinality(1 .. size) = size
    BY <1>4, <1>5, <1>7
  <2> QED BY <2>1, <1>4, <1>5, FS_Subset
<1>9. CutAt(queue, size, now)
  <2>1. size \in 0 .. Len(queue)
    <3>1. size <= Len(queue)
      BY <1>1, <1>3, <1>5, FS_Subset
    <3> QED BY <3>1, <1>1, <1>4
  <2>2. \A i \in 1 .. size : ~Fresh(queue[i], now)
    <3> HIDE DEF size, prefix
    <3> SUFFICES ASSUME NEW i \in 1 .. size PROVE ~Fresh(queue[i], now)
      OBVIOUS
    <3>1. i \in prefix /\ i \in 1 .. i
      BY <1>4, <1>8 DEF size
    <3> QED BY <3>1, <1>2
  <2>3. size < Len(queue) => Fresh(queue[size + 1], now)
    <3> HIDE DEF prefix
    <3> SUFFICES ASSUME size < Len(queue), ~Fresh(queue[size + 1], now) PROVE FALSE
      OBVIOUS
    <3>1. size + 1 \in 1 .. Len(queue) /\ size + 1 \notin 1 .. size
      BY <1>1, <1>4
    <3>2. \A j \in 1 .. size + 1 : j \in 1 .. size \/ j = size + 1
      BY <1>4
    <3>3. \A j \in 1 .. size + 1 : ~Fresh(queue[j], now)
      BY <2>2, <3>2
    <3>4. size + 1 \in prefix
      BY <1>2, <3>1, <3>3
    <3> QED BY <1>8, <3>1, <3>4
  <2> QED BY <2>1, <2>2, <2>3 DEF CutAt
<1>10. ASSUME NEW n \in Nat, CutAt(queue, n, now) PROVE n = size
  <2> HIDE DEF prefix
  <2>1. ~(n < size)
    <3> SUFFICES ASSUME n < size PROVE FALSE
      OBVIOUS
    <3>1. n + 1 \in 1 .. size /\ n < Len(queue)
      BY <1>1, <1>4, <1>9 DEF CutAt
    <3> QED BY <3>1, <1>9, <1>10 DEF CutAt
  <2>2. ~(size < n)
    <3> SUFFICES ASSUME size < n PROVE FALSE
      OBVIOUS
    <3>1. size + 1 \in 1 .. n /\ size < Len(queue)
      BY <1>1, <1>4, <1>10 DEF CutAt
    <3> QED BY <3>1, <1>9, <1>10 DEF CutAt
  <2> QED BY <2>1, <2>2, <1>4
<1> QED BY <1>4, <1>9, <1>10 DEF DropStale

\* What is dropped at an earlier time would be dropped later anyway.
LEMMA DropStaleTwice ==
    ASSUME NEW queue \in Seq(Int), NEW before \in Int, NEW now \in Int, before <= now
    PROVE  DropStale(DropStale(queue, before), now) = DropStale(queue, now)
<1> DEFINE rest == DropStale(queue, before)
<1>1. PICK m \in Nat : CutAt(queue, m, before) /\ rest = SubSeq(queue, m + 1, Len(queue))
  BY CutOfDropStale
<1>2. rest \in Seq(Int) /\ Len(rest) \in Nat /\ Len(queue) \in Nat
  BY DropStaleType, LenProperties
<1>3. PICK n \in Nat : CutAt(rest, n, now)
                       /\ DropStale(rest, now) = SubSeq(rest, n + 1, Len(rest))
  BY <1>2, CutOfDropStale
<1>4. m <= Len(queue) /\ n <= Len(rest)
  BY <1>1, <1>3 DEF CutAt
<1>5. \A i \in 1 .. Len(queue) : queue[i] \in Int
  BY ElementOfSeq
<1>6. /\ Len(rest) = Len(queue) - m
      /\ \A i \in 1 .. Len(queue) - m : rest[i] = queue[m + i]
  BY <1>1, Suffix DEF CutAt
<1> HIDE DEF rest
<1>7. CutAt(queue, m + n, now)
  <2>1. m + n \in 0 .. Len(queue)
    BY <1>2, <1>4, <1>6
  <2>2. \A i \in 1 .. m + n : ~Fresh(queue[i], now)
    <3> SUFFICES ASSUME NEW i \in 1 .. m + n PROVE ~Fresh(queue[i], now)
      OBVIOUS
    <3>1. CASE i <= m
      <4>1. i \in 1 .. m /\ queue[i] \in Int
        BY <3>1, <1>4, <1>5, <1>2
      <4>2. ~Fresh(queue[i], before)
        BY <4>1, <1>1 DEF CutAt
      <4> QED BY <4>1, <4>2, RateAssumption DEF Fresh
    <3>2. CASE ~(i <= m)
      <4>1. i - m \in 1 .. n /\ i - m \in 1 .. Len(queue) - m /\ m + (i - m) = i
        BY <3>2, <2>1
      <4>2. rest[i - m] = queue[i]
        BY <4>1, <1>6
      <4> QED BY <4>1, <4>2, <1>3 DEF CutAt
    <3> QED BY <3>1, <3>2
  <2>3. m + n < Len(queue) => Fresh(queue[m + n + 1], now)
    <3> SUFFICES ASSUME m + n < Len(queue) PROVE Fresh(queue[m + n + 1], now)
      OBVIOUS
    <3>1. n < Len(rest) /\ n + 1 \in 1 .. Len(queue) - m /\ m + (n + 1) = m + n + 1
      BY <1>2, <1>6
    <3>2. rest[n + 1] = queue[m + n + 1]
      BY <3>1, <1>6
    <3> QED BY <3>1, <3>2, <1>3 DEF CutAt
  <2> QED BY <2>1, <2>2, <2>3 DEF CutAt
<1>8. DropStale(queue, now) = SubSeq(queue, m + n + 1, Len(queue))
  BY <1>7, CutOfDropStale
<1>9. SubSeq(rest, n + 1, Len(rest)) = SubSeq(queue, m + n + 1, Len(queue))
  <2> DEFINE k == m + n
             left == SubSeq(rest, n + 1, Len(rest))
             right == SubSeq(queue, k + 1, Len(queue))
             length == Len(queue) - k
  <2>1. n \in 0 .. Len(rest) /\ k \in 0 .. Len(queue) /\ Len(rest) - n = length
    BY <1>2, <1>4, <1>6
  <2> HIDE DEF k
  <2>2. /\ left \in Seq(Int) /\ Len(left) = Len(rest) - n
        /\ \A i \in 1 .. Len(rest) - n : left[i] = rest[n + i]
    BY <1>2, <2>1, Suffix
  <2>3. /\ right \in Seq(Int) /\ Len(right) = Len(queue) - k
        /\ \A i \in 1 .. Len(queue) - k : right[i] = queue[k + i]
    BY <2>1, Suffix
  <2> HIDE DEF left, right
  <2>4. \A i \in 1 .. length : left[i] = right[i]
    <3> SUFFICES ASSUME NEW i \in 1 .. length PROVE left[i] = right[i]
      OBVIOUS
    <3>1. left[i] = rest[n + i]
      BY <2>1, <2>2
    <3>2. n + i \in 1 .. Len(queue) - m /\ m + (n + i) = k + i
      BY <1>2, <1>4, <2>1 DEF k
    <3>3. rest[n + i] = queue[k + i]
      BY <3>2, <1>6
    <3> QED BY <3>1, <3>3, <2>3
  <2>5. left = right
    BY <2>1, <2>2, <2>3, <2>4, SeqEqual
  <2> QED BY <2>5 DEF left, right, k
<1> QED BY <1>3, <1>8, <1>9 DEF rest

\* A message that comes now is fresh: it is appended to what is left.
LEMMA DropStaleAppend ==
    ASSUME NEW queue \in Seq(Int), NEW now \in Int
    PROVE  DropStale(Append(queue, now), now) = Append(DropStale(queue, now), now)
<1> DEFINE longer == Append(queue, now)
<1>1. Len(queue) \in Nat
  BY LenProperties
<1>2. /\ longer \in Seq(Int) /\ Len(longer) = Len(queue) + 1
      /\ \A i \in 1 .. Len(queue) : longer[i] = queue[i]
      /\ longer[Len(queue) + 1] = now
  BY AppendProperties
<1>3. PICK n \in Nat : CutAt(queue, n, now)
                       /\ DropStale(queue, now) = SubSeq(queue, n + 1, Len(queue))
  BY CutOfDropStale
<1>4. n <= Len(queue)
  BY <1>3 DEF CutAt
<1> HIDE DEF longer
<1>5. CutAt(longer, n, now)
  <2>1. n \in 0 .. Len(longer)
    BY <1>1, <1>2, <1>4
  <2>2. \A i \in 1 .. n : ~Fresh(longer[i], now)
    <3>1. \A i \in 1 .. n : i \in 1 .. Len(queue)
      BY <1>1, <1>4
    <3> QED BY <3>1, <1>2, <1>3 DEF CutAt
  <2>3. Fresh(longer[n + 1], now)
    <3>1. CASE n < Len(queue)
      <4>1. n + 1 \in 1 .. Len(queue)
        BY <3>1, <1>1
      <4> QED BY <3>1, <4>1, <1>2, <1>3 DEF CutAt
    <3>2. CASE n = Len(queue)
      BY <3>2, <1>2, RateAssumption DEF Fresh
    <3> QED BY <3>1, <3>2, <1>1, <1>4
  <2> QED BY <2>1, <2>2, <2>3 DEF CutAt
<1>6. DropStale(longer, now) = SubSeq(longer, n + 1, Len(longer))
  BY <1>2, <1>5, CutOfDropStale
<1>7. SubSeq(longer, n + 1, Len(longer)) = Append(SubSeq(queue, n + 1, Len(queue)), now)
  <2> DEFINE kept == SubSeq(queue, n + 1, Len(queue))
             left == SubSeq(longer, n + 1, Len(longer))
             right == Append(kept, now)
             length == Len(queue) - n
  <2>1. n \in 0 .. Len(queue) /\ n \in 0 .. Len(longer)
    BY <1>1, <1>2, <1>4
  <2>2. kept \in Seq(Int) /\ Len(kept) = length /\ \A i \in 1 .. length : kept[i] = queue[n + i]
    BY <2>1, Suffix
  <2>3. /\ left \in Seq(Int) /\ Len(left) = Len(longer) - n
        /\ \A i \in 1 .. Len(longer) - n : left[i] = longer[n + i]
    BY <2>1, <1>2, Suffix
  <2> HIDE DEF kept, left, length
  <2>4. /\ right \in Seq(Int) /\ Len(right) = Len(kept) + 1
        /\ \A i \in 1 .. Len(kept) : right[i] = kept[i]
        /\ right[Len(kept) + 1] = now
    BY <2>2, AppendProperties
  <2> HIDE DEF right
  <2>5. length \in Nat /\ Len(longer) - n = length + 1
    BY <1>1, <1>2, <1>4 DEF length
  <2>6. \A i \in 1 .. length + 1 : left[i] = right[i]
    <3> SUFFICES ASSUME NEW i \in 1 .. length + 1 PROVE left[i] = right[i]
      OBVIOUS
    <3>1. left[i] = longer[n + i]
      BY <2>3, <2>5
    <3>2. CASE i \in 1 .. length
      <4>1. n + i \in 1 .. Len(queue)
        BY <3>2, <1>1 DEF length
      <4>2. longer[n + i] = queue[n + i]
        BY <4>1, <1>2
      <4> QED BY <3>1, <3>2, <4>2, <2>2, <2>4
    <3>3. CASE i = length + 1
      <4>1. n + i = Len(queue) + 1
        BY <3>3, <1>1 DEF length
      <4> QED BY <3>1, <3>3, <4>1, <2>2, <2>4, <1>2
    <3> QED BY <3>2, <3>3, <2>5
  <2>7. left = right
    BY <2>2, <2>3, <2>4, <2>5, <2>6, SeqEqual
  <2> QED BY <2>7 DEF left, right, kept
<1> QED BY <1>3, <1>6, <1>7 DEF longer

LEMMA DropStaleEmpty == ASSUME NEW now PROVE DropStale(<<>>, now) = <<>>
<1>1. <<>> \in Seq(Int) /\ Len(<<>>) = 0
  BY EmptySeq
<1>2. DropStale(<<>>, now) \in Seq(Int) /\ Len(DropStale(<<>>, now)) <= 0
  BY <1>1, DropStaleType
<1>3. Len(DropStale(<<>>, now)) \in Nat
  BY <1>2, LenProperties
<1> QED BY <1>2, <1>3, EmptySeq

\* Pruning keeps the type and the bounds of a rate map.
LEMMA PruneAllType ==
    ASSUME NEW K, NEW T, NEW rates, IsRateMap(rates, K, T), NEW now
    PROVE  /\ IsRateMap(PruneAll(rates, now), K, T)
           /\ DOMAIN PruneAll(rates, now) \subseteq DOMAIN rates
           /\ IsBounded(rates) => IsBounded(PruneAll(rates, now))
<1> DEFINE kept == {k \in DOMAIN rates : DropStale(rates[k], now) # <<>>}
           pruned == PruneAll(rates, now)
<1>1. \A k \in DOMAIN rates : rates[k] \in Seq(T)
  BY DEF IsRateMap
<1>2. \A k \in DOMAIN rates : /\ DropStale(rates[k], now) \in Seq(T)
                              /\ Len(DropStale(rates[k], now)) <= Len(rates[k])
  BY <1>1, DropStaleType
<1>3. pruned = [k \in kept |-> DropStale(rates[k], now)]
  BY DEF PruneAll
<1>4. DOMAIN pruned = kept /\ kept \subseteq DOMAIN rates
  BY <1>3
<1>5. pruned \in [kept -> Seq(T)]
  BY <1>2, <1>3
<1>6. IsRateMap(pruned, K, T)
  BY <1>4, <1>5 DEF IsRateMap
<1>7. ASSUME IsBounded(rates) PROVE IsBounded(pruned)
  <2>1. IsFiniteSet(kept) /\ Cardinality(kept) <= Cardinality(DOMAIN rates)
    BY <1>4, <1>7, FS_Subset DEF IsBounded
  <2>2. Cardinality(kept) \in Nat /\ Cardinality(DOMAIN rates) \in Nat
    BY <2>1, <1>7, FS_CardinalityType DEF IsBounded
  <2>3. Cardinality(kept) <= MaxRateKeys
    BY <2>1, <2>2, <1>7, RateAssumption DEF IsBounded
  <2>4. \A k \in kept : Len(pruned[k]) <= Threshold
    <3> SUFFICES ASSUME NEW k \in kept PROVE Len(pruned[k]) <= Threshold
      OBVIOUS
    <3>1. pruned[k] = DropStale(rates[k], now) /\ rates[k] \in Seq(T)
      BY <1>1, <1>3, <1>4
    <3>2. Len(rates[k]) \in Nat /\ Len(pruned[k]) \in Nat
      BY <3>1, <1>2, <1>4, LenProperties
    <3>3. Len(rates[k]) <= Threshold /\ Len(pruned[k]) <= Len(rates[k])
      BY <3>1, <1>2, <1>4, <1>7 DEF IsBounded
    <3> QED BY <3>2, <3>3, RateAssumption
  <2> QED BY <2>1, <2>3, <2>4, <1>4 DEF IsBounded
<1> QED BY <1>4, <1>6, <1>7

\* Counting a message keeps the type and the bounds of a rate map.
LEMMA TrackRateType ==
    ASSUME NEW K, NEW T, NEW rates, IsRateMap(rates, K, T), NEW key \in K, NEW now \in T
    PROVE  /\ IsRateMap(TrackRate(rates, key, now), K, T)
           /\ IsBounded(rates) => IsBounded(TrackRate(rates, key, now))
<1> DEFINE roomy == MakeRoom(rates, key, now)
           counted == Counted(roomy, key, now)
           old == IF key \in DOMAIN roomy THEN roomy[key] ELSE <<>>
           full == RateExceeded(rates, key, now)
           tracked == TrackRate(rates, key, now)
<1>1. IsRateMap(roomy, K, T) /\ (IsBounded(rates) => IsBounded(roomy))
  BY PruneAllType DEF MakeRoom
<1>2. CASE ~HasRoom(roomy, key)
  <2>1. tracked = roomy
    BY <1>2 DEF TrackRate
  <2> QED BY <1>1, <2>1
<1>3. CASE HasRoom(roomy, key)
  <2>1. old \in Seq(T)
    BY <1>1, EmptySeq DEF IsRateMap
  <2>2. Append(old, now) \in Seq(T)
    BY <2>1, AppendProperties
  <2>3. counted = DropStale(Append(old, now), now)
    BY DEF Counted
  <2> HIDE DEF old
  <2>4. counted \in Seq(T)
    BY <2>2, <2>3, DropStaleType
  <2>5. Len(counted) \in Nat
    BY <2>4, LenProperties
  <2>6. full <=> Len(counted) > Threshold
    BY <1>3 DEF RateExceeded
  <2>7. tracked = [k \in DOMAIN roomy \cup {key} |->
                     IF k # key THEN roomy[k] ELSE IF full THEN <<>> ELSE counted]
    BY <1>3 DEF TrackRate
  <2> HIDE DEF counted, full, tracked, roomy
  <2>8. DOMAIN tracked = DOMAIN roomy \cup {key}
    BY <2>7
  <2>9. tracked \in [DOMAIN roomy \cup {key} -> Seq(T)]
    <3> SUFFICES ASSUME NEW k \in DOMAIN roomy \cup {key}
                 PROVE  (IF k # key THEN roomy[k] ELSE IF full THEN <<>> ELSE counted) \in Seq(T)
      BY <2>7
    <3> QED BY <1>1, <2>4, EmptySeq DEF IsRateMap
  <2>10. IsRateMap(tracked, K, T)
    BY <1>1, <2>8, <2>9 DEF IsRateMap
  <2>11. ASSUME IsBounded(rates) PROVE IsBounded(tracked)
    <3>1. IsBounded(roomy)
      BY <1>1, <2>11
    <3>2. IsFiniteSet(DOMAIN roomy) /\ Cardinality(DOMAIN roomy) \in Nat
      BY <3>1, FS_CardinalityType DEF IsBounded
    <3>3. /\ IsFiniteSet(DOMAIN tracked)
          /\ Cardinality(DOMAIN tracked) =
               IF key \in DOMAIN roomy THEN Cardinality(DOMAIN roomy)
               ELSE Cardinality(DOMAIN roomy) + 1
      BY <2>8, <3>2, FS_AddElement
    <3>4. Cardinality(DOMAIN tracked) <= MaxRateKeys
      BY <3>1, <3>2, <3>3, <1>3, RateAssumption DEF IsBounded, HasRoom
    <3>5. \A k \in DOMAIN tracked : Len(tracked[k]) <= Threshold
      <4> SUFFICES ASSUME NEW k \in DOMAIN tracked PROVE Len(tracked[k]) <= Threshold
        OBVIOUS
      <4>1. CASE k # key
        <5>1. k \in DOMAIN roomy /\ tracked[k] = roomy[k]
          BY <4>1, <2>7, <2>8
        <5> QED BY <5>1, <3>1 DEF IsBounded
      <4>2. CASE k = key /\ full
        <5>1. tracked[k] = <<>>
          BY <4>2, <2>7, <2>8
        <5>2. Len(<<>>) = 0
          BY EmptySeq
        <5> QED BY <5>1, <5>2, RateAssumption
      <4>3. CASE k = key /\ ~full
        <5>1. tracked[k] = counted
          BY <4>3, <2>7, <2>8
        <5> QED BY <5>1, <4>3, <2>5, <2>6, RateAssumption
      <4> QED BY <4>1, <4>2, <4>3
    <3> QED BY <3>3, <3>4, <3>5 DEF IsBounded
  <2> QED BY <2>10, <2>11 DEF tracked
<1> QED BY <1>2, <1>3
=============================================================================
