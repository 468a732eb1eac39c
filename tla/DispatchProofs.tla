---------------------------- MODULE DispatchProofs ----------------------------
(***************************************************************************)
(* Where the records offered to a sink are, for any sinks, any capacity of *)
(* their channels and any number of records.                               *)
(***************************************************************************)
EXTENDS Dispatch, SequenceTheorems, TLAPS
LOCAL INSTANCE SequencesExt

-----------------------------------------------------------------------------
(* Increasing sequences *)

LEMMA ToSetEmpty == ToSet(<<>>) = {} /\ Increasing(<<>>)
BY DEF ToSet, Increasing

LEMMA ToSetSubset == ASSUME NEW T, NEW q \in Seq(T) PROVE ToSet(q) \subseteq T
BY LenProperties, ElementOfSeq DEF ToSet

LEMMA AppendToSet ==
    ASSUME NEW q \in Seq(Nat), NEW e \in Nat
    PROVE  /\ Append(q, e) \in Seq(Nat)
           /\ ToSet(Append(q, e)) = ToSet(q) \cup {e}
           /\ (Increasing(q) /\ \A a \in ToSet(q) : a < e) => Increasing(Append(q, e))
<1> DEFINE longer == Append(q, e)
<1>1. /\ longer \in Seq(Nat)
      /\ Len(q) \in Nat /\ Len(longer) = Len(q) + 1
      /\ \A i \in 1 .. Len(q) : longer[i] = q[i]
      /\ longer[Len(q) + 1] = e
  BY AppendProperties, LenProperties
<1>2. DOMAIN q = 1 .. Len(q) /\ DOMAIN longer = 1 .. Len(q) + 1
  BY <1>1, LenProperties
<1>3. \A i \in 1 .. Len(q) + 1 : i \in 1 .. Len(q) \/ i = Len(q) + 1
  BY <1>1
<1>4. (\A i \in 1 .. Len(q) : i \in 1 .. Len(q) + 1) /\ Len(q) + 1 \in 1 .. Len(q) + 1
  BY <1>1
<1> SUFFICES /\ longer \in Seq(Nat)
             /\ ToSet(longer) = ToSet(q) \cup {e}
             /\ (Increasing(q) /\ \A a \in ToSet(q) : a < e) => Increasing(longer)
  OBVIOUS
<1> HIDE DEF longer
<1>5. ToSet(longer) = ToSet(q) \cup {e}
  BY <1>1, <1>2, <1>3, <1>4 DEF ToSet
<1>6. ASSUME Increasing(q), \A a \in ToSet(q) : a < e PROVE Increasing(longer)
  <2> SUFFICES ASSUME NEW i \in DOMAIN longer, NEW j \in DOMAIN longer, i < j
               PROVE  longer[i] < longer[j]
    BY DEF Increasing
  <2>1. i \in 1 .. Len(q)
    BY <1>1, <1>2
  <2>2. longer[i] = q[i] /\ q[i] \in ToSet(q)
    BY <2>1, <1>1, <1>2 DEF ToSet
  <2>3. CASE j \in 1 .. Len(q)
    BY <2>1, <2>2, <2>3, <1>1, <1>2, <1>6 DEF Increasing
  <2>4. CASE j = Len(q) + 1
    BY <2>2, <2>4, <1>1, <1>6
  <2> QED BY <2>3, <2>4, <1>2, <1>3
<1> QED BY <1>1, <1>5, <1>6

LEMMA TailToSet ==
    ASSUME NEW q \in Seq(Nat), q # <<>>
    PROVE  /\ Head(q) \in Nat /\ Tail(q) \in Seq(Nat) /\ Len(Tail(q)) <= Len(q)
           /\ ToSet(q) = {Head(q)} \cup ToSet(Tail(q))
           /\ Increasing(q) => /\ Increasing(Tail(q))
                               /\ \A a \in ToSet(Tail(q)) : Head(q) < a
<1> DEFINE rest == Tail(q)
<1>1. /\ Head(q) \in Nat /\ Head(q) = q[1] /\ rest \in Seq(Nat)
      /\ Len(q) \in Nat \ {0} /\ Len(rest) = Len(q) - 1
      /\ \A i \in 1 .. Len(q) - 1 : rest[i] = q[i + 1]
  BY HeadTailProperties, EmptySeq
<1>2. DOMAIN q = 1 .. Len(q) /\ DOMAIN rest = 1 .. Len(q) - 1
  BY <1>1, LenProperties
<1>3. 1 \in 1 .. Len(q) /\ \A i \in 1 .. Len(q) - 1 : i + 1 \in 1 .. Len(q) /\ 1 < i + 1
  BY <1>1
<1>4. \A i \in 1 .. Len(q) : i = 1 \/ (i - 1 \in 1 .. Len(q) - 1 /\ (i - 1) + 1 = i)
  BY <1>1
<1> SUFFICES /\ ToSet(q) = {q[1]} \cup ToSet(rest)
             /\ Increasing(q) => /\ Increasing(rest)
                                 /\ \A a \in ToSet(rest) : q[1] < a
  BY <1>1
<1> HIDE DEF rest
<1>5. ToSet(q) = {q[1]} \cup ToSet(rest)
  <2>1. \A i \in 1 .. Len(q) : q[i] = q[1] \/ q[i] \in ToSet(rest)
    <3> SUFFICES ASSUME NEW i \in 1 .. Len(q), i # 1 PROVE q[i] \in ToSet(rest)
      OBVIOUS
    <3>1. i - 1 \in DOMAIN rest /\ rest[i - 1] = q[i]
      BY <1>1, <1>2, <1>4
    <3> QED BY <3>1 DEF ToSet
  <2>2. \A i \in 1 .. Len(q) - 1 : rest[i] \in ToSet(q)
    BY <1>1, <1>2, <1>3 DEF ToSet
  <2>3. q[1] \in ToSet(q)
    BY <1>2, <1>3 DEF ToSet
  <2> QED BY <2>1, <2>2, <2>3, <1>2 DEF ToSet
<1>6. ASSUME Increasing(q) PROVE Increasing(rest) /\ \A a \in ToSet(rest) : q[1] < a
  <2>1. ASSUME NEW i \in 1 .. Len(q) - 1, NEW j \in 1 .. Len(q) - 1, i < j
        PROVE  rest[i] < rest[j]
    <3>1. i + 1 \in 1 .. Len(q) /\ j + 1 \in 1 .. Len(q) /\ i + 1 < j + 1
      BY <2>1, <1>1
    <3> QED BY <3>1, <1>1, <1>2, <1>6 DEF Increasing
  <2>2. \A i \in 1 .. Len(q) - 1 : q[1] < rest[i]
    BY <1>1, <1>2, <1>3, <1>6 DEF Increasing
  <2> QED BY <2>1, <2>2, <1>2 DEF Increasing, ToSet
<1> QED BY <1>5, <1>6

LEMMA ConcatToSet ==
    ASSUME NEW p \in Seq(Nat), NEW q \in Seq(Nat)
    PROVE  /\ p \o q \in Seq(Nat)
           /\ ToSet(p \o q) = ToSet(p) \cup ToSet(q)
           /\ /\ Increasing(p) /\ Increasing(q)
              /\ \A a \in ToSet(p), b \in ToSet(q) : a < b
              => Increasing(p \o q)
<1> DEFINE both == p \o q
           n == Len(p)
           m == Len(q)
<1>1. /\ both \in Seq(Nat) /\ n \in Nat /\ m \in Nat /\ Len(both) = n + m
      /\ \A i \in 1 .. n + m : both[i] = IF i <= n THEN p[i] ELSE q[i - n]
  BY ConcatProperties, LenProperties
<1>2. DOMAIN p = 1 .. n /\ DOMAIN q = 1 .. m /\ DOMAIN both = 1 .. n + m
  BY <1>1, LenProperties
<1> SUFFICES /\ both \in Seq(Nat)
             /\ ToSet(both) = ToSet(p) \cup ToSet(q)
             /\ /\ Increasing(p) /\ Increasing(q)
                /\ \A a \in ToSet(p), b \in ToSet(q) : a < b
                => Increasing(both)
  OBVIOUS
<1> HIDE DEF both, n, m
<1>3. \A i \in 1 .. n : i \in 1 .. n + m /\ both[i] = p[i]
  BY <1>1
<1>4. \A i \in 1 .. m : n + i \in 1 .. n + m /\ both[n + i] = q[i]
  <2> SUFFICES ASSUME NEW i \in 1 .. m PROVE n + i \in 1 .. n + m /\ both[n + i] = q[i]
    OBVIOUS
  <2>1. n + i \in 1 .. n + m /\ ~(n + i <= n) /\ (n + i) - n = i
    BY <1>1
  <2> QED BY <2>1, <1>1
<1>5. \A i \in 1 .. n + m : i \in 1 .. n \/ (i - n \in 1 .. m /\ n + (i - n) = i)
  BY <1>1
<1>6. ToSet(both) = ToSet(p) \cup ToSet(q)
  <2>1. \A i \in 1 .. n + m : both[i] \in ToSet(p) \cup ToSet(q)
    BY <1>2, <1>3, <1>4, <1>5 DEF ToSet
  <2>2. \A i \in 1 .. n : p[i] \in ToSet(both)
    BY <1>2, <1>3 DEF ToSet
  <2>3. \A i \in 1 .. m : q[i] \in ToSet(both)
    BY <1>2, <1>4 DEF ToSet
  <2> QED BY <2>1, <2>2, <2>3, <1>2 DEF ToSet
<1>7. ASSUME Increasing(p), Increasing(q), \A a \in ToSet(p), b \in ToSet(q) : a < b
      PROVE  Increasing(both)
  <2> SUFFICES ASSUME NEW i \in 1 .. n + m, NEW j \in 1 .. n + m, i < j
               PROVE  both[i] < both[j]
    BY <1>2 DEF Increasing
  <2>1. CASE i \in 1 .. n /\ j \in 1 .. n
    BY <2>1, <1>2, <1>3, <1>7 DEF Increasing
  <2>2. CASE i \in 1 .. n /\ j \notin 1 .. n
    <3>1. both[i] = p[i] /\ p[i] \in ToSet(p)
      BY <2>2, <1>2, <1>3 DEF ToSet
    <3>2. both[j] = q[j - n] /\ j - n \in DOMAIN q
      BY <2>2, <1>2, <1>4, <1>5
    <3>3. both[j] \in ToSet(q)
      BY <3>2 DEF ToSet
    <3> QED BY <3>1, <3>3, <1>7
  <2>3. CASE i \notin 1 .. n
    <3>1. j \notin 1 .. n
      BY <2>3, <1>1
    <3>2. both[i] = q[i - n] /\ both[j] = q[j - n]
      BY <2>3, <3>1, <1>4, <1>5
    <3>3. i - n \in 1 .. m /\ j - n \in 1 .. m /\ i - n < j - n
      BY <2>3, <3>1, <1>1, <1>5
    <3> QED BY <3>2, <3>3, <1>2, <1>7 DEF Increasing
  <2> QED BY <2>1, <2>2, <2>3
<1> QED BY <1>1, <1>6, <1>7

-----------------------------------------------------------------------------
(* The records of one sink *)

InHand(x) == IF x = 0 THEN {} ELSE {x}

\* A sink that has sent h, has x in hand (0: nothing) and c waiting, and has lost
\* l, of the records offered to it: the order is kept, and each record is in one
\* place.
Sound(h, x, c, l, offered) ==
    /\ h \in Seq(Nat) /\ x \in Nat /\ c \in Seq(Nat) /\ l \subseteq Nat
    /\ Increasing(h) /\ Increasing(c)
    /\ \A a \in ToSet(h), b \in ToSet(c) : a < b
    /\ x # 0 => (\A a \in ToSet(h) : a < x) /\ (\A b \in ToSet(c) : x < b)
    /\ ToSet(h) \cup InHand(x) \cup ToSet(c) \cup l = offered
    /\ l \cap (ToSet(h) \cup InHand(x) \cup ToSet(c)) = {}

LEMMA SoundReceive ==
    ASSUME NEW h, NEW c, NEW l, NEW n \in Nat, Sound(h, 0, c, l, 1 .. n), c # <<>>
    PROVE  /\ Sound(h, Head(c), Tail(c), l, 1 .. n) /\ Head(c) # 0
           /\ Len(Tail(c)) <= Len(c)
<1>1. c \in Seq(Nat) /\ Increasing(c)
  BY DEF Sound
<1>2. /\ Head(c) \in Nat /\ Tail(c) \in Seq(Nat) /\ Len(Tail(c)) <= Len(c)
      /\ ToSet(c) = {Head(c)} \cup ToSet(Tail(c))
      /\ Increasing(Tail(c)) /\ \A a \in ToSet(Tail(c)) : Head(c) < a
  BY <1>1, TailToSet
<1>3. Head(c) \in 1 .. n
  BY <1>2 DEF Sound
<1>4. Head(c) # 0 /\ InHand(Head(c)) = {Head(c)} /\ InHand(0) = {}
  BY <1>3 DEF InHand
<1> QED BY <1>2, <1>4 DEF Sound

LEMMA SoundSent ==
    ASSUME NEW h, NEW x, NEW c, NEW l, NEW offered, Sound(h, x, c, l, offered), x # 0
    PROVE  Sound(Append(h, x), 0, c, l, offered)
<1>1. h \in Seq(Nat) /\ x \in Nat /\ Increasing(h) /\ \A a \in ToSet(h) : a < x
  BY DEF Sound
<1>2. /\ Append(h, x) \in Seq(Nat) /\ ToSet(Append(h, x)) = ToSet(h) \cup {x}
      /\ Increasing(Append(h, x))
  BY <1>1, AppendToSet
<1>3. InHand(x) = {x} /\ InHand(0) = {}
  BY DEF InHand
<1> QED BY <1>2, <1>3 DEF Sound

LEMMA SoundGivenUp ==
    ASSUME NEW h, NEW x, NEW c, NEW l, NEW offered, Sound(h, x, c, l, offered), x # 0
    PROVE  Sound(h, 0, c, l \cup {x}, offered)
<1>1. InHand(x) = {x} /\ InHand(0) = {}
  BY DEF InHand
<1>2. ToSet(h) \subseteq Nat /\ ToSet(c) \subseteq Nat
  BY ToSetSubset DEF Sound
<1>3. x \in Nat /\ (\A a \in ToSet(h) : a < x) /\ (\A b \in ToSet(c) : x < b)
  BY DEF Sound
<1>4. x \notin ToSet(h) /\ x \notin ToSet(c)
  BY <1>2, <1>3
<1> QED BY <1>1, <1>4 DEF Sound

LEMMA SoundAccept ==
    ASSUME NEW h, NEW x, NEW c, NEW l, NEW n \in Nat \ {0}, Sound(h, x, c, l, 1 .. n - 1)
    PROVE  Sound(h, x, Append(c, n), l, 1 .. n)
<1>1. c \in Seq(Nat) /\ Increasing(c) /\ x \in Nat
  BY DEF Sound
<1>2. /\ \A a \in ToSet(h) \cup InHand(x) \cup ToSet(c) \cup l : a < n
      /\ 1 .. n = (1 .. n - 1) \cup {n}
  BY DEF Sound
<1>3. /\ Append(c, n) \in Seq(Nat) /\ ToSet(Append(c, n)) = ToSet(c) \cup {n}
      /\ Increasing(Append(c, n))
  BY <1>1, <1>2, AppendToSet
<1>4. n \notin l /\ (x # 0 => x \in InHand(x))
  BY <1>2 DEF InHand
<1> QED BY <1>2, <1>3, <1>4 DEF Sound

LEMMA SoundDrop ==
    ASSUME NEW h, NEW x, NEW c, NEW l, NEW n \in Nat \ {0}, Sound(h, x, c, l, 1 .. n - 1)
    PROVE  Sound(h, x, c, l \cup {n}, 1 .. n)
<1>1. /\ \A a \in ToSet(h) \cup InHand(x) \cup ToSet(c) : a < n
      /\ 1 .. n = (1 .. n - 1) \cup {n}
  BY DEF Sound
<1>2. n \notin ToSet(h) \cup InHand(x) \cup ToSet(c)
  BY <1>1
<1> QED BY <1>1, <1>2 DEF Sound

LEMMA SoundEnd ==
    ASSUME NEW h, NEW c, NEW l, NEW offered, Sound(h, 0, c, l, offered)
    PROVE  Sound(h, 0, <<>>, l \cup ToSet(c), offered)
<1>1. ToSet(h) \subseteq Nat /\ ToSet(c) \subseteq Nat /\ <<>> \in Seq(Nat)
  BY ToSetSubset, EmptySeq DEF Sound
<1>2. \A a \in ToSet(c) : a \notin ToSet(h)
  BY <1>1 DEF Sound
<1> QED BY <1>1, <1>2, ToSetEmpty DEF Sound, InHand

-----------------------------------------------------------------------------
(* The invariant *)

TypeInv ==
    /\ pc \in {"loop", "emit", "syslog", "http", "kafka", "exited"}
    /\ dispatched \in Seq(Kinds)
    /\ pc # "loop" => Len(dispatched) # 0
    /\ task \in [Sinks -> {"start", "recv", "send", "ended"}]
    /\ channel \in [Sinks -> Seq(Nat)]
    /\ inHand \in [Sinks -> Nat]
    /\ handed \in [Sinks -> Seq(Nat)]
    /\ lost \in [Sinks -> SUBSET Nat]

SinkInv(s) ==
    /\ Sound(handed[s], inHand[s], channel[s], lost[s], Offered(s))
    /\ (inHand[s] # 0) = (task[s] = "send")
    /\ Len(channel[s]) <= Capacity

DispatchInv == TypeInv /\ \A s \in Sinks : SinkInv(s)

\* The number of records offered to a sink.
LEMMA OfferedShape ==
    ASSUME TypeInv, NEW s
    PROVE  \E n \in Nat : n <= Len(dispatched) /\ Offered(s) = 1 .. n
<1>1. Len(dispatched) \in Nat /\ (pc # "loop" => Len(dispatched) - 1 \in Nat)
  BY LenProperties DEF TypeInv
<1>2. CASE Offered(s) = 1 .. Len(dispatched)
  BY <1>1, <1>2
<1>3. CASE Offered(s) = 1 .. Len(dispatched) - 1 /\ pc # "loop"
  BY <1>1, <1>3
<1> QED BY <1>2, <1>3, DispatchAssumption DEF Offered, TypeInv

\* Nothing happens to a sink when nothing is offered to it.
LEMMA SinkUntouched ==
    ASSUME NEW s \in Sinks, SinkInv(s), Offered(s)' = Offered(s),
           handed'[s] = handed[s], inHand'[s] = inHand[s], channel'[s] = channel[s],
           lost'[s] = lost[s], task'[s] = task[s]
    PROVE  SinkInv(s)'
BY DEF SinkInv

LEMMA DispatchInit == Init => DispatchInv
<1> SUFFICES ASSUME Init PROVE DispatchInv
  OBVIOUS
<1>1. <<>> \in Seq(Kinds) /\ <<>> \in Seq(Nat) /\ Len(<<>>) = 0
  BY EmptySeq
<1>2. TypeInv
  BY <1>1 DEF Init, TypeInv
<1>3. \A s \in Sinks : Offered(s) = {}
  BY <1>1, DispatchAssumption DEF Init, Offered
<1>4. Sound(<<>>, 0, <<>>, {}, {})
  BY <1>1, ToSetEmpty DEF Sound, InHand
<1>5. ASSUME NEW s \in Sinks PROVE SinkInv(s)
  <2>1. /\ handed[s] = <<>> /\ inHand[s] = 0 /\ channel[s] = <<>> /\ lost[s] = {}
        /\ task[s] \in {"start", "recv"}
    BY DEF Init
  <2>2. (inHand[s] # 0) = (task[s] = "send") /\ Len(channel[s]) <= Capacity
    BY <2>1, <1>1, DispatchAssumption
  <2>3. Sound(handed[s], inHand[s], channel[s], lost[s], Offered(s))
    BY <2>1, <1>3, <1>4
  <2> QED BY <2>2, <2>3 DEF SinkInv
<1> QED BY <1>2, <1>5 DEF DispatchInv

\* A new record, before it is offered to anybody.
LEMMA DispatchKeeps ==
    ASSUME DispatchInv, NEW kind \in Kinds, Dispatch(kind) PROVE DispatchInv'
<1>1. /\ dispatched' \in Seq(Kinds) /\ Len(dispatched) \in Nat
      /\ Len(dispatched') = Len(dispatched) + 1
  BY AppendProperties, LenProperties DEF Dispatch, DispatchInv, TypeInv
<1>2. TypeInv'
  BY <1>1 DEF Dispatch, DispatchInv, TypeInv, sinkVars
<1>3. \A s \in Sinks : Offered(s)' = Offered(s)
  <2>1. pc = "loop" /\ pc' = "emit" /\ Len(dispatched') - 1 = Len(dispatched)
    BY <1>1 DEF Dispatch
  <2> QED BY <2>1, DispatchAssumption DEF Offered
<1> QED BY <1>2, <1>3, SinkUntouched DEF Dispatch, DispatchInv, sinkVars

LEMMA EmitKeeps == ASSUME DispatchInv, Emit PROVE DispatchInv'
<1>1. pc = "emit" /\ pc' \in {"syslog", "exited"} /\ UNCHANGED <<dispatched, sinkVars>>
  BY DEF Emit
<1>2. TypeInv'
  BY <1>1 DEF DispatchInv, TypeInv, sinkVars
<1>3. \A s \in Sinks : Offered(s)' = Offered(s)
  BY <1>1 DEF Offered
<1> QED BY <1>1, <1>2, <1>3, SinkUntouched DEF DispatchInv, sinkVars

\* The newest record is offered to sink f: it waits there or is lost.
LEMMA ForwardKeeps ==
    ASSUME DispatchInv, NEW f \in {"syslog", "http", "kafka"}, Forward(f) PROVE DispatchInv'
<1> DEFINE n == Len(dispatched)
<1>1. /\ pc = f /\ pc' = After(f) /\ pc' \in {"http", "kafka", "loop"}
      /\ UNCHANGED <<dispatched, task, inHand, handed>>
  BY DEF Forward, After
<1>2. TypeInv /\ \A s \in Sinks : SinkInv(s)
  BY DEF DispatchInv
<1>3. n \in Nat \ {0}
  BY <1>1, <1>2, LenProperties DEF TypeInv
<1>4. Offered(f) = 1 .. n - 1 /\ Offered(f)' = 1 .. n
  BY <1>1 DEF Offered, After
<1>5. \A s \in Sinks \ {f} : Offered(s)' = Offered(s)
  BY <1>1, DispatchAssumption DEF Offered, After
<1>6. CASE f \notin Sinks
  <2>1. channel' = channel /\ lost' = lost
    BY <1>6 DEF Forward
  <2>2. TypeInv'
    BY <1>1, <1>2, <1>3, <2>1 DEF TypeInv
  <2> QED BY <1>1, <1>2, <1>5, <1>6, <2>1, <2>2, SinkUntouched DEF DispatchInv
<1>7. CASE f \in Sinks
  <2>1. Sound(handed[f], inHand[f], channel[f], lost[f], 1 .. n - 1)
    BY <1>2, <1>4, <1>7 DEF SinkInv
  <2>2. /\ Append(channel[f], n) \in Seq(Nat) /\ Len(channel[f]) \in Nat
        /\ Len(Append(channel[f], n)) = Len(channel[f]) + 1
    BY <1>2, <1>3, <1>7, AppendProperties, LenProperties DEF TypeInv
  <2>3. CASE Accepts(f)
    <3>1. channel' = [channel EXCEPT ![f] = Append(@, n)] /\ lost' = lost
      BY <1>7, <2>3 DEF Forward
    <3>2. /\ channel' \in [Sinks -> Seq(Nat)] /\ channel'[f] = Append(channel[f], n)
          /\ \A s \in Sinks \ {f} : channel'[s] = channel[s]
      BY <1>2, <1>7, <2>2, <3>1 DEF TypeInv
    <3>3. TypeInv'
      BY <1>1, <1>2, <1>3, <3>1, <3>2 DEF TypeInv
    <3>4. SinkInv(f)'
      <4>1. Sound(handed[f], inHand[f], channel'[f], lost[f], 1 .. n)
        BY <1>3, <2>1, <3>2, SoundAccept
      <4>2. Len(channel'[f]) <= Capacity
        BY <2>2, <2>3, <3>2, DispatchAssumption DEF Accepts
      <4> QED BY <4>1, <4>2, <1>1, <1>2, <1>4, <1>7, <3>1 DEF SinkInv
    <3>5. \A s \in Sinks \ {f} : SinkInv(s)'
      BY <1>1, <1>2, <1>5, <3>1, <3>2, SinkUntouched
    <3> QED BY <3>3, <3>4, <3>5 DEF DispatchInv
  <2>4. CASE ~Accepts(f)
    <3>1. lost' = [lost EXCEPT ![f] = @ \cup {n}] /\ channel' = channel
      BY <1>7, <2>4 DEF Forward
    <3>2. /\ lost' \in [Sinks -> SUBSET Nat] /\ lost'[f] = lost[f] \cup {n}
          /\ \A s \in Sinks \ {f} : lost'[s] = lost[s]
      BY <1>2, <1>3, <1>7, <3>1 DEF TypeInv
    <3>3. TypeInv'
      BY <1>1, <1>2, <1>3, <3>1, <3>2 DEF TypeInv
    <3>4. SinkInv(f)'
      <4>1. Sound(handed[f], inHand[f], channel[f], lost'[f], 1 .. n)
        BY <1>3, <2>1, <3>2, SoundDrop
      <4> QED BY <4>1, <1>1, <1>2, <1>4, <1>7, <3>1 DEF SinkInv
    <3>5. \A s \in Sinks \ {f} : SinkInv(s)'
      BY <1>1, <1>2, <1>5, <3>1, <3>2, SinkUntouched
    <3> QED BY <3>3, <3>4, <3>5 DEF DispatchInv
  <2> QED BY <2>3, <2>4
<1> QED BY <1>6, <1>7

\* What a task does: one sink changes, nothing is offered.
LEMMA TaskStep ==
    ASSUME DispatchInv, NEW s \in Sinks, UNCHANGED <<pc, dispatched>>,
           NEW t \in {"start", "recv", "send", "ended"}, NEW c \in Seq(Nat), NEW x \in Nat,
           NEW h \in Seq(Nat), NEW l \in SUBSET Nat,
           task' = [task EXCEPT ![s] = t], channel' = [channel EXCEPT ![s] = c],
           inHand' = [inHand EXCEPT ![s] = x], handed' = [handed EXCEPT ![s] = h],
           lost' = [lost EXCEPT ![s] = l],
           Sound(h, x, c, l, Offered(s)), (x # 0) = (t = "send"), Len(c) <= Capacity
    PROVE  DispatchInv'
<1>1. TypeInv /\ \A k \in Sinks : SinkInv(k)
  BY DEF DispatchInv
<1>2. TypeInv'
  BY <1>1 DEF TypeInv
<1>3. \A k \in Sinks : Offered(k)' = Offered(k)
  BY DEF Offered
<1>4. task'[s] = t /\ channel'[s] = c /\ inHand'[s] = x /\ handed'[s] = h /\ lost'[s] = l
  BY <1>1 DEF TypeInv
<1>5. SinkInv(s)'
  BY <1>3, <1>4 DEF SinkInv
<1>6. ASSUME NEW k \in Sinks \ {s} PROVE SinkInv(k)'
  <2>1. /\ task'[k] = task[k] /\ channel'[k] = channel[k] /\ inHand'[k] = inHand[k]
        /\ handed'[k] = handed[k] /\ lost'[k] = lost[k]
    BY <1>1 DEF TypeInv
  <2> QED BY <2>1, <1>1, <1>3, SinkUntouched
<1> QED BY <1>2, <1>5, <1>6 DEF DispatchInv

\* What is unchanged is set to what it was.
LEMMA SelfExcept ==
    ASSUME DispatchInv, NEW s \in Sinks
    PROVE  /\ task = [task EXCEPT ![s] = task[s]] /\ channel = [channel EXCEPT ![s] = channel[s]]
           /\ inHand = [inHand EXCEPT ![s] = inHand[s]]
           /\ handed = [handed EXCEPT ![s] = handed[s]] /\ lost = [lost EXCEPT ![s] = lost[s]]
           /\ task[s] \in {"start", "recv", "send", "ended"} /\ channel[s] \in Seq(Nat)
           /\ inHand[s] \in Nat /\ handed[s] \in Seq(Nat) /\ lost[s] \in SUBSET Nat
           /\ Sound(handed[s], inHand[s], channel[s], lost[s], Offered(s))
           /\ (inHand[s] # 0) = (task[s] = "send")
           /\ Len(channel[s]) <= Capacity /\ Len(channel[s]) \in Nat
BY LenProperties DEF DispatchInv, TypeInv, SinkInv

LEMMA ReceiveKeeps == ASSUME DispatchInv, NEW s \in Sinks, Receive(s) PROVE DispatchInv'
<1>1. inHand[s] = 0 /\ channel[s] # <<>>
  BY SelfExcept DEF Receive
<1>2. PICK n \in Nat : Offered(s) = 1 .. n
  BY OfferedShape DEF DispatchInv
<1> DEFINE x == Head(channel[s])
           c == Tail(channel[s])
<1>3. Sound(handed[s], x, c, lost[s], Offered(s)) /\ x # 0 /\ Len(c) <= Len(channel[s])
  BY <1>1, <1>2, SelfExcept, SoundReceive
<1>4. x \in Nat /\ c \in Seq(Nat) /\ Len(c) \in Nat
  BY <1>3, LenProperties DEF Sound
<1>5. Len(c) <= Capacity
  BY <1>3, <1>4, SelfExcept, DispatchAssumption
<1>6. /\ task' = [task EXCEPT ![s] = "send"] /\ channel' = [channel EXCEPT ![s] = c]
      /\ inHand' = [inHand EXCEPT ![s] = x] /\ UNCHANGED <<pc, dispatched, handed, lost>>
  BY SelfExcept DEF Receive, mainVars
<1> HIDE DEF x, c
<1>7. handed' = [handed EXCEPT ![s] = handed[s]] /\ lost' = [lost EXCEPT ![s] = lost[s]]
      /\ handed[s] \in Seq(Nat) /\ lost[s] \in SUBSET Nat
  BY <1>6, SelfExcept
<1> QED BY <1>3, <1>4, <1>5, <1>6, <1>7, TaskStep

LEMMA SentKeeps ==
    ASSUME DispatchInv, NEW s \in Sinks, task[s] = "send", Sent(s) PROVE DispatchInv'
<1>1. inHand[s] # 0
  BY SelfExcept
<1> DEFINE h == Append(handed[s], inHand[s])
<1>2. Sound(h, 0, channel[s], lost[s], Offered(s))
  BY <1>1, SelfExcept, SoundSent
<1>3. h \in Seq(Nat)
  BY <1>2 DEF Sound
<1>4. /\ task' = [task EXCEPT ![s] = "recv"] /\ handed' = [handed EXCEPT ![s] = h]
      /\ inHand' = [inHand EXCEPT ![s] = 0] /\ UNCHANGED <<pc, dispatched, channel, lost>>
  BY DEF Sent, mainVars
<1> HIDE DEF h
<1>5. channel' = [channel EXCEPT ![s] = channel[s]] /\ lost' = [lost EXCEPT ![s] = lost[s]]
      /\ channel[s] \in Seq(Nat) /\ lost[s] \in SUBSET Nat /\ Len(channel[s]) <= Capacity
  BY <1>4, SelfExcept
<1> QED BY <1>2, <1>3, <1>4, <1>5, TaskStep

LEMMA GivenUpKeeps ==
    ASSUME DispatchInv, NEW s \in Sinks, task[s] = "send", GivenUp(s) PROVE DispatchInv'
<1>1. inHand[s] # 0
  BY SelfExcept
<1> DEFINE l == lost[s] \cup {inHand[s]}
<1>2. Sound(handed[s], 0, channel[s], l, Offered(s)) /\ l \in SUBSET Nat
  BY <1>1, SelfExcept, SoundGivenUp
<1>3. /\ task' = [task EXCEPT ![s] = "recv"] /\ lost' = [lost EXCEPT ![s] = l]
      /\ inHand' = [inHand EXCEPT ![s] = 0] /\ UNCHANGED <<pc, dispatched, channel, handed>>
  BY DEF GivenUp, mainVars
<1> HIDE DEF l
<1>4. channel' = [channel EXCEPT ![s] = channel[s]] /\ handed' = [handed EXCEPT ![s] = handed[s]]
      /\ channel[s] \in Seq(Nat) /\ handed[s] \in Seq(Nat) /\ Len(channel[s]) <= Capacity
  BY <1>3, SelfExcept
<1> QED BY <1>2, <1>3, <1>4, TaskStep

LEMMA SyslogEndsKeeps == ASSUME DispatchInv, SyslogEnds PROVE DispatchInv'
<1> DEFINE s == "syslog"
           l == lost[s] \cup ToSet(channel[s])
<1>1. s \in Sinks /\ task[s] = "start"
  BY DEF SyslogEnds
<1>2. inHand[s] = 0
  BY <1>1, SelfExcept
<1>3. Sound(handed[s], 0, <<>>, l, Offered(s))
  BY <1>1, <1>2, SelfExcept, SoundEnd
<1>4. l \in SUBSET Nat /\ <<>> \in Seq(Nat) /\ Len(<<>>) <= Capacity
  BY <1>3, EmptySeq, DispatchAssumption DEF Sound
<1>5. /\ task' = [task EXCEPT ![s] = "ended"] /\ lost' = [lost EXCEPT ![s] = l]
      /\ channel' = [channel EXCEPT ![s] = <<>>] /\ UNCHANGED <<pc, dispatched, inHand, handed>>
  BY DEF SyslogEnds, mainVars
<1> HIDE DEF s, l
<1>6. inHand' = [inHand EXCEPT ![s] = 0] /\ handed' = [handed EXCEPT ![s] = handed[s]]
      /\ handed[s] \in Seq(Nat)
  BY <1>1, <1>2, <1>5, SelfExcept
<1> QED BY <1>1, <1>3, <1>4, <1>5, <1>6, TaskStep

LEMMA SyslogStartsKeeps == ASSUME DispatchInv, SyslogStarts PROVE DispatchInv'
<1> DEFINE s == "syslog"
<1>1. s \in Sinks /\ task[s] = "start" /\ task' = [task EXCEPT ![s] = "recv"]
      /\ UNCHANGED <<pc, dispatched, channel, inHand, handed, lost>>
  BY DEF SyslogStarts, mainVars
<1> HIDE DEF s
<1>2. inHand[s] = 0
  BY <1>1, SelfExcept
<1>3. /\ channel' = [channel EXCEPT ![s] = channel[s]] /\ inHand' = [inHand EXCEPT ![s] = 0]
      /\ handed' = [handed EXCEPT ![s] = handed[s]] /\ lost' = [lost EXCEPT ![s] = lost[s]]
      /\ channel[s] \in Seq(Nat) /\ handed[s] \in Seq(Nat) /\ lost[s] \in SUBSET Nat
      /\ Sound(handed[s], 0, channel[s], lost[s], Offered(s)) /\ Len(channel[s]) <= Capacity
  BY <1>1, <1>2, SelfExcept
<1> QED BY <1>1, <1>3, TaskStep

\* Steps that touch none of the sinks' records: the stream of the syslog task,
\* the reader of stdout.
LEMMA OtherKeeps ==
    ASSUME DispatchInv, UNCHANGED <<pc, dispatched, task, channel, inHand, handed, lost>>
    PROVE  DispatchInv'
BY DEF DispatchInv, TypeInv, SinkInv, Offered

LEMMA NextKeeps == DispatchInv /\ [Next]_vars => DispatchInv'
<1> SUFFICES ASSUME DispatchInv, [Next]_vars PROVE DispatchInv'
  OBVIOUS
<1>1. ASSUME NEW kind \in Kinds, Dispatch(kind) PROVE DispatchInv'
  BY <1>1, DispatchKeeps
<1>2. CASE Main
  BY <1>2, EmitKeeps, ForwardKeeps DEF Main
<1>3. CASE ReadStdout \/ CloseStdout
  BY <1>3, OtherKeeps DEF ReadStdout, CloseStdout, sinkVars
<1>4. ASSUME NEW s \in Sinks, Task(s) PROVE DispatchInv'
  <2>1. CASE Receive(s)
    BY <2>1, ReceiveKeeps
  <2>2. CASE Attempt(s)
    BY <2>2, SentKeeps, GivenUpKeeps DEF Attempt, Sending
  <2>3. CASE s = "syslog" /\ (TcpConnectFails \/ TcpWrite)
    BY <2>3, SentKeeps, GivenUpKeeps DEF TcpConnectFails, TcpWrite, Sending
  <2>4. CASE TcpConnect \/ TcpWriteFails
    BY <2>4, OtherKeeps DEF TcpConnect, TcpWriteFails, mainVars
  <2>5. CASE SyslogEnds \/ SyslogStarts
    BY <2>5, SyslogEndsKeeps, SyslogStartsKeeps
  <2> QED BY <1>4, <2>1, <2>2, <2>3, <2>4, <2>5 DEF Task
<1>5. CASE UNCHANGED vars
  BY <1>5, OtherKeeps DEF vars, mainVars, sinkVars
<1> QED BY <1>1, <1>2, <1>3, <1>4, <1>5 DEF Next

LEMMA DispatchCorrect == Spec => []DispatchInv
<1>1. Init => DispatchInv
  BY DispatchInit
<1>2. DispatchInv /\ [Next]_vars => DispatchInv'
  BY NextKeeps
<1> QED BY <1>1, <1>2, PTL DEF Spec

-----------------------------------------------------------------------------
(* The theorems *)

\* The course of a sink's records is increasing, and made of its three parts.
LEMMA CourseShape ==
    ASSUME DispatchInv, NEW s \in Sinks
    PROVE  /\ ToSet(Course(s)) = ToSet(handed[s]) \cup InHand(inHand[s]) \cup ToSet(channel[s])
           /\ Increasing(Course(s))
<1> DEFINE h == handed[s]
           x == inHand[s]
           c == channel[s]
           hand == IF x = 0 THEN <<>> ELSE <<x>>
<1>1. h \in Seq(Nat) /\ c \in Seq(Nat) /\ x \in Nat
      /\ Sound(h, x, c, lost[s], Offered(s))
  BY SelfExcept
<1> SUFFICES /\ ToSet((h \o hand) \o c) = ToSet(h) \cup InHand(x) \cup ToSet(c)
             /\ Increasing((h \o hand) \o c)
  BY DEF Course
<1> HIDE DEF h, x, c
<1>2. hand \in Seq(Nat) /\ ToSet(hand) = InHand(x) /\ Increasing(hand)
  <2>1. CASE x = 0
    BY <2>1, ToSetEmpty, EmptySeq DEF InHand
  <2>2. CASE x # 0
    <3>1. hand = <<x>> /\ <<x>> \in Seq(Nat) /\ DOMAIN <<x>> = {1} /\ <<x>>[1] = x
      BY <2>2, <1>1
    <3>2. InHand(x) = {x}
      BY <2>2 DEF InHand
    <3> QED BY <3>1, <3>2 DEF ToSet, Increasing
  <2> QED BY <2>1, <2>2
<1> HIDE DEF hand
<1>3. /\ Increasing(h) /\ Increasing(c)
      /\ \A a \in ToSet(h), b \in ToSet(hand) : a < b
      /\ \A a \in ToSet(h) \cup ToSet(hand), b \in ToSet(c) : a < b
  BY <1>1, <1>2 DEF Sound, InHand
<1>4. /\ h \o hand \in Seq(Nat) /\ Increasing(h \o hand)
      /\ ToSet(h \o hand) = ToSet(h) \cup ToSet(hand)
  BY <1>1, <1>2, <1>3, ConcatToSet
<1>5. /\ Increasing((h \o hand) \o c)
      /\ ToSet((h \o hand) \o c) = ToSet(h) \cup ToSet(hand) \cup ToSet(c)
  BY <1>1, <1>3, <1>4, ConcatToSet
<1> QED BY <1>2, <1>5

\* What was written to stdout is read, or in the pipe, which holds no more than fits.
PipeInv == /\ stdout \in Seq(Nat) /\ dispatched \in Seq(Kinds)
           /\ read \in 0 .. Len(stdout) /\ Len(stdout) - read <= PipeSize

\* The reader takes out what is there, and a write waits for a place: one that
\* does not wait meets an error.
LEMMA PipeNext == PipeInv /\ [Next]_vars => PipeInv'
<1> SUFFICES ASSUME PipeInv, [Next]_vars PROVE PipeInv'
  OBVIOUS
<1>0. /\ PipeSize \in Nat \ {0} /\ read \in Nat /\ read <= Len(stdout)
      /\ Len(stdout) \in Nat /\ Len(dispatched) \in Nat
  BY DispatchAssumption, LenProperties DEF PipeInv
<1>1. ASSUME NEW kind \in Kinds, Dispatch(kind) PROVE PipeInv'
  BY <1>1, AppendProperties DEF Dispatch, PipeInv
<1>2. CASE Emit
  <2>1. UNCHANGED <<dispatched, read>>
    BY <1>2 DEF Emit
  <2>2. CASE stdout' = stdout
    BY <2>1, <2>2 DEF PipeInv
  <2>3. CASE stdout' # stdout
    <3>1. stdout' = Append(stdout, Len(dispatched)) /\ Len(stdout) - read < PipeSize
      BY <1>0, <1>2, <2>3 DEF Emit, PipeIsFull
    <3>2. stdout' \in Seq(Nat) /\ Len(stdout') = Len(stdout) + 1
      BY <1>0, <3>1, AppendProperties DEF PipeInv
    <3> QED BY <1>0, <2>1, <3>1, <3>2 DEF PipeInv
  <2> QED BY <2>2, <2>3
<1>3. CASE ReadStdout
  BY <1>0, <1>3 DEF ReadStdout, PipeInv
<1>4. ASSUME UNCHANGED <<dispatched, stdout, read>> PROVE PipeInv'
  BY <1>4 DEF PipeInv
<1>5. ASSUME NEW s \in {"syslog", "http", "kafka"}, Forward(s) PROVE PipeInv'
  BY <1>4, <1>5 DEF Forward
<1>6. ASSUME NEW s \in Sinks, Task(s) PROVE UNCHANGED mainVars
  BY <1>6 DEF Task, Receive, Attempt, Sent, GivenUp, SyslogEnds, SyslogStarts, TcpConnect,
              TcpConnectFails, TcpWrite, TcpWriteFails
<1>7. CASE CloseStdout \/ UNCHANGED vars \/ UNCHANGED mainVars
  BY <1>4, <1>7 DEF CloseStdout, vars, mainVars
<1> QED BY <1>1, <1>2, <1>3, <1>5, <1>6, <1>7 DEF Next, Main

\* Records are typed, channels and the pipe bounded, whatever the main loop, the
\* tasks and the reader of stdout do in which order.
THEOREM TypeCorrect == Spec => []TypeOK
<1>1. DispatchInv /\ PipeInv => TypeOK
  <2> SUFFICES ASSUME DispatchInv, PipeInv PROVE TypeOK
    OBVIOUS
  <2>1. pc \in ToSet(Stages) \cup {"loop", "exited"} /\ dispatched \in Seq(Kinds)
    <3>1. ToSet(Stages) = {"emit", "syslog", "http", "kafka"}
      BY DEF ToSet, Stages
    <3> QED BY <3>1 DEF DispatchInv, TypeInv
  <2>2. ASSUME NEW s \in Sinks PROVE inHand[s] \in 0 .. Len(dispatched)
    <3>1. PICK n \in Nat : n <= Len(dispatched) /\ Offered(s) = 1 .. n
      BY OfferedShape DEF DispatchInv
    <3>2. Len(dispatched) \in Nat /\ inHand[s] \in Nat
      BY SelfExcept, LenProperties DEF DispatchInv, TypeInv
    <3>3. inHand[s] # 0 => inHand[s] \in 1 .. n
      BY <3>1, SelfExcept DEF Sound, InHand
    <3> QED BY <3>1, <3>2, <3>3
  <2> QED BY <2>1, <2>2, SelfExcept DEF TypeOK, PipeInv
<1>2. Init => PipeInv
  <2> SUFFICES ASSUME Init PROVE PipeInv
    OBVIOUS
  <2>1. stdout = <<>> /\ dispatched = <<>> /\ read = 0 /\ PipeSize \in Nat
    BY DispatchAssumption DEF Init
  <2>2. <<>> \in Seq(Nat) /\ <<>> \in Seq(Kinds) /\ Len(<<>>) = 0
    BY EmptySeq
  <2> QED BY <2>1, <2>2 DEF PipeInv
<1> QED BY <1>1, <1>2, PipeNext, DispatchCorrect, PTL DEF Spec

\* Every sink sends its records in the order of their dispatch and none twice,
\* whatever overflows, fails and is sent again.
THEOREM OrderHolds == Spec => []OrderIsKept
<1>1. DispatchInv => OrderIsKept
  BY CourseShape DEF OrderIsKept, Increasing
<1> QED BY <1>1, DispatchCorrect, PTL

\* Every record that has been offered to a sink is sent, in hand, waiting or
\* lost, and one of these, however many sinks there are and however they fail.
THEOREM NoRecordVanishes == Spec => []EveryRecordIsAccountedFor
<1>1. DispatchInv => EveryRecordIsAccountedFor
  <2> SUFFICES ASSUME DispatchInv, NEW s \in Sinks
               PROVE  /\ ToSet(Course(s)) \cup lost[s] = Offered(s)
                      /\ ToSet(Course(s)) \cap lost[s] = {}
    BY DEF EveryRecordIsAccountedFor
  <2> QED BY CourseShape, SelfExcept DEF Sound
<1> QED BY <1>1, DispatchCorrect, PTL

-----------------------------------------------------------------------------
(* The terminal stream *)

\* The strengthening: what is written are numbers of records, and there is a
\* record when one is to be written.
StreamInv == /\ dispatched \in Seq(Kinds)
             /\ stdout \in Seq(Nat)
             /\ pc = "emit" => Len(dispatched) >= 1
             /\ StreamHasNoGap

\* Steps that leave the stream, the records and the settings alone and do not
\* leave the stage in which the last record is yet to be written.
LEMMA StreamUntouched ==
    ASSUME StreamInv, UNCHANGED <<settings, dispatched, stdout>>,
           pc' = "emit" => pc = "emit",
           Running' => Running /\ (pc = "emit" => pc' = "emit")
    PROVE  StreamInv'
<1>1. Running' => Shown' = Shown
  BY DEF Shown, Wants
<1> QED BY <1>1 DEF StreamInv, StreamHasNoGap

LEMMA StreamDispatch ==
    ASSUME StreamInv, NEW kind \in Kinds, Dispatch(kind) PROVE StreamInv'
<1> DEFINE d == dispatched
           longer == Append(dispatched, kind)
           n == Len(dispatched)
<1>1. /\ longer \in Seq(Kinds) /\ n \in Nat /\ Len(longer) = n + 1
      /\ \A i \in 1 .. n : longer[i] = d[i]
  BY AppendProperties, LenProperties DEF StreamInv
<1>2. dispatched' = longer /\ pc = "loop" /\ pc' = "emit" /\ stdout' = stdout
      /\ settings' = settings
  BY DEF Dispatch
<1>3. Shown = {r \in 1 .. n : Wants(d[r])}
  BY <1>2 DEF Shown
<1>4. Shown' = {r \in 1 .. n + 1 : r < n + 1 /\ Wants(longer[r])}
  BY <1>1, <1>2 DEF Shown, Wants
<1> HIDE DEF longer, d, n
<1>5. \A r : (r \in 1 .. n + 1 /\ r < n + 1) <=> r \in 1 .. n
  BY <1>1
<1>6. Shown' = Shown
  BY <1>1, <1>3, <1>4, <1>5
<1> QED BY <1>1, <1>2, <1>6 DEF StreamInv, StreamHasNoGap, Running

LEMMA StreamEmit == ASSUME StreamInv, Emit PROVE StreamInv'
<1> DEFINE n == Len(dispatched)
<1>0. n >= 1
  BY DEF StreamInv, Emit
<1>1. /\ n \in Nat /\ pc = "emit" /\ UNCHANGED <<settings, dispatched>>
      /\ ToSet(stdout) = Shown /\ Increasing(stdout) /\ stdout \in Seq(Nat)
  BY LenProperties DEF StreamInv, StreamHasNoGap, Emit, Running
<1>2. CASE Wanted /\ ~open
  BY <1>1, <1>2 DEF StreamInv, StreamHasNoGap, Emit, Running
<1>3. CASE ~(Wanted /\ ~open)
  <2>1. /\ pc' = "syslog"
        /\ stdout' = IF Wanted THEN Append(stdout, n) ELSE stdout
    BY <1>3 DEF Emit
  <2>2. /\ Shown = {r \in 1 .. n : r < n /\ Wants(dispatched[r])}
        /\ Shown' = {r \in 1 .. n : Wants(dispatched[r])}
    BY <1>1, <2>1 DEF Shown, Wants
  <2>3. Wanted = Wants(dispatched[n])
    BY DEF Wanted
  <2> HIDE DEF n
  <2>4. CASE Wanted
    <3>1. Shown' = Shown \cup {n}
      <4>1. n \in 1 .. n /\ ~(n < n) /\ \A r \in 1 .. n : r < n \/ r = n
        BY <1>0, <1>1
      <4> QED BY <4>1, <2>2, <2>3, <2>4
    <3>2. \A a \in ToSet(stdout) : a < n
      BY <1>1, <2>2
    <3>3. /\ stdout' \in Seq(Nat) /\ Increasing(stdout')
          /\ ToSet(stdout') = ToSet(stdout) \cup {n}
      BY <1>1, <2>1, <2>4, <3>2, AppendToSet
    <3> QED BY <1>0, <1>1, <2>1, <3>1, <3>3 DEF StreamInv, StreamHasNoGap
  <2>5. CASE ~Wanted
    <3>1. Shown' = Shown
      BY <1>1, <2>2, <2>3, <2>5
    <3> QED BY <1>0, <1>1, <2>1, <2>5, <3>1 DEF StreamInv, StreamHasNoGap
  <2> QED BY <2>4, <2>5
<1> QED BY <1>2, <1>3

LEMMA StreamNext == StreamInv /\ [Next]_vars => StreamInv'
<1> SUFFICES ASSUME StreamInv, [Next]_vars PROVE StreamInv'
  OBVIOUS
<1>1. ASSUME NEW s \in {"syslog", "http", "kafka"}, Forward(s) PROVE StreamInv'
  BY <1>1, StreamUntouched DEF Forward, After, Running
<1>2. CASE ReadStdout \/ CloseStdout
  BY <1>2, StreamUntouched DEF ReadStdout, CloseStdout, Running
<1>3. ASSUME UNCHANGED mainVars PROVE StreamInv'
  BY <1>3, StreamUntouched DEF mainVars, Running
<1>4. ASSUME NEW s \in Sinks, Task(s) PROVE UNCHANGED mainVars
  BY <1>4 DEF Task, Receive, Attempt, Sent, GivenUp, SyslogEnds, SyslogStarts, TcpConnect,
              TcpConnectFails, TcpWrite, TcpWriteFails
<1>5. CASE UNCHANGED vars
  BY <1>3, <1>5 DEF vars
<1> QED BY <1>1, <1>2, <1>3, <1>4, <1>5, StreamDispatch, StreamEmit DEF Next, Main

\* As long as the sensor runs, its terminal shows every wanted record up to the
\* one being dispatched, whatever becomes of the sinks.
THEOREM StreamIsComplete == Spec => []StreamHasNoGap
<1>1. Init => StreamInv
  <2> SUFFICES ASSUME Init PROVE StreamInv
    OBVIOUS
  <2>1. dispatched = <<>> /\ stdout = <<>> /\ pc = "loop"
    BY DEF Init
  <2>2. Shown = {} /\ ToSet(stdout) = {} /\ Increasing(stdout)
    BY <2>1, ToSetEmpty DEF Shown
  <2>3. dispatched \in Seq(Kinds) /\ stdout \in Seq(Nat)
    BY <2>1
  <2> QED BY <2>1, <2>2, <2>3 DEF StreamInv, StreamHasNoGap
<1>2. StreamInv /\ [Next]_vars => StreamInv'
  BY StreamNext
<1>3. StreamInv => StreamHasNoGap
  BY DEF StreamInv
<1> QED BY <1>1, <1>2, <1>3, PTL DEF Spec
===============================================================================
