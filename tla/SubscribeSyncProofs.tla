-------------------------- MODULE SubscribeSyncProofs --------------------------
(***************************************************************************)
(* The order of subscriptions and queries, for any sensitive topics, any   *)
(* capacity of the request queue and any number of connections.            *)
(***************************************************************************)
EXTENDS SubscribeSync, SequenceTheorems, TLAPS

-----------------------------------------------------------------------------
(* The plan *)

Filters == STRING \cup {ReplyTopic, DxlTopics, "services", "brokers"}

Requests == [request : {"subscribe", "query"}, filter : Filters, session : Nat]

PlanLength == Len(topics) + 4

\* The plan subscribes first and ends with the two queries of the session.
LEMMA PlanShape ==
    ASSUME session \in Nat, topics \in Seq(STRING)
    PROVE  /\ Plan \in Seq(Requests) /\ Len(Plan) = PlanLength /\ PlanLength \in Nat
           /\ \A i \in 1 .. PlanLength : /\ Plan[i] \in Requests /\ Plan[i].session = session
                                         /\ IsSubscription(Plan[i]) <=> i <= PlanLength - 2
           /\ Plan[PlanLength - 1] = Query("services") /\ Plan[PlanLength] = Query("brokers")
<1> DEFINE first == <<Subscribe(ReplyTopic), Subscribe(DxlTopics)>>
           middle == [i \in DOMAIN topics |-> Subscribe(topics[i])]
           last == <<Query("services"), Query("brokers")>>
           n == Len(topics)
<1>1. /\ n \in Nat /\ DOMAIN topics = 1 .. n
      /\ \A i \in 1 .. n : topics[i] \in Filters
  BY LenProperties, ElementOfSeq DEF Filters
<1>2. /\ \A f \in Filters : /\ Subscribe(f) \in Requests /\ Subscribe(f).session = session
                            /\ Subscribe(f).request = "subscribe"
      /\ \A r \in Filters : /\ Query(r) \in Requests /\ Query(r).session = session
                           /\ Query(r).request = "query"
  BY DEF Requests, Filters, Subscribe, Query
<1>3. Subscribe(ReplyTopic) \in Requests /\ Subscribe(DxlTopics) \in Requests
      /\ Query("services") \in Requests /\ Query("brokers") \in Requests
  BY <1>2 DEF Filters
<1>4. first \in Seq(Requests) /\ Len(first) = 2
      /\ first[1] = Subscribe(ReplyTopic) /\ first[2] = Subscribe(DxlTopics)
  BY <1>3
<1>5. last \in Seq(Requests) /\ Len(last) = 2
      /\ last[1] = Query("services") /\ last[2] = Query("brokers")
  BY <1>3
<1>6. middle \in Seq(Requests) /\ Len(middle) = n
      /\ \A i \in 1 .. n : middle[i] = Subscribe(topics[i])
  BY <1>1, <1>2
<1> DEFINE front == first \o middle
<1>7. Plan = front \o last
  BY DEF Plan
<1> HIDE DEF first, middle, last
<1>8. /\ front \in Seq(Requests) /\ Len(front) = 2 + n
      /\ \A i \in 1 .. 2 + n : front[i] = IF i <= 2 THEN first[i] ELSE middle[i - 2]
  <2>1. /\ front \in Seq(Requests) /\ Len(front) = Len(first) + Len(middle)
        /\ \A i \in 1 .. Len(first) + Len(middle) :
              front[i] = IF i <= Len(first) THEN first[i] ELSE middle[i - Len(first)]
    <3>1. front \in Seq(Requests) /\ Len(front) = Len(first) + Len(middle)
      BY <1>4, <1>6, ConcatProperties
    <3>2. \A i \in 1 .. Len(first) + Len(middle) :
             front[i] = IF i <= Len(first) THEN first[i] ELSE middle[i - Len(first)]
      <4>1. first \in Seq(Requests) /\ middle \in Seq(Requests)
        BY <1>4, <1>6
      <4> QED BY <4>1, ConcatProperties
    <3> QED BY <3>1, <3>2
  <2> QED BY <2>1, <1>4, <1>6
<1> HIDE DEF front
<1>9. /\ Plan \in Seq(Requests) /\ Len(Plan) = n + 4
      /\ \A i \in 1 .. n + 4 : Plan[i] = IF i <= 2 + n THEN front[i] ELSE last[i - (2 + n)]
  <2>1. /\ Plan \in Seq(Requests) /\ Len(Plan) = Len(front) + Len(last)
        /\ \A i \in 1 .. Len(front) + Len(last) :
              Plan[i] = IF i <= Len(front) THEN front[i] ELSE last[i - Len(front)]
    BY <1>5, <1>7, <1>8, ConcatProperties
  <2>2. (2 + n) + 2 = n + 4
    BY <1>1
  <2> QED BY <2>1, <2>2, <1>5, <1>8
<1>10. \A i \in 1 .. 2 + n : front[i].session = session /\ front[i].request = "subscribe"
  <2> SUFFICES ASSUME NEW i \in 1 .. 2 + n
               PROVE  front[i].session = session /\ front[i].request = "subscribe"
    OBVIOUS
  <2>1. CASE i <= 2
    <3>1. front[i] \in {Subscribe(ReplyTopic), Subscribe(DxlTopics)}
      BY <2>1, <1>1, <1>4, <1>8
    <3>2. ReplyTopic \in Filters /\ DxlTopics \in Filters
      BY DEF Filters
    <3> QED BY <3>1, <3>2, <1>2
  <2>2. CASE ~(i <= 2)
    <3>1. i - 2 \in 1 .. n
      BY <2>2, <1>1
    <3>2. front[i] = Subscribe(topics[i - 2])
      BY <2>2, <3>1, <1>6, <1>8
    <3> QED BY <3>1, <3>2, <1>1, <1>2
  <2> QED BY <2>1, <2>2
<1>11. Plan[n + 3] = Query("services") /\ Plan[n + 4] = Query("brokers")
  <2>1. n + 3 \in 1 .. n + 4 /\ n + 4 \in 1 .. n + 4 /\ ~(n + 3 <= 2 + n) /\ ~(n + 4 <= 2 + n)
        /\ (n + 3) - (2 + n) = 1 /\ (n + 4) - (2 + n) = 2
    BY <1>1
  <2> QED BY <2>1, <1>5, <1>9
<1>12. ASSUME NEW i \in 1 .. n + 4
       PROVE  /\ Plan[i] \in Requests /\ Plan[i].session = session
              /\ IsSubscription(Plan[i]) <=> i <= n + 2
  <2>1. Plan[i] \in Requests
    BY <1>9, ElementOfSeq
  <2>2. CASE i <= n + 2
    <3>1. i \in 1 .. 2 + n /\ Plan[i] = front[i]
      BY <2>2, <1>1, <1>9
    <3> QED BY <2>1, <2>2, <3>1, <1>10 DEF IsSubscription
  <2>3. CASE ~(i <= n + 2)
    <3>1. i = n + 3 \/ i = n + 4
      BY <2>3, <1>1
    <3>2. "services" \in Filters /\ "brokers" \in Filters
      BY DEF Filters
    <3>3. Plan[i].session = session /\ Plan[i].request = "query"
      BY <3>1, <3>2, <1>2, <1>11
    <3> QED BY <2>1, <2>3, <3>3 DEF IsSubscription
  <2> QED BY <2>2, <2>3
<1>13. PlanLength = n + 4 /\ PlanLength - 1 = n + 3 /\ PlanLength - 2 = n + 2
  BY <1>1 DEF PlanLength
<1> QED BY <1>1, <1>9, <1>11, <1>12, <1>13

-----------------------------------------------------------------------------
(* Types *)

TypeOK == /\ pc \in {"poll", "handler"}
          /\ step \in 1 .. PlanLength + 1
          /\ queue \in Seq(Requests) /\ kept \in Seq(Requests) /\ wire \in Seq(Requests)
          /\ conn \in {"down", "connack", "up"}
          /\ session \in Nat /\ query \in 0 .. session
          /\ topics \in Seq(STRING)

\* The broker got m requests of earlier sessions and then the first n of the
\* plan; what the handler has asked for since then is queued.
InPlanOrder(m, n) ==
    /\ Len(wire) = m + n /\ Len(queue) = step - 1 - n
    /\ \A i \in 1 .. m : wire[i].session < session
    /\ \A i \in 1 .. n : wire[m + i] = Plan[i]
    /\ \A i \in 1 .. Len(queue) : queue[i] = Plan[n + i]
    /\ n > 0 => kept = <<>>

\* The strengthening of both safety properties.
SyncInv ==
    /\ pc = "handler" => conn = "up"
    /\ conn # "up" => queue = <<>> /\ wire = <<>>
    /\ conn = "down" => \A i \in 1 .. Len(kept) : kept[i].session <= session
    /\ conn # "down" => \A i \in 1 .. Len(kept) : kept[i].session < session
    /\ conn = "connack" => query < session
    /\ conn = "up" /\ query = session => step > PlanLength
    /\ conn = "up" => \E m, n \in 0 .. Len(wire) : InPlanOrder(m, n)

\* Shapes of the two operations on the sequences.
LEMMA Appended ==
    ASSUME NEW T, NEW q \in Seq(T), NEW e \in T
    PROVE  /\ Append(q, e) \in Seq(T)
           /\ Len(q) \in Nat /\ Len(Append(q, e)) = Len(q) + 1
           /\ \A i \in 1 .. Len(q) : Append(q, e)[i] = q[i]
           /\ Append(q, e)[Len(q) + 1] = e
BY AppendProperties, LenProperties

LEMMA Taken ==
    ASSUME NEW T, NEW q \in Seq(T), q # <<>>
    PROVE  /\ Head(q) \in T /\ Head(q) = q[1] /\ Tail(q) \in Seq(T)
           /\ Len(q) \in Nat \ {0} /\ Len(Tail(q)) = Len(q) - 1
           /\ \A i \in 1 .. Len(q) - 1 : Tail(q)[i] = q[i + 1]
BY HeadTailProperties, EmptySeq

LEMMA PlanUnchanged == UNCHANGED <<session, topics>> => Plan' = Plan
BY DEF Plan, Subscribe, Query

LEMMA SyncInit == Init => TypeOK /\ SyncInv
<1> SUFFICES ASSUME Init PROVE TypeOK /\ SyncInv
  OBVIOUS
<1>1. topics \in Seq(STRING)
  BY SubscribeSyncAssumption DEF Init
<1>2. PlanLength \in Nat
  BY <1>1, LenProperties DEF PlanLength
<1>3. <<>> \in Seq(Requests) /\ Len(<<>>) = 0
  BY EmptySeq
<1> QED BY <1>1, <1>2, <1>3 DEF Init, TypeOK, SyncInv

LEMMA ConnAckKeeps == TypeOK /\ SyncInv /\ ConnAck => (TypeOK /\ SyncInv)'
<1> SUFFICES ASSUME TypeOK, SyncInv, ConnAck PROVE (TypeOK /\ SyncInv)'
  OBVIOUS
<1>1. PlanLength \in Nat /\ PlanLength' = PlanLength
  BY LenProperties DEF PlanLength, TypeOK, ConnAck
<1>2. Len(<<>>) = 0
  BY EmptySeq
<1>3. wire = <<>> /\ queue = <<>>
  BY DEF ConnAck, SyncInv
<1>4. InPlanOrder(0, 0)'
  BY <1>2, <1>3 DEF ConnAck, InPlanOrder
<1>5. TypeOK'
  BY <1>1 DEF ConnAck, TypeOK
<1> QED BY <1>1, <1>2, <1>3, <1>4, <1>5 DEF ConnAck, SyncInv, TypeOK

LEMMA SendKeptKeeps == TypeOK /\ SyncInv /\ SendKept => (TypeOK /\ SyncInv)'
<1> SUFFICES ASSUME TypeOK, SyncInv, SendKept PROVE (TypeOK /\ SyncInv)'
  OBVIOUS
<1>0. Plan' = Plan /\ session' = session /\ PlanLength' = PlanLength
  BY PlanUnchanged DEF SendKept, PlanLength
<1>1. wire' = Append(wire, Head(kept)) /\ kept' = Tail(kept) /\ kept # <<>>
      /\ UNCHANGED <<pc, step, queue, conn, session, query, refused, topics>> /\ conn = "up"
  BY DEF SendKept
<1>2. /\ Head(kept) \in Requests /\ Head(kept) = kept[1] /\ kept' \in Seq(Requests)
      /\ Len(kept) \in Nat \ {0} /\ Len(kept') = Len(kept) - 1
      /\ \A i \in 1 .. Len(kept) - 1 : kept'[i] = kept[i + 1]
  BY <1>1, Taken DEF TypeOK
<1>3. /\ wire' \in Seq(Requests) /\ Len(wire) \in Nat /\ Len(wire') = Len(wire) + 1
      /\ \A i \in 1 .. Len(wire) : wire'[i] = wire[i]
      /\ wire'[Len(wire) + 1] = kept[1]
  BY <1>1, <1>2, Appended DEF TypeOK
<1>4. TypeOK'
  BY <1>0, <1>1, <1>2, <1>3 DEF TypeOK
<1>5. kept[1].session < session /\ \A i \in 1 .. Len(kept') : kept'[i].session < session
  <2>1. \A i \in 1 .. Len(kept) : kept[i].session < session
    BY <1>1 DEF SyncInv
  <2>2. 1 \in 1 .. Len(kept) /\ \A i \in 1 .. Len(kept') : i + 1 \in 1 .. Len(kept)
    BY <1>2
  <2> QED BY <1>2, <2>1, <2>2
<1>6. PICK m \in 0 .. Len(wire), n \in 0 .. Len(wire) : InPlanOrder(m, n)
  BY <1>1 DEF SyncInv
<1>7. n = 0 /\ Len(wire) = m
  BY <1>1, <1>3, <1>6 DEF InPlanOrder
<1>8. InPlanOrder(m + 1, 0)'
  <2>1. Len(wire') = m + 1 + 0 /\ Len(queue') = step' - 1 - 0
    BY <1>1, <1>3, <1>6, <1>7 DEF InPlanOrder
  <2>2. \A i \in 1 .. m + 1 : wire'[i].session < session
    <3> SUFFICES ASSUME NEW i \in 1 .. m + 1 PROVE wire'[i].session < session
      OBVIOUS
    <3>1. i \in 1 .. m \/ i = Len(wire) + 1
      BY <1>3, <1>7
    <3> QED BY <3>1, <1>3, <1>5, <1>6, <1>7 DEF InPlanOrder
  <2>3. \A i \in 1 .. Len(queue') : queue'[i] = Plan'[0 + i]
    BY <1>0, <1>1, <1>6, <1>7 DEF InPlanOrder
  <2> QED BY <2>1, <2>2, <2>3, <1>0 DEF InPlanOrder
<1>9. m + 1 \in 0 .. Len(wire') /\ 0 \in 0 .. Len(wire')
  BY <1>3, <1>7
<1> QED BY <1>0, <1>1, <1>4, <1>5, <1>8, <1>9 DEF SyncInv

LEMMA SendQueuedKeeps == TypeOK /\ SyncInv /\ SendQueued => (TypeOK /\ SyncInv)'
<1> SUFFICES ASSUME TypeOK, SyncInv, SendQueued PROVE (TypeOK /\ SyncInv)'
  OBVIOUS
<1>0. Plan' = Plan /\ session' = session /\ PlanLength' = PlanLength
  BY PlanUnchanged DEF SendQueued, PlanLength
<1>1. wire' = Append(wire, Head(queue)) /\ queue' = Tail(queue) /\ queue # <<>> /\ kept = <<>>
      /\ UNCHANGED <<pc, step, kept, conn, session, query, refused, topics>> /\ conn = "up"
  BY DEF SendQueued
<1>2. /\ Head(queue) \in Requests /\ Head(queue) = queue[1] /\ queue' \in Seq(Requests)
      /\ Len(queue) \in Nat \ {0} /\ Len(queue') = Len(queue) - 1
      /\ \A i \in 1 .. Len(queue) - 1 : queue'[i] = queue[i + 1]
  BY <1>1, Taken DEF TypeOK
<1>3. /\ wire' \in Seq(Requests) /\ Len(wire) \in Nat /\ Len(wire') = Len(wire) + 1
      /\ \A i \in 1 .. Len(wire) : wire'[i] = wire[i]
      /\ wire'[Len(wire) + 1] = queue[1]
  BY <1>1, <1>2, Appended DEF TypeOK
<1>4. TypeOK'
  BY <1>0, <1>1, <1>2, <1>3 DEF TypeOK
<1>5. PICK m \in 0 .. Len(wire), n \in 0 .. Len(wire) : InPlanOrder(m, n)
  BY <1>1 DEF SyncInv
<1>6. Len(wire) = m + n /\ Len(queue) = step - 1 - n
  BY <1>5 DEF InPlanOrder
<1>7. InPlanOrder(m, n + 1)'
  <2>1. Len(wire') = m + (n + 1) /\ Len(queue') = step' - 1 - (n + 1)
    <3>1. step' = step /\ step \in Int /\ PlanLength \in Nat
      BY <1>1, PlanShape DEF TypeOK
    <3> QED BY <3>1, <1>2, <1>3, <1>6
  <2>2. \A i \in 1 .. m : wire'[i].session < session
    <3>1. \A i \in 1 .. m : i \in 1 .. Len(wire)
      BY <1>3, <1>6
    <3> QED BY <3>1, <1>3, <1>5 DEF InPlanOrder
  <2>3. \A i \in 1 .. n + 1 : wire'[m + i] = Plan[i]
    <3> SUFFICES ASSUME NEW i \in 1 .. n + 1 PROVE wire'[m + i] = Plan[i]
      OBVIOUS
    <3>1. CASE i \in 1 .. n
      <4>1. m + i \in 1 .. Len(wire)
        BY <3>1, <1>3, <1>6
      <4> QED BY <3>1, <4>1, <1>3, <1>5 DEF InPlanOrder
    <3>2. CASE i = n + 1
      <4>1. m + i = Len(wire) + 1 /\ 1 \in 1 .. Len(queue)
        BY <3>2, <1>2, <1>6
      <4>2. queue[1] = Plan[n + 1]
        BY <4>1, <1>5 DEF InPlanOrder
      <4> QED BY <3>2, <4>1, <4>2, <1>3
    <3> QED BY <3>1, <3>2
  <2>4. \A i \in 1 .. Len(queue') : queue'[i] = Plan[(n + 1) + i]
    <3> SUFFICES ASSUME NEW i \in 1 .. Len(queue') PROVE queue'[i] = Plan[(n + 1) + i]
      OBVIOUS
    <3>1. i \in 1 .. Len(queue) - 1 /\ i + 1 \in 1 .. Len(queue) /\ n + (i + 1) = (n + 1) + i
      BY <1>2
    <3>2. queue[i + 1] = Plan[n + (i + 1)]
      BY <3>1, <1>5 DEF InPlanOrder
    <3> QED BY <3>1, <3>2, <1>2
  <2> QED BY <2>1, <2>2, <2>3, <2>4, <1>0, <1>1 DEF InPlanOrder
<1>8. m \in 0 .. Len(wire') /\ n + 1 \in 0 .. Len(wire')
  BY <1>3, <1>6
<1> QED BY <1>0, <1>1, <1>4, <1>7, <1>8 DEF SyncInv

LEMMA RequestKeeps == TypeOK /\ SyncInv /\ Request => (TypeOK /\ SyncInv)'
<1> SUFFICES ASSUME TypeOK, SyncInv, Request PROVE (TypeOK /\ SyncInv)'
  OBVIOUS
<1>0. Plan' = Plan /\ session' = session /\ PlanLength' = PlanLength
  BY PlanUnchanged DEF Request, PlanLength
<1>1. queue' = Append(queue, Plan[step]) /\ step' = step + 1
      /\ UNCHANGED <<pc, kept, wire, conn, session, query, refused, topics>> /\ conn = "up"
  BY DEF Request, SyncInv
<1>2. step \in 1 .. PlanLength /\ PlanLength \in Nat /\ Plan[step] \in Requests
  <2>1. session \in Nat /\ topics \in Seq(STRING) /\ step >= 1 /\ step \in Int /\ step <= Len(Plan)
    BY DEF Request, TypeOK
  <2> QED BY <2>1, PlanShape
<1>3. /\ queue' \in Seq(Requests) /\ Len(queue) \in Nat /\ Len(queue') = Len(queue) + 1
      /\ \A i \in 1 .. Len(queue) : queue'[i] = queue[i]
      /\ queue'[Len(queue) + 1] = Plan[step]
  BY <1>1, <1>2, Appended DEF TypeOK
<1>4. TypeOK'
  BY <1>0, <1>1, <1>2, <1>3 DEF TypeOK
<1>5. PICK m \in 0 .. Len(wire), n \in 0 .. Len(wire) : InPlanOrder(m, n)
  BY <1>1 DEF SyncInv
<1>6. Len(queue) = step - 1 - n
  BY <1>5 DEF InPlanOrder
<1>7. InPlanOrder(m, n)'
  <2>1. \A i \in 1 .. Len(queue') : queue'[i] = Plan[n + i]
    <3> SUFFICES ASSUME NEW i \in 1 .. Len(queue') PROVE queue'[i] = Plan[n + i]
      OBVIOUS
    <3>1. CASE i \in 1 .. Len(queue)
      BY <3>1, <1>3, <1>5 DEF InPlanOrder
    <3>2. CASE i = Len(queue) + 1
      <4>1. n + i = step
        BY <3>2, <1>2, <1>3, <1>6
      <4> QED BY <3>2, <4>1, <1>3
    <3> QED BY <3>1, <3>2, <1>3
  <2>2. Len(queue') = step' - 1 - n
    BY <1>1, <1>2, <1>3, <1>6
  <2> QED BY <2>1, <2>2, <1>0, <1>1, <1>5 DEF InPlanOrder
<1> QED BY <1>0, <1>1, <1>2, <1>4, <1>7 DEF SyncInv

LEMMA LeaveKeeps == TypeOK /\ SyncInv /\ (Refuse \/ Return) => (TypeOK /\ SyncInv)'
<1> SUFFICES ASSUME TypeOK, SyncInv, Refuse \/ Return PROVE (TypeOK /\ SyncInv)'
  OBVIOUS
<1>0. Plan' = Plan /\ session' = session /\ PlanLength' = PlanLength
  BY PlanUnchanged DEF Refuse, Return, PlanLength
<1>1. UNCHANGED <<step, queue, kept, wire, conn, session, topics>> /\ pc' = "poll" /\ conn = "up"
  BY DEF Refuse, Return, SyncInv
<1>2. query' = query \/ (query' = session /\ step > PlanLength)
  BY PlanShape DEF Refuse, Return, TypeOK
<1>3. TypeOK'
  BY <1>0, <1>1, <1>2 DEF TypeOK
<1>4. \A m, n : InPlanOrder(m, n)' <=> InPlanOrder(m, n)
  BY <1>0, <1>1 DEF InPlanOrder
<1> QED BY <1>0, <1>1, <1>2, <1>3, <1>4 DEF SyncInv

LEMMA ConnectionErrorKeeps == TypeOK /\ SyncInv /\ ConnectionError => (TypeOK /\ SyncInv)'
<1> SUFFICES ASSUME TypeOK, SyncInv, ConnectionError PROVE (TypeOK /\ SyncInv)'
  OBVIOUS
<1>0. PlanLength' = PlanLength
  BY DEF PlanLength, ConnectionError
<1>1. conn # "down" /\ conn' = "down" /\ queue' = <<>> /\ wire' = <<>> /\ pc = "poll"
      /\ UNCHANGED <<pc, step, session, query, refused, topics>> /\ kept' \in {kept \o queue, <<>>}
  BY DEF ConnectionError
<1>2. <<>> \in Seq(Requests) /\ Len(<<>>) = 0
  BY EmptySeq
<1>3. /\ kept \o queue \in Seq(Requests)
      /\ Len(kept) \in Nat /\ Len(queue) \in Nat /\ Len(kept \o queue) = Len(kept) + Len(queue)
      /\ \A i \in 1 .. Len(kept) + Len(queue) :
            (kept \o queue)[i] = IF i <= Len(kept) THEN kept[i] ELSE queue[i - Len(kept)]
  BY ConcatProperties, LenProperties DEF TypeOK
<1>4. TypeOK'
  BY <1>0, <1>1, <1>2, <1>3 DEF TypeOK
<1>5. /\ session \in Nat /\ topics \in Seq(STRING)
      /\ \A i \in 1 .. Len(kept) : kept[i].session < session
  BY <1>1 DEF SyncInv, TypeOK
<1>6. \A i \in 1 .. Len(queue) : queue[i].session = session
  <2> SUFFICES ASSUME NEW i \in 1 .. Len(queue) PROVE queue[i].session = session
    OBVIOUS
  <2>1. conn = "up"
    <3>1. Len(queue) # 0
      BY <1>3
    <3> QED BY <3>1, <1>2 DEF SyncInv
  <2>2. PICK m \in 0 .. Len(wire), n \in 0 .. Len(wire) : InPlanOrder(m, n)
    BY <2>1 DEF SyncInv
  <2>3. n + i \in 1 .. PlanLength
    <3>1. Len(queue) = step - 1 - n /\ PlanLength \in Nat
      BY <2>2, <1>5, PlanShape DEF InPlanOrder
    <3> QED BY <3>1 DEF TypeOK
  <2> QED BY <2>2, <2>3, <1>5, PlanShape DEF InPlanOrder
<1>7. \A i \in 1 .. Len(kept') : kept'[i].session <= session
  <2>1. CASE kept' = <<>>
    BY <2>1, <1>2
  <2>2. CASE kept' = kept \o queue
    <3> SUFFICES ASSUME NEW i \in 1 .. Len(kept) + Len(queue)
                 PROVE  (kept \o queue)[i].session <= session
      BY <2>2, <1>3
    <3>1. CASE i <= Len(kept)
      <4>1. i \in 1 .. Len(kept) /\ kept[i] \in Requests
        BY <3>1, <1>3, ElementOfSeq DEF TypeOK
      <4>2. kept[i].session \in Nat
        BY <4>1 DEF Requests
      <4> QED BY <3>1, <4>1, <4>2, <1>3, <1>5
    <3>2. CASE ~(i <= Len(kept))
      <4>1. i - Len(kept) \in 1 .. Len(queue)
        BY <3>2, <1>3
      <4>2. (kept \o queue)[i].session = session
        BY <3>2, <4>1, <1>3, <1>6
      <4> QED BY <4>2, <1>5
    <3> QED BY <3>1, <3>2
  <2> QED BY <2>1, <2>2, <1>1
<1> QED BY <1>0, <1>1, <1>4, <1>7 DEF SyncInv

LEMMA ConnectKeeps == TypeOK /\ SyncInv /\ Connect => (TypeOK /\ SyncInv)'
<1> SUFFICES ASSUME TypeOK, SyncInv, Connect PROVE (TypeOK /\ SyncInv)'
  OBVIOUS
<1>0. PlanLength' = PlanLength
  BY DEF PlanLength, Connect
<1>1. conn = "down" /\ conn' = "connack" /\ session' = session + 1 /\ pc = "poll"
      /\ UNCHANGED <<pc, step, queue, kept, wire, query, refused, topics>>
  BY DEF Connect
<1>2. TypeOK'
  BY <1>0, <1>1 DEF TypeOK
<1>3. \A i \in 1 .. Len(kept) : kept[i].session < session + 1
  <2> SUFFICES ASSUME NEW i \in 1 .. Len(kept) PROVE kept[i].session < session + 1
    OBVIOUS
  <2>1. kept[i] \in Requests
    BY ElementOfSeq DEF TypeOK
  <2>2. kept[i].session \in Nat
    BY <2>1 DEF Requests
  <2> QED BY <2>2, <1>1 DEF SyncInv, TypeOK
<1> QED BY <1>0, <1>1, <1>2, <1>3 DEF SyncInv, TypeOK

LEMMA NextKeeps == TypeOK /\ SyncInv /\ [Next]_vars => (TypeOK /\ SyncInv)'
<1>1. ASSUME TypeOK, SyncInv, UNCHANGED vars PROVE (TypeOK /\ SyncInv)'
  <2>1. Plan' = Plan /\ PlanLength' = PlanLength
    BY <1>1, PlanUnchanged DEF vars, PlanLength
  <2>2. \A m, n : InPlanOrder(m, n)' <=> InPlanOrder(m, n)
    BY <1>1, <2>1 DEF vars, InPlanOrder
  <2> QED BY <1>1, <2>1, <2>2 DEF vars, TypeOK, SyncInv
<1> QED BY <1>1, ConnAckKeeps, SendKeptKeeps, SendQueuedKeeps, RequestKeeps, LeaveKeeps,
           ConnectionErrorKeeps, ConnectKeeps DEF Next, Loop

LEMMA SyncCorrect == Spec => [](TypeOK /\ SyncInv)
<1>1. Init => TypeOK /\ SyncInv
  BY SyncInit
<1>2. (TypeOK /\ SyncInv) /\ [Next]_vars => (TypeOK /\ SyncInv)'
  BY NextKeeps
<1> QED BY <1>1, <1>2, PTL DEF Spec

-----------------------------------------------------------------------------
(* The theorems *)

\* No query of a session reaches the broker before all of the session's
\* subscriptions, whatever of earlier sessions it gets first.
THEOREM SubscribedBeforeAsked == Spec => []QueriesFollowSubscriptions
<1>1. TypeOK /\ SyncInv => QueriesFollowSubscriptions
  <2> SUFFICES ASSUME TypeOK, SyncInv,
                      NEW i \in DOMAIN wire, wire[i].request = "query", wire[i].session = session,
                      NEW j \in DOMAIN Plan, IsSubscription(Plan[j])
               PROVE  \E k \in 1 .. i - 1 : wire[k] = Plan[j]
    BY DEF QueriesFollowSubscriptions
  <2>1. /\ session \in Nat /\ topics \in Seq(STRING)
        /\ Len(wire) \in Nat /\ i \in 1 .. Len(wire)
    BY LenProperties DEF TypeOK
  <2>2. conn = "up"
    <3>1. wire # <<>>
      BY <2>1, EmptySeq
    <3> QED BY <3>1 DEF SyncInv
  <2>3. PICK m \in 0 .. Len(wire), n \in 0 .. Len(wire) : InPlanOrder(m, n)
    BY <2>2 DEF SyncInv
  <2>4. Len(wire) = m + n /\ n <= PlanLength /\ PlanLength \in Nat
    <3>1. Len(queue) \in Nat /\ PlanLength \in Nat /\ Len(queue) = step - 1 - n
      BY <2>1, <2>3, PlanShape, LenProperties DEF TypeOK, InPlanOrder
    <3> QED BY <3>1, <2>3 DEF TypeOK, InPlanOrder
  <2>5. ~(i \in 1 .. m)
    BY <2>1, <2>3 DEF InPlanOrder
  <2>6. i - m \in 1 .. n /\ m + (i - m) = i
    BY <2>1, <2>4, <2>5
  <2>7. wire[i] = Plan[i - m]
    BY <2>3, <2>6 DEF InPlanOrder
  <2>8. i - m > PlanLength - 2
    <3>1. i - m \in 1 .. PlanLength /\ ~IsSubscription(Plan[i - m])
      BY <2>4, <2>6, <2>7 DEF IsSubscription
    <3> QED BY <3>1, <2>1, <2>4, PlanShape
  <2>9. j \in 1 .. PlanLength /\ j <= PlanLength - 2
    <3>1. j \in 1 .. PlanLength
      BY <2>1, PlanShape, LenProperties
    <3> QED BY <3>1, <2>1, PlanShape
  <2>10. j \in 1 .. n /\ m + j \in 1 .. i - 1
    BY <2>1, <2>4, <2>6, <2>8, <2>9
  <2>11. wire[m + j] = Plan[j]
    BY <2>3, <2>10 DEF InPlanOrder
  <2> QED BY <2>10, <2>11
<1> QED BY <1>1, SyncCorrect, PTL

\* While the loop waits for the replies of a session, both queries have been
\* handed to the client: no interrupted handler leaves an id behind.
THEOREM NothingAwaitedUnasked == Spec => []AwaitedIsAsked
<1>1. TypeOK /\ SyncInv => AwaitedIsAsked
  <2> SUFFICES ASSUME TypeOK, SyncInv, conn = "up", query = session,
                      NEW q \in {Query("services"), Query("brokers")}
               PROVE  q \in {wire[i] : i \in DOMAIN wire} \cup {queue[i] : i \in DOMAIN queue}
    BY DEF AwaitedIsAsked
  <2>1. /\ session \in Nat /\ topics \in Seq(STRING)
        /\ Len(wire) \in Nat /\ DOMAIN wire = 1 .. Len(wire)
        /\ Len(queue) \in Nat /\ DOMAIN queue = 1 .. Len(queue)
    BY LenProperties DEF TypeOK
  <2>2. PICK m \in 0 .. Len(wire), n \in 0 .. Len(wire) : InPlanOrder(m, n)
    BY DEF SyncInv
  <2>3. PlanLength \in Nat /\ step = PlanLength + 1
    BY <2>1, PlanShape DEF SyncInv, TypeOK
  <2>4. PICK p \in 1 .. PlanLength : q = Plan[p]
    <3>1. PlanLength - 1 \in 1 .. PlanLength /\ PlanLength \in 1 .. PlanLength
      BY LenProperties DEF PlanLength, TypeOK
    <3> QED BY <3>1, <2>1, PlanShape
  <2>5. Len(wire) = m + n /\ Len(queue) = PlanLength - n
    BY <2>2, <2>3 DEF InPlanOrder
  <2>6. CASE p <= n
    <3>1. p \in 1 .. n /\ m + p \in 1 .. Len(wire)
      BY <2>6, <2>1, <2>5
    <3>2. wire[m + p] = q
      BY <3>1, <2>2, <2>4 DEF InPlanOrder
    <3> QED BY <3>1, <3>2, <2>1
  <2>7. CASE ~(p <= n)
    <3>1. p - n \in 1 .. Len(queue) /\ n + (p - n) = p
      BY <2>7, <2>1, <2>3, <2>5
    <3>2. queue[p - n] = q
      BY <3>1, <2>2, <2>4 DEF InPlanOrder
    <3> QED BY <3>1, <3>2, <2>1
  <2> QED BY <2>6, <2>7
<1> QED BY <1>1, SyncCorrect, PTL

-----------------------------------------------------------------------------
(* The end of the handler *)

\* While the handler runs nothing leaves the queue, and it met no refused filter.
HandlerInv ==
    pc = "handler" => /\ Len(queue) = step - 1 /\ step - 1 <= Capacity
                      /\ \A i \in 1 .. step - 1 : Plan[i].filter \notin refused

LEMMA HandlerKeeps == TypeOK /\ SyncInv /\ HandlerInv /\ [Next]_vars => HandlerInv'
<1> SUFFICES ASSUME TypeOK, SyncInv, HandlerInv, [Next]_vars, pc' = "handler"
             PROVE  /\ Len(queue') = step' - 1 /\ step' - 1 <= Capacity
                    /\ \A i \in 1 .. step' - 1 : Plan'[i].filter \notin refused'
  BY DEF HandlerInv
<1>1. CASE ConnAck
  <2>1. step' = 1 /\ queue' = <<>> /\ Len(<<>>) = 0
    BY <1>1, EmptySeq DEF ConnAck, SyncInv
  <2> QED BY <2>1, SubscribeSyncAssumption
<1>2. CASE Request
  <2>1. Plan' = Plan /\ refused' = refused /\ pc = "handler"
    BY <1>2, PlanUnchanged DEF Request
  <2>2. /\ session \in Nat /\ topics \in Seq(STRING) /\ queue \in Seq(Requests)
        /\ step \in Int /\ step >= 1 /\ step <= Len(Plan)
    BY <1>2, PlanShape DEF Request, TypeOK
  <2>3. Plan[step] \in Requests
    BY <2>2, PlanShape
  <2>4. Len(queue') = Len(queue) + 1 /\ step' = step + 1
    BY <1>2, <2>2, <2>3, Appended DEF Request
  <2>5. \A i \in 1 .. step : i \in 1 .. step - 1 \/ i = step
    BY <2>2
  <2>6. /\ Len(queue) = step - 1 /\ Len(queue) < Capacity /\ Plan[step].filter \notin refused
        /\ \A i \in 1 .. step - 1 : Plan[i].filter \notin refused
    BY <1>2, <2>1 DEF Request, HandlerInv
  <2>7. step' - 1 = step /\ Len(queue') = step /\ step <= Capacity
    BY <2>2, <2>4, <2>6, SubscribeSyncAssumption
  <2> QED BY <2>1, <2>5, <2>6, <2>7
<1>3. CASE UNCHANGED vars
  <2>1. Plan' = Plan
    BY <1>3, PlanUnchanged DEF vars
  <2> QED BY <1>3, <2>1 DEF vars, HandlerInv
<1> QED BY <1>1, <1>2, <1>3
        DEF Next, Loop, SendKept, SendQueued, Refuse, Return, ConnectionError, Connect

\* The handler leaves only if its requests fit into the queue: one that asks for
\* more never gives the event loop back.
THEOREM ReturnsOnlyIfItFits == Spec => [][pc = "handler" /\ pc' = "poll" => PlanFits]_vars
<1>1. Init => HandlerInv
  BY DEF Init, HandlerInv
<1>2. TypeOK /\ SyncInv /\ HandlerInv /\ [Next]_vars => (pc = "handler" /\ pc' = "poll" => PlanFits)
  <2> SUFFICES ASSUME TypeOK, SyncInv, HandlerInv, [Next]_vars, pc = "handler", pc' = "poll",
                      NEW j \in DOMAIN Plan
               PROVE  j <= Capacity \/ \E i \in 1 .. j : Plan[i].filter \in refused
    BY DEF PlanFits
  <2>1. Refuse \/ Return
    BY DEF Next, Loop, vars, ConnAck, SendKept, SendQueued, Request, ConnectionError, Connect
  <2>2. session \in Nat /\ topics \in Seq(STRING) /\ step \in Int /\ step >= 1
    BY PlanShape DEF TypeOK
  <2>3. j \in 1 .. Len(Plan) /\ Len(Plan) \in Nat
    BY <2>2, PlanShape, LenProperties
  <2>4. step - 1 <= Capacity /\ Capacity \in Nat
    BY SubscribeSyncAssumption DEF HandlerInv
  <2>5. CASE Return
    BY <2>2, <2>3, <2>4, <2>5 DEF Return
  <2>6. CASE Refuse
    <3>1. Plan[step].filter \in refused
      BY <2>6 DEF Refuse
    <3>2. j <= Capacity \/ step \in 1 .. j
      BY <2>2, <2>3, <2>4
    <3> QED BY <3>1, <3>2
  <2> QED BY <2>1, <2>5, <2>6
<1> QED BY <1>1, <1>2, HandlerKeeps, SyncCorrect, PTL DEF Spec
================================================================================
