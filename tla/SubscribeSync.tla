---------------------------- MODULE SubscribeSync ----------------------------
(***************************************************************************)
(* The ConnAck handler subscribe_and_sync (src/src/main.rs), step by step. *)
(*                                                                         *)
(* The main loop is the only task that runs the MQTT event loop, and the   *)
(* handler runs inside it: while it waits for a place in the client's      *)
(* request queue, nothing takes a request out.  The request queue and the  *)
(* event loop are rumqttc's (external): poll() moves a request at a time   *)
(* to the broker; on a connection error what is queued is either kept, to  *)
(* be sent first in the next session, or lost.                             *)
(***************************************************************************)
EXTENDS Integers, Sequences

CONSTANTS ReplyTopic, DxlTopics,  \* /mcafee/client/<id>, /mcafee/event/dxl/#
          TopicLists,             \* lists of sensitive topics, those of the brokers left out
          Refusals,               \* sets of filters rumqttc may refuse
          Capacity,               \* places in the request queue: 100
          MaxSessions             \* bound on the connections made

ASSUME SubscribeSyncAssumption ==
    /\ TopicLists \subseteq Seq(STRING)
    /\ Capacity \in Nat \ {0}
    /\ MaxSessions \in Nat

VARIABLES pc,       \* "poll", or "handler" while subscribe_and_sync runs
          step,     \* the handler's next request
          queue,    \* requests waiting for the event loop
          kept,     \* requests of earlier sessions, to be sent first
          wire,     \* requests the broker got in this session
          conn,     \* "down", "connack" (not yet handled) or "up"
          session,  \* number of connections so far
          query,    \* session of the query ids the loop waits for, or 0
          refused,  \* the configured filters that are no valid filters
          topics    \* the configured sensitive topics

vars == <<pc, step, queue, kept, wire, conn, session, query, refused, topics>>

Subscribe(filter) == [request |-> "subscribe", filter |-> filter, session |-> session]

Query(registry) == [request |-> "query", filter |-> registry, session |-> session]

\* Mutant of Plan: the registries are asked for before the sensitive topics.
PlanQueriesFirst == <<Subscribe(ReplyTopic), Subscribe(DxlTopics)>>
                    \o <<Query("services"), Query("brokers")>>
                    \o [i \in DOMAIN topics |-> Subscribe(topics[i])]

\* Everything is subscribed to before the registries are asked for.
Plan == <<Subscribe(ReplyTopic), Subscribe(DxlTopics)>>
        \o [i \in DOMAIN topics |-> Subscribe(topics[i])]
        \o <<Query("services"), Query("brokers")>>

Init == /\ pc = "poll" /\ step = 1
        /\ queue = <<>> /\ kept = <<>> /\ wire = <<>>
        /\ conn = "down" /\ session = 0 /\ query = 0
        /\ refused \in Refusals /\ topics \in TopicLists

-----------------------------------------------------------------------------
(* The main loop *)

\* Mutant of ConnAck: the handler goes on where the last one ended.
ConnAckResumes == /\ pc = "poll" /\ conn = "connack"
                  /\ pc' = "handler"
                  /\ conn' = "up"
                  /\ UNCHANGED <<step, queue, kept, wire, session, query, refused, topics>>

\* poll() returns ConnAck: the handler starts, with an empty queue, since the
\* error that ended the last connection emptied it.
ConnAck == /\ pc = "poll" /\ conn = "connack"
           /\ pc' = "handler" /\ step' = 1
           /\ conn' = "up"
           /\ UNCHANGED <<queue, kept, wire, session, query, refused, topics>>

\* poll() hands a request to the broker, what was kept before what is queued.
SendKept == /\ pc = "poll" /\ conn = "up" /\ kept # <<>>
            /\ wire' = Append(wire, Head(kept))
            /\ kept' = Tail(kept)
            /\ UNCHANGED <<pc, step, queue, conn, session, query, refused, topics>>

SendQueued == /\ pc = "poll" /\ conn = "up" /\ kept = <<>> /\ queue # <<>>
              /\ wire' = Append(wire, Head(queue))
              /\ queue' = Tail(queue)
              /\ UNCHANGED <<pc, step, kept, conn, session, query, refused, topics>>

\* Mutant of Request: one place of the queue is never used.
RequestBelowCapacity == /\ pc = "handler" /\ step <= Len(Plan)
                        /\ Plan[step].filter \notin refused
                        /\ Len(queue) < Capacity - 1
                        /\ queue' = Append(queue, Plan[step])
                        /\ step' = step + 1
                        /\ UNCHANGED <<pc, kept, wire, conn, session, query, refused, topics>>

\* client.subscribe(..).await? and client.publish(..).await?
Request == /\ pc = "handler" /\ step <= Len(Plan)
           /\ Plan[step].filter \notin refused
           /\ Len(queue) < Capacity
           /\ queue' = Append(queue, Plan[step])
           /\ step' = step + 1
           /\ UNCHANGED <<pc, kept, wire, conn, session, query, refused, topics>>

\* Mutant of Refuse: the query ids are kept nevertheless.
RefuseButAwait == /\ pc = "handler" /\ step <= Len(Plan)
                  /\ Plan[step].filter \in refused
                  /\ pc' = "poll"
                  /\ query' = session
                  /\ UNCHANGED <<step, queue, kept, wire, conn, session, refused, topics>>

\* The ? of a refused request: the handler ends, the old query ids stay.
Refuse == /\ pc = "handler" /\ step <= Len(Plan)
          /\ Plan[step].filter \in refused
          /\ pc' = "poll"
          /\ UNCHANGED <<step, queue, kept, wire, conn, session, query, refused, topics>>

Return == /\ pc = "handler" /\ step > Len(Plan)
          /\ query' = session
          /\ pc' = "poll"
          /\ UNCHANGED <<step, queue, kept, wire, conn, session, refused, topics>>

\* poll() meets a lost connection; it is noticed nowhere else.
ConnectionError == /\ pc = "poll" /\ conn # "down"
                   /\ conn' = "down"
                   /\ kept' \in {kept \o queue, <<>>}
                   /\ queue' = <<>>
                   /\ wire' = <<>>
                   /\ UNCHANGED <<pc, step, session, query, refused, topics>>

\* poll() connects again.
Connect == /\ pc = "poll" /\ conn = "down" /\ session < MaxSessions
           /\ conn' = "connack"
           /\ session' = session + 1
           /\ UNCHANGED <<pc, step, queue, kept, wire, query, refused, topics>>

Loop == ConnAck \/ SendKept \/ SendQueued \/ Request \/ Refuse \/ Return \/ Connect

Next == Loop \/ ConnectionError

\* The main task keeps running; a connection need not break.
Spec == Init /\ [][Next]_vars /\ WF_vars(Loop)

-----------------------------------------------------------------------------
(* Properties *)

IsSubscription(r) == r.request = "subscribe"

\* The ids the loop waits for belong to queries that were handed to the client:
\* an error in the middle leaves no id behind that nothing was asked under.
AwaitedIsAsked ==
    (pc = "poll" /\ conn = "up" /\ query = session) =>
        {Query("services"), Query("brokers")}
            \subseteq {wire[i] : i \in DOMAIN wire} \cup {queue[i] : i \in DOMAIN queue}

\* The reply to a query whose id the loop waits for finds every subscription of
\* the session in force: no event between snapshot and subscription is missed,
\* with whatever of an earlier session the broker got first.
QueriesFollowSubscriptions ==
    \A i \in DOMAIN wire :
        (wire[i].request = "query" /\ wire[i].session = session) =>
            \A j \in DOMAIN Plan : IsSubscription(Plan[j]) =>
                \E k \in 1 .. i - 1 : wire[k] = Plan[j]

\* Whatever is asked for beyond the places of the queue comes after a filter that
\* is refused, which ends the handler without a place.
PlanFits == \A j \in DOMAIN Plan :
                j <= Capacity \/ \E i \in 1 .. j : Plan[i].filter \in refused

\* The handler comes to its end if and only if its requests fit into the queue,
\* which is empty when it starts: nothing takes a request out before it returns.
HandlerReturns == /\ (pc = "handler" /\ PlanFits) ~> (pc = "poll")
                  /\ [](pc = "handler" /\ ~PlanFits => [](pc = "handler"))

QueriesSent ==
    {Query("services"), Query("brokers")} \subseteq {wire[i] : i \in DOMAIN wire}

\* On a connection that lasts, with valid filters and a queue that has a place for
\* every request, the registries are asked for the current state of the fabric.
StateIsQueried ==
    [](conn = "connack" /\ refused = {} /\ PlanFits => <>(QueriesSent \/ conn = "down"))

\* README, Architecture: the same of every lasting connection with valid filters,
\* however many sensitive topics are configured.
AnyListIsQueried ==
    [](conn = "connack" /\ refused = {} => <>(QueriesSent \/ conn = "down"))
=============================================================================
