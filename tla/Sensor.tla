------------------------------- MODULE Sensor -------------------------------
(***************************************************************************)
(* The sensor's main loop (src/src/main.rs) around the detection engine,   *)
(* connected to a fabric of brokers.                                       *)
(*                                                                         *)
(* The sensor awaits what the MQTT event loop returns, handles it to the   *)
(* end, then checks whether a periodic poll is due.  The fabric is         *)
(* external: the home broker keeps a registry of services, publishes an    *)
(* event for each change of it, answers the two queries of a session, and  *)
(* reaps expired services.  Packets arrive in the order they were sent,    *)
(* and are lost when the connection goes; a reply may also come late, in a *)
(* later session, even for a second time.                                  *)
(***************************************************************************)
EXTENDS DetectionEngine

CONSTANTS Brokers,        \* the GUIDs of the genuine brokers
          HomeBroker,     \* the one the sensor is connected to
          Client,         \* the client that registers every service
          ServiceType,    \* under this type,
          TtlMins,        \* with this TTL
          AnyState,       \* the state every broker reports
          Impostors,      \* events that clients publish on the brokers' topics
          PollInterval,   \* seconds between polls: 10
          MaxSessions,    \* bound on the connections made
          MaxNet,         \* bound on the packets in flight
          MaxLate         \* bound on the replies that may come late

ASSUME SensorAssumption ==
    /\ HomeBroker \in Brokers
    /\ \A b \in Brokers : b \in Texts /\ ~IsEmpty(b) /\ ~IsHexThumbprint(b)
    /\ \A m \in Impostors : m \in Message /\ m.topic \in BrokerTopics /\ m.cert # None
    /\ Client \in Texts /\ ~IsEmpty(Client)
    /\ ServiceType \in ServiceTypes /\ TtlMins \in Nat
    /\ None \notin RegistrationFields
    /\ \A S \in SUBSET ServiceGuids : None \notin [S -> RegistrationFields]
    /\ PollInterval \in Nat /\ MaxNet \in Nat

VARIABLES pc,           \* "await" the event loop, or "check" the poll timer
          svcQuery,     \* session whose service query is unanswered, or 0
          brokerQuery,  \* the same for the broker query
          lastPoll,     \* seconds at the last poll
          record,       \* the record the last message was normalised to
          conn,         \* "down", "up" (ConnAck sent) or "subscribed"
          session,      \* number of connections so far
          requests,     \* what the sensor asked and the broker has not handled
          net,          \* packets on their way to the sensor
          late,         \* replies that may still arrive late
          registry,     \* the home broker's services
          members       \* the brokers that are part of the fabric

loopVars == <<pc, svcQuery, brokerQuery, lastPoll, record>>
fabricVars == <<conn, session, requests, late, registry, members>>
sensorVars == <<engineVars, clock, loopVars, fabricVars, net>>

-----------------------------------------------------------------------------
(* Packets *)

ConnAck == [kind |-> "connack"]

Publication(m) == [kind |-> "event", message |-> m]

\* A message on the sensor's reply topic.
Reply(type, query, in, payload) ==
    [kind |-> "reply", type |-> type, query |-> query, session |-> in,
     payload |-> payload, source |-> HomeBroker, cert |-> None]

BlankEvent(topic, source) ==
    [topic |-> topic, source |-> source, cert |-> None, serviceGuid |-> None,
     registration |-> [serviceType |-> None, ttlMins |-> None, registrationTime |-> None,
                       clientGuid |-> None, certificates |-> {}],
     certThumbprint |-> None, agentGuid |-> None, cipher |-> None, guid |-> None,
     state |-> AnyState, revoked |-> {}]

Registered(time) ==
    [serviceType |-> ServiceType, ttlMins |-> TtlMins, registrationTime |-> time,
     clientGuid |-> Client, certificates |-> {}]

RegisterEvent(g, registration) ==
    [BlankEvent("register", HomeBroker) EXCEPT !.serviceGuid = g, !.registration = registration]

UnregisterEvent(g) == [BlankEvent("unregister", HomeBroker) EXCEPT !.serviceGuid = g]

BrokerStateEvent(b) == [BlankEvent("brokerstate", b) EXCEPT !.guid = b]

-----------------------------------------------------------------------------
(* The main loop *)

SensorInit ==
    /\ pc = "await"
    /\ svcQuery = 0 /\ brokerQuery = 0
    /\ lastPoll = 0
    /\ record = None

\* Mutant of EnvelopeSpoofed: a client's certificate goes unnoticed.
EnvelopeSpoofedBySource(m) ==
    /\ m.topic \in BrokerTopics
    /\ \/ m.topic \notin KnownBrokerTopics
       \/ IsEmpty(m.source)
       \/ IsHexThumbprint(m.source)
       \/ m.topic = "brokerstate" /\ SpoofedBrokerState(m)
       \/ UnknownBroker(m.source)

\* is_spoofed_broker_envelope: the guard in front of the engine's own.
EnvelopeSpoofed(m) ==
    /\ m.topic \in BrokerTopics
    /\ \/ m.topic \notin KnownBrokerTopics
       \/ IsEmpty(m.source)
       \/ m.cert # None
       \/ IsHexThumbprint(m.source)
       \/ m.topic = "brokerstate" /\ SpoofedBrokerState(m)
       \/ UnknownBroker(m.source)

\* Mutant of ServiceName: the event alone names the service.
ServiceNameOfEvent(m) == m.registration.serviceType

\* handle_dxl_message: an unregister record is named from the engine's services,
\* as they are before the engine handles the event.
ServiceName(m) ==
    IF m.topic = "register" THEN m.registration.serviceType
    ELSE IF m.serviceGuid # None /\ services[m.serviceGuid] # None
         THEN services[m.serviceGuid].serviceType
    ELSE None

NormalisedRecord(m) ==
    IF EnvelopeSpoofed(m) THEN None
    ELSE IF m.topic \in {"register", "unregister"}
         THEN [activity |-> m.topic, uid |-> m.serviceGuid, name |-> ServiceName(m)]
    ELSE IF m.topic \in {"connect", "disconnect"}
         THEN [activity |-> m.topic, uid |-> m.registration.clientGuid, name |-> None]
    ELSE None

\* ConnAck: subscribe_and_sync asks for everything anew, under fresh query ids.
HandleConnAck ==
    /\ pc = "await" /\ net # <<>> /\ Head(net) = ConnAck
    /\ requests' = <<"subscribe", "services", "brokers">>
    /\ svcQuery' = session
    /\ brokerQuery' = session
    /\ net' = Tail(net)
    /\ pc' = "check"
    /\ UNCHANGED <<engineVars, clock, lastPoll, record, conn, session, late, registry, members>>

HandleEvent ==
    /\ pc = "await" /\ net # <<>> /\ Head(net).kind = "event"
    /\ LET m == Head(net).message
       IN  /\ record' = NormalisedRecord(m)
           /\ IF EnvelopeSpoofed(m) THEN RejectEvent(m) ELSE ProcessEvent(m)
    /\ net' = Tail(net)
    /\ pc' = "check"
    /\ UNCHANGED <<clock, svcQuery, brokerQuery, lastPoll, fabricVars>>

\* Mutant of Answers: any session's reply will do while a query is open.
AnswersAnySession(reply, query, in) ==
    /\ reply.type = "response"
    /\ reply.cert = None
    /\ ~IsHexThumbprint(reply.source)
    /\ in # 0
    /\ reply.query = query

\* A reply counts when it is a response, of a broker, to the query in question.
Answers(reply, query, in) ==
    /\ reply.type = "response"
    /\ reply.cert = None
    /\ ~IsHexThumbprint(reply.source)
    /\ in # 0
    /\ reply.query = query /\ reply.session = in

\* The query id is cleared before the payload is looked at.
HandleServiceReply(reply) ==
    /\ Answers(reply, "services", svcQuery)
    /\ svcQuery' = 0
    /\ ProcessSyncResponse(reply.payload)
    /\ UNCHANGED brokerQuery

HandleBrokerReply(reply) ==
    /\ Answers(reply, "brokers", brokerQuery)
    /\ brokerQuery' = 0
    /\ ProcessBrokerSyncResponse(reply.payload)
    /\ UNCHANGED svcQuery

\* Anything else on the reply topic is at most logged.
IgnoreReply(reply) ==
    /\ ~Answers(reply, "services", svcQuery)
    /\ ~Answers(reply, "brokers", brokerQuery)
    /\ UNCHANGED <<engineVars, svcQuery, brokerQuery>>

HandleReply ==
    /\ pc = "await" /\ net # <<>> /\ Head(net).kind = "reply"
    /\ \/ HandleServiceReply(Head(net))
       \/ HandleBrokerReply(Head(net))
       \/ IgnoreReply(Head(net))
    /\ record' = None
    /\ net' = Tail(net)
    /\ pc' = "check"
    /\ UNCHANGED <<clock, lastPoll, fabricVars>>

\* Timeout, connection error (after a pause), undecodable message, other packet.
Idle ==
    /\ pc = "await"
    /\ net = <<>>
    /\ pc' = "check"
    /\ UNCHANGED <<engineVars, clock, svcQuery, brokerQuery, lastPoll, record, fabricVars, net>>

PollDue == Secs - lastPoll > PollInterval

\* Mutant of CheckPoll: the time of the check is kept, due or not.
CheckPollStarved ==
    /\ pc = "check"
    /\ pc' = "await"
    /\ lastPoll' = Secs
    /\ IF PollDue THEN PollTimeouts ELSE UNCHANGED engineVars
    /\ UNCHANGED <<clock, svcQuery, brokerQuery, record, fabricVars, net>>

\* Mutant of CheckPoll: the time of the next poll is kept.
CheckPollAhead ==
    /\ pc = "check"
    /\ pc' = "await"
    /\ IF PollDue THEN PollTimeouts /\ lastPoll' = Secs + PollInterval
       ELSE UNCHANGED <<engineVars, lastPoll>>
    /\ UNCHANGED <<clock, svcQuery, brokerQuery, record, fabricVars, net>>

CheckPoll ==
    /\ pc = "check"
    /\ pc' = "await"
    /\ IF PollDue THEN PollTimeouts /\ lastPoll' = Secs
       ELSE UNCHANGED <<engineVars, lastPoll>>
    /\ UNCHANGED <<clock, svcQuery, brokerQuery, record, fabricVars, net>>

Loop == HandleConnAck \/ HandleEvent \/ HandleReply \/ Idle \/ CheckPoll

-----------------------------------------------------------------------------
(* The fabric (external) *)

FabricInit ==
    /\ conn = "down" /\ session = 0
    /\ requests = <<>> /\ net = <<>> /\ late = {}
    /\ registry = [g \in ServiceGuids |-> None]
    /\ members = {HomeBroker}

\* An event reaches the sensor if it has subscribed.
Emit(m) == net' = IF conn = "subscribed" THEN Append(net, Publication(m)) ELSE net

Connect ==
    /\ conn = "down" /\ session < MaxSessions
    /\ conn' = "up"
    /\ session' = session + 1
    /\ net' = <<ConnAck>>
    /\ UNCHANGED <<engineVars, clock, loopVars, requests, late, registry, members>>

Disconnect ==
    /\ conn # "down"
    /\ conn' = "down"
    /\ net' = <<>> /\ requests' = <<>>
    /\ UNCHANGED <<engineVars, clock, loopVars, session, late, registry, members>>

TakeSubscribe ==
    /\ requests # <<>> /\ Head(requests) = "subscribe"
    /\ conn' = "subscribed"
    /\ requests' = Tail(requests)
    /\ UNCHANGED <<engineVars, clock, loopVars, session, net, late, registry, members>>

\* What the home broker answers: its registry, or the brokers of the fabric.
Answer(query) ==
    IF query = "services"
    THEN [g \in {x \in ServiceGuids : registry[x] # None} |-> registry[g]]
    ELSE [b \in members |-> AnyState]

\* The reply is sent at once, or comes in a later session, or both.
TakeQuery ==
    /\ requests # <<>> /\ Head(requests) # "subscribe"
    /\ LET reply == Reply("response", Head(requests), session, Answer(Head(requests)))
       IN  \/ net' = Append(net, reply) /\ UNCHANGED late
           \/ Cardinality(late) < MaxLate /\ late' = late \cup {reply} /\ net' = Append(net, reply)
           \/ Cardinality(late) < MaxLate /\ late' = late \cup {reply} /\ UNCHANGED net
    /\ requests' = Tail(requests)
    /\ UNCHANGED <<engineVars, clock, loopVars, conn, session, registry, members>>

RefuseQuery ==
    /\ requests # <<>> /\ Head(requests) # "subscribe"
    /\ net' = Append(net, Reply("error", Head(requests), session, None))
    /\ requests' = Tail(requests)
    /\ UNCHANGED <<engineVars, clock, loopVars, conn, session, late, registry, members>>

DeliverLate(reply) ==
    /\ conn = "subscribed" /\ Len(net) < MaxNet
    /\ reply.session < session
    /\ net' = Append(net, reply)
    /\ late' = late \ {reply}
    /\ UNCHANGED <<engineVars, clock, loopVars, conn, session, requests, registry, members>>

\* A service registers, or renews its registration.
RegisterService(g) ==
    /\ Len(net) < MaxNet
    /\ registry' = [registry EXCEPT ![g] = Registered(Secs)]
    /\ Emit(RegisterEvent(g, Registered(Secs)))
    /\ UNCHANGED <<engineVars, clock, loopVars, conn, session, requests, late, members>>

RegistryExpiry(g) == registry[g].registrationTime + (TtlMins + GraceMins) * SecsPerMin

\* A service unregisters, or the reaper does it once the TTL and grace are over.
RemoveService(g) ==
    /\ Len(net) < MaxNet
    /\ registry[g] # None
    /\ registry' = [registry EXCEPT ![g] = None]
    /\ Emit(UnregisterEvent(g))
    /\ UNCHANGED <<engineVars, clock, loopVars, conn, session, requests, late, members>>

\* A broker joins the fabric, or reports its state again.
BrokerReports(b) ==
    /\ Len(net) < MaxNet
    /\ members' = members \cup {b}
    /\ Emit(BrokerStateEvent(b))
    /\ UNCHANGED <<engineVars, clock, loopVars, conn, session, requests, late, registry>>

ImpostorPublishes(m) ==
    /\ Len(net) < MaxNet /\ conn = "subscribed"
    /\ net' = Append(net, Publication(m))
    /\ UNCHANGED <<engineVars, clock, loopVars, fabricVars>>

TimePasses == Tick /\ UNCHANGED <<loopVars, fabricVars, net>>

Fabric == \/ Connect \/ Disconnect \/ TakeSubscribe \/ TakeQuery \/ RefuseQuery
          \/ \E reply \in late : DeliverLate(reply)
          \/ \E g \in ServiceGuids : RegisterService(g) \/ RemoveService(g)
          \/ \E b \in Brokers : BrokerReports(b)
          \/ \E m \in Impostors : ImpostorPublishes(m)

SensorAllInit == Init /\ SensorInit /\ FabricInit

SensorNext == Loop \/ Fabric \/ TimePasses

\* The loop never stops and time passes; nothing is assumed of the fabric.
SensorSpec == /\ SensorAllInit /\ [][SensorNext]_sensorVars
              /\ WF_sensorVars(Loop)
              /\ WF_sensorVars(TimePasses)

-----------------------------------------------------------------------------
(* Properties *)

InFlight == {net[i] : i \in DOMAIN net}

IsRegistration(r) == r.registrationTime \in Int /\ r = Registered(r.registrationTime)

\* What the brokers publish.
IsGenuine(m) ==
    \/ m.serviceGuid \in ServiceGuids /\ m = UnregisterEvent(m.serviceGuid)
    \/ /\ m.serviceGuid \in ServiceGuids /\ IsRegistration(m.registration)
       /\ m = RegisterEvent(m.serviceGuid, m.registration)
    \/ m.guid \in Brokers /\ m = BrokerStateEvent(m.guid)

\* What the home broker answers to a query.
IsAnswer(query, payload) ==
    /\ payload = [x \in DOMAIN payload |-> payload[x]]
    /\ \/ /\ query = "services" /\ DOMAIN payload \subseteq ServiceGuids
          /\ \A g \in DOMAIN payload : IsRegistration(payload[g])
       \/ /\ query = "brokers" /\ DOMAIN payload \subseteq Brokers
          /\ \A b \in DOMAIN payload : payload[b] = AnyState

IsReply(p) ==
    /\ p = Reply(p.type, p.query, p.session, p.payload)
    /\ p.query \in {"services", "brokers"} /\ p.session \in Nat
    /\ \/ p.type = "error" /\ p.payload = None
       \/ p.type = "response" /\ IsAnswer(p.query, p.payload)

IsPacket(p) ==
    \/ p = ConnAck
    \/ /\ p.kind = "event" /\ p = Publication(p.message)
       /\ p.message \in Impostors \/ IsGenuine(p.message)
    \/ p.kind = "reply" /\ IsReply(p)

IsRecord(r) ==
    /\ r = [activity |-> r.activity, uid |-> r.uid, name |-> r.name]
    /\ r.activity \in {"register", "unregister"}
    /\ r.uid \in ServiceGuids /\ r.name \in {ServiceType, None}

\* Type correctness of the loop and the fabric: what is registered and who is a
\* broker, what is asked, what is in flight and may come late, and the record made.
LoopTypeOK ==
    /\ pc \in {"await", "check"}
    /\ svcQuery \in 0 .. session /\ brokerQuery \in 0 .. session
    /\ lastPoll \in 0 .. Secs
    /\ record = None \/ IsRecord(record)
    /\ conn \in {"down", "up", "subscribed"}
    /\ requests \in {<<"subscribe", "services", "brokers">>, <<"services", "brokers">>,
                     <<"brokers">>, <<>>}
    /\ DOMAIN net = 1 .. Len(net) /\ Len(net) <= MaxNet + 3
    /\ \A p \in InFlight : IsPacket(p)
    /\ \A p \in late : IsReply(p)
    /\ DOMAIN registry = ServiceGuids
    /\ \A g \in ServiceGuids : registry[g] = None \/ IsRegistration(registry[g])
    /\ members \subseteq Brokers

\* The sensor has subscribed, and the service query of this session is answered.
InSync == conn = "subscribed" /\ requests = <<>> /\ svcQuery = 0

\* In a fabric of one broker, once the session's query is answered and no event
\* is in flight, the engine holds the home broker's registry, whatever happened
\* before: changes during an outage, replies of an earlier session that come late,
\* events between subscription, snapshot and reply, events of impostors.
MirrorsRegistry ==
    (InSync /\ ~\E p \in InFlight : p.kind = "event") =>
        \A g \in ServiceGuids :
            IF registry[g] = None THEN services[g] = None
            ELSE /\ services[g] # None
                 /\ services[g].owner = registry[g].clientGuid
                 /\ services[g].registrationTime = registry[g].registrationTime

\* Only genuine brokers ever become known brokers: what passes the guard of the
\* main loop (main.rs:486-526) and the engine's own is a broker's brokerstate, also
\* before the first broker is known and with replies that come late.
KnownBrokersAreGenuine == DOMAIN brokers \subseteq Brokers

\* README, detection 8: what is flagged as spoofed is an impostor's event.
OnlyImpostorsFlagged ==
    \A a \in alerts : a.title = "Spoofed Broker Event" => a.about \notin Brokers

\* In sync, an unregister record carries the type of its service: the name is
\* looked up before the engine forgets the service (main.rs:143, 225).
UnregisterIsNamed ==
    [][(/\ InSync /\ pc = "await" /\ pc' = "check"
        /\ record' # None /\ record' # record /\ record'.activity = "unregister") =>
          record'.name = ServiceType]_sensorVars

TtlAlarm(g) == pc = "check" /\ PollDue /\ TtlAlert(g) \in alerts' /\ pc' = "await"

NewsInFlight(g) == \E p \in InFlight : p.kind = "event" /\ p.message.serviceGuid = g

Overdue(g) == registry[g] = None \/ Secs >= RegistryExpiry(g)

\* A poll of a sensor in sync reports a service only if the registry agrees that
\* it is overdue, or has news of it that the sensor has yet to read.
TtlAlarmJustified ==
    [][InSync => \A g \in ServiceGuids : TtlAlarm(g) => Overdue(g) \/ NewsInFlight(g)]_sensorVars

\* README, detection 4: a TTL alert means the service did not re-register.
TtlAlarmMeansExpired ==
    [][\A g \in ServiceGuids : TtlAlarm(g) => Overdue(g) \/ NewsInFlight(g)]_sensorVars

Horizon == MaxClock \div MsPerSec - PollInterval - 1

Unreported(g) == services[g] # None /\ ~services[g].reported

\* A recorded service that reaches its expiry within the horizon is reported,
\* renewed or removed, however the packets come.
ExpiryIsReported ==
    \A g \in ServiceGuids :
        (Unreported(g) /\ Secs <= Horizon /\ Expiry(services[g]) <= Horizon)
            ~> (~Unreported(g) \/ Expiry(services[g]) > Horizon)
=============================================================================
