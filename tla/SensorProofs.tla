----------------------------- MODULE SensorProofs -----------------------------
(***************************************************************************)
(* The sensor and its fabric, for any services, brokers, impostors, bounds *)
(* and lengths of the connections: what the packets in flight say, taken   *)
(* together with what the engine holds, is what the registry holds.        *)
(***************************************************************************)
EXTENDS Sensor, DetectionEngineProofs

-----------------------------------------------------------------------------
(* What there is in the fabric and in the engine *)

Registrations == {Registered(t) : t \in Int}

GenuineEvents ==
    {RegisterEvent(g, r) : g \in ServiceGuids, r \in Registrations}
    \cup {UnregisterEvent(g) : g \in ServiceGuids}
    \cup {BrokerStateEvent(b) : b \in Brokers}

Directories == UNION {[S -> Registrations] : S \in SUBSET ServiceGuids}

BrokerDirectories == UNION {[S -> {AnyState}] : S \in SUBSET Brokers}

Replies ==
    {Reply("error", q, n, None) : q \in {"services", "brokers"}, n \in Nat}
    \cup {Reply("response", "services", n, d) : n \in Nat, d \in Directories}
    \cup {Reply("response", "brokers", n, d) : n \in Nat, d \in BrokerDirectories}

Packets == {ConnAck} \cup {Publication(m) : m \in GenuineEvents \cup Impostors} \cup Replies

\* What the engine holds of a registration.
Entry(r, reported) ==
    [serviceType |-> ServiceType, owner |-> Client, registrationTime |-> r.registrationTime,
     ttlMins |-> TtlMins % TtlModulus, reported |-> reported]

Entries == {Entry(r, b) : r \in Registrations, b \in BOOLEAN}

FabricTyped ==
    /\ clock \in Nat
    /\ registry \in [ServiceGuids -> Registrations \cup {None}]
    /\ members \subseteq Brokers
    /\ net \in Seq(Packets)
    /\ late \subseteq Replies
    /\ services \in [ServiceGuids -> Entries \cup {None}]
    /\ DOMAIN brokers \subseteq Brokers

-----------------------------------------------------------------------------
(* The session *)

\* In session n a packet is the snapshot the sensor waits for.
IsSnapshot(p, n) == /\ p.kind = "reply"
                    /\ p.type = "response" /\ p.query = "services" /\ p.session = n

NoSnapshot == \A i \in DOMAIN net : ~IsSnapshot(net[i], session)

SessionInv ==
    /\ session \in Nat /\ svcQuery \in 0 .. session /\ brokerQuery \in 0 .. session
    /\ lastPoll \in 0 .. Secs
    /\ pc \in {"await", "check"}
    /\ conn \in {"down", "up", "subscribed"}
    /\ conn # "down" => session # 0
    /\ conn = "down" => net = <<>> /\ requests = <<>>
    /\ conn = "up" => \/ net = <<ConnAck>> /\ requests = <<>>
                      \/ /\ net = <<>> /\ requests = <<"subscribe", "services", "brokers">>
                         /\ svcQuery = session
    /\ conn = "subscribed" =>
          /\ requests \in {<<"services", "brokers">>, <<"brokers">>, <<>>}
          /\ svcQuery \in {0, session}
          /\ ConnAck \notin InFlight
          /\ requests = <<"services", "brokers">> => svcQuery = session /\ NoSnapshot
          /\ svcQuery = 0 => NoSnapshot
          /\ \A i, j \in DOMAIN net :
                IsSnapshot(net[i], session) /\ IsSnapshot(net[j], session) => i = j
    /\ Len(net) + Len(requests) <= MaxNet + 3

-----------------------------------------------------------------------------
(* What the packets in flight say of a service *)

Concerns(p, g) == /\ p.kind = "event" /\ p.message.cert = None
                  /\ p.message.serviceGuid = g

Removes(p, g) == Concerns(p, g) /\ p.message.topic = "unregister"

\* In session n, a packet that tells the engine what to hold of a service,
\* and what it tells.
Tells(p, n, g) == Concerns(p, g) \/ IsSnapshot(p, n)

Told(p, g) ==
    IF p.kind = "event"
    THEN IF p.message.topic = "register" THEN p.message.registration ELSE None
    ELSE IF g \in DOMAIN p.payload THEN p.payload[g] ELSE None

\* What the engine holds stands for what the registry holds.
Stands(held, entry) ==
    IF entry = None THEN held = None
    ELSE \E b \in BOOLEAN : held = Entry(entry, b)

\* What is held (if the snapshot has arrived, that is known), then told by one
\* packet after the other, ends with the registry's entry, and no packet removes
\* what is not there.
Leads(held, known, q, n, g, entry) ==
    /\ (known /\ \A i \in DOMAIN q : ~Tells(q[i], n, g)) => Stands(held, entry)
    /\ \A i \in DOMAIN q :
          (Tells(q[i], n, g) /\ \A j \in DOMAIN q : i < j => ~Tells(q[j], n, g)) =>
             Told(q[i], g) = entry
    /\ \A k \in DOMAIN q : Removes(q[k], g) =>
          /\ (known /\ \A j \in DOMAIN q : j < k => ~Tells(q[j], n, g)) => held # None
          /\ \A i \in DOMAIN q :
                (/\ i < k /\ Tells(q[i], n, g)
                 /\ \A j \in DOMAIN q : i < j /\ j < k => ~Tells(q[j], n, g)) =>
                   Told(q[i], g) # None

Mirrored(g) ==
    conn = "subscribed" => Leads(services[g], svcQuery = 0, net, session, g, registry[g])

-----------------------------------------------------------------------------
(* Registrations *)

LEMMA NoneIsNothing ==
    /\ None \notin Texts /\ None \notin ServiceTypes /\ None \notin ServiceGuids
    /\ None \notin Int /\ None \notin ServiceState /\ None \notin RegistrationFields
    /\ \A S \in SUBSET ServiceGuids : None \notin [S -> RegistrationFields]
BY EngineAssumption, SensorAssumption

\* A registration is complete, and the engine holds its entry.
LEMMA RegistrationShape ==
    ASSUME NEW r \in Registrations
    PROVE  /\ r \in RegistrationFields /\ r # None
           /\ r.registrationTime \in Int /\ r.clientGuid = Client
           /\ Complete(r) /\ Owner(r) = Client /\ Recorded(r) = Entry(r, FALSE)
<1>1. PICK t \in Int : r = Registered(t)
  BY DEF Registrations
<1>2. /\ r.serviceType = ServiceType /\ r.ttlMins = TtlMins /\ r.registrationTime = t
      /\ r.clientGuid = Client /\ r.certificates = {}
  BY <1>1 DEF Registered
<1>3. Client \in Texts /\ ~IsEmpty(Client) /\ ServiceType \in ServiceTypes /\ TtlMins \in Nat
  BY SensorAssumption
<1>4. r \in RegistrationFields
  BY <1>1, <1>3 DEF Registered, RegistrationFields, TextOrNone
<1>5. Complete(r)
  BY <1>2, <1>3, NoneIsNothing DEF Complete
<1>6. Owner(r) = Client
  BY <1>2, <1>3 DEF Owner
<1> QED BY <1>2, <1>4, <1>5, <1>6, NoneIsNothing DEF Recorded, Entry

LEMMA EntryShape ==
    ASSUME NEW r \in Registrations, NEW b \in BOOLEAN
    PROVE  /\ Entry(r, b) \in Entries /\ Entry(r, b) \in ServiceState /\ Entry(r, b) # None
           /\ Entry(r, b).owner = Client /\ Entry(r, b).serviceType = ServiceType
           /\ Entry(r, b).registrationTime = r.registrationTime
           /\ Entry(r, b).ttlMins = TtlMins % TtlModulus
           /\ [Entry(r, b) EXCEPT !.reported = TRUE] = Entry(r, TRUE)
<1>1. TtlMins % TtlModulus \in 0 .. TtlModulus - 1
  <2>1. TtlMins \in Nat /\ TtlModulus \in Nat \ {0}
    BY SensorAssumption, EngineAssumption
  <2> QED BY <2>1, SMTT(30)
<1>2. r.registrationTime \in Int
  BY RegistrationShape
<1>3. Entry(r, b) \in ServiceState
  BY <1>1, <1>2, SensorAssumption DEF Entry, ServiceState, TextOrNone
<1>4. Entry(r, b) \in Entries
  BY DEF Entries
<1>5. Entry(r, b) # None
  BY <1>3, NoneIsNothing
<1>6. [Entry(r, b) EXCEPT !.reported = TRUE] = Entry(r, TRUE)
  <2>1. \A c : [Entry(r, b) EXCEPT !.reported = c] = Entry(r, c)
    BY DEF Entry
  <2> QED BY <2>1
<1> QED BY <1>3, <1>4, <1>5, <1>6 DEF Entry

LEMMA StandsType ==
    ASSUME NEW x \in Registrations \cup {None}, NEW s, Stands(s, x)
    PROVE  s \in Entries \cup {None} /\ (s = None) = (x = None)
<1>1. CASE x = None
  BY <1>1 DEF Stands
<1>2. CASE x # None
  <2>1. PICK b \in BOOLEAN : s = Entry(x, b)
    BY <1>2 DEF Stands
  <2> QED BY <1>2, <2>1, EntryShape
<1> QED BY <1>1, <1>2

-----------------------------------------------------------------------------
(* Packets *)

LEMMA GenuineShape ==
    ASSUME NEW m \in GenuineEvents
    PROVE  /\ m.cert = None /\ m.source \in Brokers
           /\ m.topic \in {"register", "unregister", "brokerstate"}
           /\ m.topic \in {"register", "unregister"} => m.source = HomeBroker
           /\ m.topic = "brokerstate" => m.guid = m.source /\ m.serviceGuid = None
           /\ m.topic # "brokerstate" => m.guid = None /\ m.serviceGuid \in ServiceGuids
           /\ m.topic = "register" => m.registration \in Registrations
<1>0. HomeBroker \in Brokers
  BY SensorAssumption
<1>1. ASSUME NEW g \in ServiceGuids, NEW r \in Registrations, m = RegisterEvent(g, r)
      PROVE  /\ m.cert = None /\ m.source = HomeBroker /\ m.topic = "register"
             /\ m.guid = None /\ m.serviceGuid = g /\ m.registration = r
  BY <1>1 DEF RegisterEvent, BlankEvent
<1>2. ASSUME NEW g \in ServiceGuids, m = UnregisterEvent(g)
      PROVE  /\ m.cert = None /\ m.source = HomeBroker /\ m.topic = "unregister"
             /\ m.guid = None /\ m.serviceGuid = g
  BY <1>2 DEF UnregisterEvent, BlankEvent
<1>3. ASSUME NEW b \in Brokers, m = BrokerStateEvent(b)
      PROVE  /\ m.cert = None /\ m.source = b /\ m.topic = "brokerstate"
             /\ m.guid = b /\ m.serviceGuid = None
  BY <1>3 DEF BrokerStateEvent, BlankEvent
<1>4. CASE \E g \in ServiceGuids, r \in Registrations : m = RegisterEvent(g, r)
  BY <1>0, <1>1, <1>4
<1>5. CASE \E g \in ServiceGuids : m = UnregisterEvent(g)
  BY <1>0, <1>2, <1>5
<1>6. CASE \E b \in Brokers : m = BrokerStateEvent(b)
  BY <1>3, <1>6
<1> QED BY <1>4, <1>5, <1>6 DEF GenuineEvents

LEMMA ReplyShape ==
    ASSUME NEW p \in Replies
    PROVE  /\ p.kind = "reply" /\ p.cert = None /\ p.source = HomeBroker /\ p.session \in Nat
           /\ p.type = "response" /\ p.query = "services" => p.payload \in Directories
           /\ p.type = "response" /\ p.query = "brokers" => p.payload \in BrokerDirectories
           /\ p.query \in {"services", "brokers"}
<1>1. CASE p \in {Reply("error", q, n, None) : q \in {"services", "brokers"}, n \in Nat}
  BY <1>1 DEF Reply
<1>2. CASE p \in {Reply("response", "services", n, d) : n \in Nat, d \in Directories}
  BY <1>2 DEF Reply
<1>3. CASE p \in {Reply("response", "brokers", n, d) : n \in Nat, d \in BrokerDirectories}
  BY <1>3 DEF Reply
<1> QED BY <1>1, <1>2, <1>3 DEF Replies

LEMMA ImpostorShape ==
    ASSUME NEW m \in Impostors
    PROVE  m.topic \in BrokerTopics /\ m.cert # None /\ EnvelopeSpoofed(m)
BY SensorAssumption DEF EnvelopeSpoofed

LEMMA PacketShape ==
    ASSUME NEW p \in Packets
    PROVE  /\ p = ConnAck <=> p.kind = "connack"
           /\ p.kind = "event" <=> \E m \in GenuineEvents \cup Impostors : p = Publication(m)
           /\ p.kind = "event" => p.message \in GenuineEvents \cup Impostors
           /\ p.kind = "reply" <=> p \in Replies
<1>1. ConnAck.kind = "connack" /\ \A q \in Replies : q.kind = "reply"
  BY ReplyShape DEF ConnAck
<1>2. \A m : Publication(m).kind = "event" /\ Publication(m).message = m
  BY DEF Publication
<1>3. CASE p = ConnAck
  BY <1>1, <1>2, <1>3
<1>4. CASE p \in Replies
  BY <1>1, <1>2, <1>4
<1>5. CASE \E m \in GenuineEvents \cup Impostors : p = Publication(m)
  BY <1>1, <1>2, <1>5
<1> QED BY <1>3, <1>4, <1>5 DEF Packets

-----------------------------------------------------------------------------
(* Sequences of packets *)

LEMMA NetShape ==
    ASSUME NEW q \in Seq(Packets), q # <<>>
    PROVE  /\ Head(q) \in Packets /\ Head(q) = q[1] /\ Tail(q) \in Seq(Packets)
           /\ Len(q) \in Nat \ {0} /\ Len(Tail(q)) = Len(q) - 1
           /\ DOMAIN q = 1 .. Len(q) /\ DOMAIN Tail(q) = 1 .. Len(q) - 1
           /\ \A i \in 1 .. Len(q) - 1 : Tail(q)[i] = q[i + 1]
BY HeadTailProperties, EmptySeq, LenProperties

LEMMA LongerShape ==
    ASSUME NEW q \in Seq(Packets), NEW p \in Packets
    PROVE  /\ Append(q, p) \in Seq(Packets)
           /\ Len(q) \in Nat /\ Len(Append(q, p)) = Len(q) + 1
           /\ DOMAIN q = 1 .. Len(q) /\ DOMAIN Append(q, p) = 1 .. Len(q) + 1
           /\ \A i \in 1 .. Len(q) : Append(q, p)[i] = q[i]
           /\ Append(q, p)[Len(q) + 1] = p
BY AppendProperties, LenProperties

\* What is told by a packet the engine has not to mind, at the end of the line.
LEMMA LeadsPastOther ==
    ASSUME NEW q \in Seq(Packets), NEW p \in Packets, NEW held, NEW known, NEW n, NEW g,
           NEW entry, Leads(held, known, q, n, g, entry), ~Tells(p, n, g)
    PROVE  Leads(held, known, Append(q, p), n, g, entry)
<1> DEFINE l == Len(q)
           longer == Append(q, p)
<1>1. /\ l \in Nat /\ DOMAIN q = 1 .. l /\ DOMAIN longer = 1 .. l + 1
      /\ \A i \in 1 .. l : longer[i] = q[i]
      /\ longer[l + 1] = p
  BY LongerShape
<1>2. ~Removes(p, g)
  BY DEF Removes, Tells
<1> SUFFICES Leads(held, known, longer, n, g, entry)
  OBVIOUS
<1> HIDE DEF l, longer
<1>3. \A i \in 1 .. l : i \in 1 .. l + 1 /\ i < l + 1
  BY <1>1
<1>4. \A i \in 1 .. l + 1 : i \in 1 .. l \/ i = l + 1
  BY <1>1
<1>5. (known /\ \A i \in DOMAIN longer : ~Tells(longer[i], n, g)) => Stands(held, entry)
  BY <1>1, <1>3 DEF Leads
<1>6. ASSUME NEW i \in DOMAIN longer, Tells(longer[i], n, g),
             \A j \in DOMAIN longer : i < j => ~Tells(longer[j], n, g)
      PROVE  Told(longer[i], g) = entry
  <2>1. i \in DOMAIN q /\ longer[i] = q[i]
    BY <1>1, <1>4, <1>6
  <2> QED BY <2>1, <1>1, <1>3, <1>6 DEF Leads
<1>7. ASSUME NEW k \in DOMAIN longer, Removes(longer[k], g)
      PROVE  /\ (known /\ \A j \in DOMAIN longer : j < k => ~Tells(longer[j], n, g)) => held # None
             /\ \A i \in DOMAIN longer :
                   (/\ i < k /\ Tells(longer[i], n, g)
                    /\ \A j \in DOMAIN longer : i < j /\ j < k => ~Tells(longer[j], n, g)) =>
                      Told(longer[i], g) # None
  <2>1. k \in DOMAIN q /\ longer[k] = q[k]
    BY <1>1, <1>2, <1>4, <1>7
  <2>2. (known /\ \A j \in DOMAIN longer : j < k => ~Tells(longer[j], n, g)) => held # None
    BY <2>1, <1>1, <1>3, <1>7 DEF Leads
  <2>3. ASSUME NEW i \in DOMAIN longer, i < k, Tells(longer[i], n, g),
               \A j \in DOMAIN longer : i < j /\ j < k => ~Tells(longer[j], n, g)
        PROVE  Told(longer[i], g) # None
    <3>1. i \in DOMAIN q /\ longer[i] = q[i]
      BY <1>1, <1>2, <1>4, <2>1, <2>3
    <3>2. \A j \in DOMAIN q : i < j /\ j < k => ~Tells(q[j], n, g)
      BY <1>1, <1>3, <2>3
    <3> QED BY <2>1, <2>3, <3>1, <3>2, <1>7 DEF Leads
  <2> QED BY <2>2, <2>3
<1> QED BY <1>5, <1>6, <1>7 DEF Leads

\* News of the service, and of the registry's entry with it.
LEMMA LeadsToNews ==
    ASSUME NEW q \in Seq(Packets), NEW p \in Packets, NEW held, NEW known, NEW n, NEW g,
           NEW old \in Registrations \cup {None}, Leads(held, known, q, n, g, old),
           Tells(p, n, g), Removes(p, g) => old # None
    PROVE  Leads(held, known, Append(q, p), n, g, Told(p, g))
<1> DEFINE l == Len(q)
           longer == Append(q, p)
           new == Told(p, g)
<1>1. /\ l \in Nat /\ DOMAIN q = 1 .. l /\ DOMAIN longer = 1 .. l + 1
      /\ \A i \in 1 .. l : longer[i] = q[i]
      /\ longer[l + 1] = p
  BY LongerShape
<1>2. new = Told(p, g)
  OBVIOUS
<1> SUFFICES Leads(held, known, longer, n, g, new)
  OBVIOUS
<1> HIDE DEF l, longer, new
<1>3. \A i \in 1 .. l : i \in 1 .. l + 1 /\ i < l + 1
  BY <1>1
<1>4. \A i \in 1 .. l + 1 : i \in 1 .. l \/ i = l + 1
  BY <1>1
<1>5. (known /\ \A i \in DOMAIN longer : ~Tells(longer[i], n, g)) => Stands(held, new)
  <2>1. l + 1 \in DOMAIN longer
    BY <1>1
  <2> QED BY <2>1, <1>1
<1>6. ASSUME NEW i \in DOMAIN longer, Tells(longer[i], n, g),
             \A j \in DOMAIN longer : i < j => ~Tells(longer[j], n, g)
      PROVE  Told(longer[i], g) = new
  <2>1. i = l + 1
    <3>1. l + 1 \in DOMAIN longer /\ Tells(longer[l + 1], n, g)
      BY <1>1
    <3> QED BY <3>1, <1>1, <1>3, <1>4, <1>6
  <2> QED BY <2>1, <1>1, <1>2
<1>7. ASSUME NEW k \in DOMAIN longer, Removes(longer[k], g)
      PROVE  /\ (known /\ \A j \in DOMAIN longer : j < k => ~Tells(longer[j], n, g)) => held # None
             /\ \A i \in DOMAIN longer :
                   (/\ i < k /\ Tells(longer[i], n, g)
                    /\ \A j \in DOMAIN longer : i < j /\ j < k => ~Tells(longer[j], n, g)) =>
                      Told(longer[i], g) # None
  <2>1. CASE k \in 1 .. l
    <3>1. k \in DOMAIN q /\ longer[k] = q[k]
      BY <1>1, <2>1
    <3>2. (known /\ \A j \in DOMAIN longer : j < k => ~Tells(longer[j], n, g)) => held # None
      BY <3>1, <1>1, <1>3, <1>7 DEF Leads
    <3>3. ASSUME NEW i \in DOMAIN longer, i < k, Tells(longer[i], n, g),
                 \A j \in DOMAIN longer : i < j /\ j < k => ~Tells(longer[j], n, g)
          PROVE  Told(longer[i], g) # None
      <4>1. i \in DOMAIN q /\ longer[i] = q[i]
        BY <1>1, <1>3, <1>4, <2>1, <3>3
      <4>2. \A j \in DOMAIN q : i < j /\ j < k => ~Tells(q[j], n, g)
        BY <1>1, <1>3, <3>3
      <4> QED BY <3>1, <3>3, <4>1, <4>2, <1>7 DEF Leads
    <3> QED BY <3>2, <3>3
  <2>2. CASE k = l + 1
    <3>1. old # None
      BY <1>1, <1>7, <2>2
    <3>2. ASSUME known, \A j \in DOMAIN longer : j < k => ~Tells(longer[j], n, g)
          PROVE  held # None
      <4>1. Stands(held, old)
        BY <1>1, <1>3, <2>2, <3>2 DEF Leads
      <4> QED BY <3>1, <4>1, StandsType
    <3>3. ASSUME NEW i \in DOMAIN longer, i < k, Tells(longer[i], n, g),
                 \A j \in DOMAIN longer : i < j /\ j < k => ~Tells(longer[j], n, g)
          PROVE  Told(longer[i], g) # None
      <4>1. i \in DOMAIN q /\ longer[i] = q[i]
        BY <1>1, <1>4, <2>2, <3>3
      <4>2. \A j \in DOMAIN q : i < j => ~Tells(q[j], n, g)
        BY <1>1, <1>3, <2>2, <3>3
      <4>3. Told(q[i], g) = old
        BY <3>3, <4>1, <4>2 DEF Leads
      <4> QED BY <3>1, <4>1, <4>3
    <3> QED BY <3>2, <3>3
  <2> QED BY <1>1, <1>4, <2>1, <2>2
<1> QED BY <1>5, <1>6, <1>7 DEF Leads

\* The engine reads a packet that tells it nothing of the service.
LEMMA LeadsWithoutOther ==
    ASSUME NEW q \in Seq(Packets), q # <<>>, NEW held, NEW known, NEW n, NEW g, NEW entry,
           Leads(held, known, q, n, g, entry), ~Tells(Head(q), n, g)
    PROVE  Leads(held, known, Tail(q), n, g, entry)
<1> DEFINE l == Len(q)
           rest == Tail(q)
<1>1. /\ l \in Nat \ {0} /\ DOMAIN q = 1 .. l /\ DOMAIN rest = 1 .. l - 1
      /\ \A i \in 1 .. l - 1 : rest[i] = q[i + 1]
      /\ ~Tells(q[1], n, g)
  BY NetShape
<1> SUFFICES Leads(held, known, rest, n, g, entry)
  OBVIOUS
<1> HIDE DEF l, rest
<1>2. \A i \in 1 .. l - 1 : i + 1 \in 1 .. l /\ rest[i] = q[i + 1]
  BY <1>1
<1>3. \A i \in 1 .. l : i = 1 \/ (i - 1 \in 1 .. l - 1 /\ (i - 1) + 1 = i)
  BY <1>1
<1>4. (known /\ \A i \in DOMAIN rest : ~Tells(rest[i], n, g)) => Stands(held, entry)
  <2> SUFFICES ASSUME known, \A i \in DOMAIN rest : ~Tells(rest[i], n, g)
               PROVE  Stands(held, entry)
    OBVIOUS
  <2>1. \A i \in DOMAIN q : ~Tells(q[i], n, g)
    BY <1>1, <1>2, <1>3
  <2> QED BY <2>1 DEF Leads
<1>5. ASSUME NEW i \in DOMAIN rest, Tells(rest[i], n, g),
             \A j \in DOMAIN rest : i < j => ~Tells(rest[j], n, g)
      PROVE  Told(rest[i], g) = entry
  <2>1. i + 1 \in DOMAIN q /\ Tells(q[i + 1], n, g)
    BY <1>1, <1>2, <1>5
  <2>2. ASSUME NEW j \in DOMAIN q, i + 1 < j PROVE ~Tells(q[j], n, g)
    <3>1. j - 1 \in DOMAIN rest /\ i < j - 1 /\ rest[j - 1] = q[j]
      BY <1>1, <1>2, <1>3, <2>2
    <3> QED BY <3>1, <1>5
  <2>3. Told(q[i + 1], g) = entry
    BY <2>1, <2>2 DEF Leads
  <2> QED BY <2>3, <1>1, <1>2
<1>6. ASSUME NEW k \in DOMAIN rest, Removes(rest[k], g)
      PROVE  /\ (known /\ \A j \in DOMAIN rest : j < k => ~Tells(rest[j], n, g)) => held # None
             /\ \A i \in DOMAIN rest :
                   (/\ i < k /\ Tells(rest[i], n, g)
                    /\ \A j \in DOMAIN rest : i < j /\ j < k => ~Tells(rest[j], n, g)) =>
                      Told(rest[i], g) # None
  <2>1. k + 1 \in DOMAIN q /\ Removes(q[k + 1], g)
    BY <1>1, <1>2, <1>6
  <2>2. ASSUME known, \A j \in DOMAIN rest : j < k => ~Tells(rest[j], n, g)
        PROVE  held # None
    <3>1. ASSUME NEW j \in DOMAIN q, j < k + 1 PROVE ~Tells(q[j], n, g)
      <4>1. CASE j = 1
        BY <4>1, <1>1
      <4>2. CASE j # 1
        <5>1. j - 1 \in DOMAIN rest /\ j - 1 < k /\ rest[j - 1] = q[j]
          BY <1>1, <1>2, <1>3, <3>1, <4>2
        <5> QED BY <5>1, <2>2
      <4> QED BY <4>1, <4>2
    <3> QED BY <2>1, <2>2, <3>1 DEF Leads
  <2>3. ASSUME NEW i \in DOMAIN rest, i < k, Tells(rest[i], n, g),
               \A j \in DOMAIN rest : i < j /\ j < k => ~Tells(rest[j], n, g)
        PROVE  Told(rest[i], g) # None
    <3>1. i + 1 \in DOMAIN q /\ i + 1 < k + 1 /\ Tells(q[i + 1], n, g) /\ rest[i] = q[i + 1]
      BY <1>1, <1>2, <2>3
    <3>2. ASSUME NEW j \in DOMAIN q, i + 1 < j, j < k + 1 PROVE ~Tells(q[j], n, g)
      <4>1. j - 1 \in DOMAIN rest /\ i < j - 1 /\ j - 1 < k /\ rest[j - 1] = q[j]
        BY <1>1, <1>2, <1>3, <3>2
      <4> QED BY <4>1, <2>3
    <3>3. Told(q[i + 1], g) # None
      BY <2>1, <3>1, <3>2 DEF Leads
    <3> QED BY <3>1, <3>3
  <2> QED BY <2>2, <2>3
<1> QED BY <1>4, <1>5, <1>6 DEF Leads

\* The engine reads a packet that tells it of the service.
LEMMA LeadsFromNews ==
    ASSUME NEW q \in Seq(Packets), q # <<>>, NEW held, NEW known, NEW n, NEW g, NEW entry,
           Leads(held, known, q, n, g, entry), Tells(Head(q), n, g),
           Told(Head(q), g) \in Registrations \cup {None},
           NEW held2, Stands(held2, Told(Head(q), g)), NEW known2
    PROVE  Leads(held2, known2, Tail(q), n, g, entry)
<1> DEFINE l == Len(q)
           rest == Tail(q)
<1>1. /\ l \in Nat \ {0} /\ DOMAIN q = 1 .. l /\ DOMAIN rest = 1 .. l - 1
      /\ \A i \in 1 .. l - 1 : rest[i] = q[i + 1]
      /\ Head(q) = q[1] /\ Tells(q[1], n, g)
  BY NetShape
<1> SUFFICES Leads(held2, known2, rest, n, g, entry)
  OBVIOUS
<1> HIDE DEF l, rest
<1>2. \A i \in 1 .. l - 1 : i + 1 \in 1 .. l /\ rest[i] = q[i + 1]
  BY <1>1
<1>3. \A i \in 1 .. l : 1 < i => (i - 1 \in 1 .. l - 1 /\ (i - 1) + 1 = i)
  BY <1>1
<1>4. ASSUME known2, \A i \in DOMAIN rest : ~Tells(rest[i], n, g)
      PROVE  Stands(held2, entry)
  <2>1. \A j \in DOMAIN q : 1 < j => ~Tells(q[j], n, g)
    BY <1>1, <1>2, <1>3, <1>4
  <2>2. 1 \in DOMAIN q
    BY <1>1
  <2>3. Told(q[1], g) = entry
    BY <1>1, <2>1, <2>2 DEF Leads
  <2> QED BY <2>3, <1>1
<1>5. ASSUME NEW i \in DOMAIN rest, Tells(rest[i], n, g),
             \A j \in DOMAIN rest : i < j => ~Tells(rest[j], n, g)
      PROVE  Told(rest[i], g) = entry
  <2>1. i + 1 \in DOMAIN q /\ Tells(q[i + 1], n, g)
    BY <1>1, <1>2, <1>5
  <2>2. ASSUME NEW j \in DOMAIN q, i + 1 < j PROVE ~Tells(q[j], n, g)
    <3>1. j - 1 \in DOMAIN rest /\ i < j - 1 /\ rest[j - 1] = q[j]
      BY <1>1, <1>2, <1>3, <2>2
    <3> QED BY <3>1, <1>5
  <2>3. Told(q[i + 1], g) = entry
    BY <2>1, <2>2 DEF Leads
  <2> QED BY <2>3, <1>1, <1>2
<1>6. ASSUME NEW k \in DOMAIN rest, Removes(rest[k], g)
      PROVE  /\ (known2 /\ \A j \in DOMAIN rest : j < k => ~Tells(rest[j], n, g)) => held2 # None
             /\ \A i \in DOMAIN rest :
                   (/\ i < k /\ Tells(rest[i], n, g)
                    /\ \A j \in DOMAIN rest : i < j /\ j < k => ~Tells(rest[j], n, g)) =>
                      Told(rest[i], g) # None
  <2>1. k + 1 \in DOMAIN q /\ Removes(q[k + 1], g)
    BY <1>1, <1>2, <1>6
  <2>2. ASSUME \A j \in DOMAIN rest : j < k => ~Tells(rest[j], n, g)
        PROVE  held2 # None
    <3>1. ASSUME NEW j \in DOMAIN q, 1 < j, j < k + 1 PROVE ~Tells(q[j], n, g)
      <4>1. j - 1 \in DOMAIN rest /\ j - 1 < k /\ rest[j - 1] = q[j]
        BY <1>1, <1>2, <1>3, <3>1
      <4> QED BY <4>1, <2>2
    <3>2. 1 \in DOMAIN q /\ 1 < k + 1
      BY <1>1
    <3>3. Told(q[1], g) # None
      BY <1>1, <2>1, <3>1, <3>2 DEF Leads
    <3> QED BY <3>3, <1>1, StandsType
  <2>3. ASSUME NEW i \in DOMAIN rest, i < k, Tells(rest[i], n, g),
               \A j \in DOMAIN rest : i < j /\ j < k => ~Tells(rest[j], n, g)
        PROVE  Told(rest[i], g) # None
    <3>1. i + 1 \in DOMAIN q /\ i + 1 < k + 1 /\ Tells(q[i + 1], n, g) /\ rest[i] = q[i + 1]
      BY <1>1, <1>2, <2>3
    <3>2. ASSUME NEW j \in DOMAIN q, i + 1 < j, j < k + 1 PROVE ~Tells(q[j], n, g)
      <4>1. j - 1 \in DOMAIN rest /\ i < j - 1 /\ j - 1 < k /\ rest[j - 1] = q[j]
        BY <1>1, <1>2, <1>3, <3>2
      <4> QED BY <4>1, <2>3
    <3>3. Told(q[i + 1], g) # None
      BY <2>1, <3>1, <3>2 DEF Leads
    <3> QED BY <3>1, <3>3
  <2> QED BY <2>2, <2>3
<1> QED BY <1>4, <1>5, <1>6 DEF Leads

\* What is held is marked as reported.
LEMMA LeadsWhenMarked ==
    ASSUME NEW q, NEW known, NEW n, NEW g, NEW entry, NEW held, NEW held2,
           Leads(held, known, q, n, g, entry),
           held # None => held2 # None, Stands(held, entry) => Stands(held2, entry)
    PROVE  Leads(held2, known, q, n, g, entry)
BY DEF Leads

-----------------------------------------------------------------------------
(* What the engine does with genuine packets *)

LEMMA GenuineEffect ==
    ASSUME FabricTyped, NEW m \in GenuineEvents, AcceptEvent(m), NEW g \in ServiceGuids
    PROVE  /\ DOMAIN services' = ServiceGuids
           /\ m.serviceGuid # g => services'[g] = services[g]
           /\ m.serviceGuid = g /\ m.topic = "register" =>
                services'[g] = Entry(m.registration, FALSE)
           /\ m.serviceGuid = g /\ m.topic = "unregister" => services'[g] = None
           /\ DOMAIN brokers' \subseteq Brokers
<1>1. services \in [ServiceGuids -> Entries \cup {None}] /\ DOMAIN brokers \subseteq Brokers
  BY DEF FabricTyped
<1>2. services' = IF Stored(m) THEN [services EXCEPT ![m.serviceGuid] = Recorded(m.registration)]
                  ELSE IF Removed(m) THEN [services EXCEPT ![m.serviceGuid] = None]
                  ELSE services
  BY DEF AcceptEvent
<1>3. DOMAIN brokers' \subseteq Brokers
  <2>1. NamesBroker(m) => m.guid \in Brokers
    BY GenuineShape DEF NamesBroker
  <2>2. DOMAIN brokers' \subseteq DOMAIN brokers \cup {m.guid}
        /\ (~NamesBroker(m) => brokers' = brokers)
    BY DEF AcceptEvent
  <2> QED BY <1>1, <2>1, <2>2
<1>4. DOMAIN services' = ServiceGuids /\ (m.serviceGuid # g => services'[g] = services[g])
  BY <1>1, <1>2
<1>5. ASSUME m.serviceGuid = g, m.topic = "register"
      PROVE  services'[g] = Entry(m.registration, FALSE)
  <2>1. m.registration \in Registrations
    BY <1>5, GenuineShape
  <2>2. Complete(m.registration) /\ Owner(m.registration) = Client
        /\ Recorded(m.registration) = Entry(m.registration, FALSE)
    BY <2>1, RegistrationShape
  <2>3. services[g] # None => services[g].owner = Client
    <3> SUFFICES ASSUME services[g] # None PROVE services[g].owner = Client
      OBVIOUS
    <3>1. PICK r \in Registrations, b \in BOOLEAN : services[g] = Entry(r, b)
      BY <1>1 DEF Entries
    <3> QED BY <3>1, EntryShape
  <2>4. Registers(m) /\ ~Hijack(m)
    BY <1>5, <2>2, <2>3, NoneIsNothing DEF Registers, Hijack, Hijacks
  <2> QED BY <1>1, <1>2, <1>5, <2>2, <2>4 DEF Stored
<1>6. ASSUME m.serviceGuid = g, m.topic = "unregister" PROVE services'[g] = None
  <2>1. ~Stored(m)
    BY <1>6 DEF Stored, Registers
  <2>2. ~Removed(m) => services[g] = None
    BY <1>6, NoneIsNothing DEF Removed
  <2> QED BY <1>1, <1>2, <1>6, <2>1, <2>2
<1> QED BY <1>3, <1>4, <1>5, <1>6

LEMMA SnapshotEffect ==
    ASSUME NEW d \in Directories, ProcessSyncResponse(d), NEW g \in ServiceGuids
    PROVE  /\ DOMAIN services' = ServiceGuids
           /\ brokers' = brokers
           /\ g \in DOMAIN d => d[g] \in Registrations /\ services'[g] = Entry(d[g], FALSE)
           /\ g \notin DOMAIN d => services'[g] = None
<1>1. PICK S \in SUBSET ServiceGuids : d \in [S -> Registrations]
  BY DEF Directories
<1>2. d \in [S -> RegistrationFields] /\ DOMAIN d = S
  BY <1>1, RegistrationShape
<1>3. d # None
  BY <1>2, NoneIsNothing
<1>4. Listed(d) = DOMAIN d
  BY <1>1, RegistrationShape DEF Listed
<1>5. /\ services' = [x \in ServiceGuids |-> IF x \in DOMAIN d THEN Recorded(d[x]) ELSE None]
      /\ brokers' = brokers
  BY <1>3, <1>4 DEF ProcessSyncResponse
<1> QED BY <1>1, <1>5, RegistrationShape

LEMMA SecondsPass ==
    ASSUME clock \in Nat
    PROVE  Secs \in Nat /\ (clock' = clock + 1 => Secs' \in Nat /\ Secs <= Secs')
<1>1. clock \in Nat /\ MsPerSec \in Nat \ {0}
  BY EngineAssumption
<1>2. /\ clock \div MsPerSec \in Nat
      /\ (clock + 1) \div MsPerSec \in Nat
      /\ clock \div MsPerSec <= (clock + 1) \div MsPerSec
  BY <1>1, SMTT(30)
<1> QED BY <1>2 DEF Secs

-----------------------------------------------------------------------------
(* The types *)

LEMMA PollHolds ==
    ASSUME FabricTyped, PollTimeouts, NEW g \in ServiceGuids
    PROVE  /\ services' \in [ServiceGuids -> Entries \cup {None}]
           /\ services[g] = None => services'[g] = None
           /\ services[g] # None => services'[g] # None
           /\ \A entry : Stands(services[g], entry) => Stands(services'[g], entry)
<1>1. \A x \in ServiceGuids : services[x] \in Entries \cup {None}
  BY DEF FabricTyped
<1>2. services' = [x \in ServiceGuids |->
                     IF Expired(x) THEN [services[x] EXCEPT !.reported = TRUE] ELSE services[x]]
  BY DEF PollTimeouts
<1>3. ASSUME NEW x \in ServiceGuids
      PROVE  /\ services'[x] \in Entries \cup {None}
             /\ services[x] = None => services'[x] = None
             /\ services[x] # None => services'[x] # None
             /\ \A entry : Stands(services[x], entry) => Stands(services'[x], entry)
  <2>1. CASE ~Expired(x)
    BY <1>1, <1>2, <2>1
  <2>2. CASE Expired(x)
    <3>1. services[x] # None
      BY <2>2 DEF Expired
    <3>2. PICK r \in Registrations, b \in BOOLEAN : services[x] = Entry(r, b)
      BY <1>1, <3>1 DEF Entries
    <3>3. services'[x] = [Entry(r, b) EXCEPT !.reported = TRUE]
      BY <1>2, <2>2, <3>2
    <3>4. services'[x] = Entry(r, TRUE)
      BY <3>3, EntryShape
    <3>5. services'[x] \in Entries /\ services'[x] # None
      BY <3>4, EntryShape
    <3>6. ASSUME NEW entry, Stands(services[x], entry) PROVE Stands(services'[x], entry)
      <4>1. entry # None /\ \E c \in BOOLEAN : services[x] = Entry(entry, c)
        BY <3>1, <3>6 DEF Stands
      <4>2. PICK c \in BOOLEAN : services[x] = Entry(entry, c)
        BY <4>1
      <4>3. r.registrationTime = entry.registrationTime
        BY <3>2, <4>2 DEF Entry
      <4>4. services'[x] = Entry(entry, TRUE)
        BY <3>4, <4>3 DEF Entry
      <4> QED BY <4>1, <4>4 DEF Stands
    <3> QED BY <3>1, <3>5, <3>6
  <2> QED BY <2>1, <2>2
<1> QED BY <1>2, <1>3

LEMMA TypedInit == SensorAllInit => FabricTyped /\ SessionInv
<1> SUFFICES ASSUME SensorAllInit PROVE FabricTyped /\ SessionInv
  OBVIOUS
<1>1. /\ clock = 0 /\ services = [g \in ServiceGuids |-> None] /\ DOMAIN brokers = {}
      /\ net = <<>> /\ requests = <<>> /\ late = {} /\ members = {HomeBroker} /\ conn = "down"
      /\ registry = [g \in ServiceGuids |-> None]
      /\ session = 0 /\ svcQuery = 0 /\ brokerQuery = 0 /\ lastPoll = 0 /\ pc = "await"
  BY DEF SensorAllInit, Init, EngineInit, SensorInit, FabricInit
<1>2. FabricTyped
  BY <1>1, SensorAssumption DEF FabricTyped
<1>3. 0 \in 0 .. Secs
  BY <1>1, SecondsPass
<1>4. Len(net) = 0 /\ Len(requests) = 0 /\ MaxNet \in Nat
  BY <1>1, SensorAssumption
<1>5. svcQuery \in 0 .. session /\ brokerQuery \in 0 .. session
  BY <1>1
<1>6. lastPoll \in 0 .. Secs /\ Len(net) + Len(requests) <= MaxNet + 3
  BY <1>1, <1>3, <1>4
<1> QED BY <1>1, <1>2, <1>5, <1>6 DEF SessionInv

LEMMA TypedEvent == ASSUME FabricTyped, HandleEvent PROVE FabricTyped'
<1> DEFINE m == Head(net).message
<1>1. /\ net # <<>> /\ Head(net).kind = "event"
      /\ IF EnvelopeSpoofed(m) THEN RejectEvent(m) ELSE ProcessEvent(m)
      /\ net' = Tail(net) /\ UNCHANGED <<clock, fabricVars>>
  BY DEF HandleEvent
<1>2. Head(net) \in Packets /\ Tail(net) \in Seq(Packets)
  BY <1>1, NetShape DEF FabricTyped
<1>3. m \in GenuineEvents \cup Impostors
  BY <1>1, <1>2, PacketShape
<1> HIDE DEF m
<1>4. RejectEvent(m) \/ (~EnvelopeSpoofed(m) /\ AcceptEvent(m))
  BY <1>1 DEF ProcessEvent
<1>5. services' \in [ServiceGuids -> Entries \cup {None}] /\ DOMAIN brokers' \subseteq Brokers
  <2>1. CASE RejectEvent(m)
    BY <2>1 DEF RejectEvent, FabricTyped
  <2>2. CASE ~EnvelopeSpoofed(m) /\ AcceptEvent(m)
    <3>1. m \in GenuineEvents
      BY <1>3, <2>2, ImpostorShape
    <3>2. \A g \in ServiceGuids : services'[g] \in Entries \cup {None}
      <4> SUFFICES ASSUME NEW g \in ServiceGuids PROVE services'[g] \in Entries \cup {None}
        OBVIOUS
      <4>1. CASE m.serviceGuid # g
        BY <2>2, <3>1, <4>1, GenuineEffect DEF FabricTyped
      <4>2. CASE m.serviceGuid = g
        <5>1. m.topic \in {"register", "unregister"}
          BY <3>1, <4>2, GenuineShape, NoneIsNothing
        <5>2. m.topic = "register" => m.registration \in Registrations
          BY <3>1, GenuineShape
        <5> QED BY <2>2, <3>1, <4>2, <5>1, <5>2, GenuineEffect, EntryShape
      <4> QED BY <4>1, <4>2
    <3>3. services' = [g \in ServiceGuids |-> services'[g]] /\ DOMAIN brokers' \subseteq Brokers
      <4>1. \/ services' = services
            \/ services' = [services EXCEPT ![m.serviceGuid] = Recorded(m.registration)]
            \/ services' = [services EXCEPT ![m.serviceGuid] = None]
        BY <2>2 DEF AcceptEvent
      <4>2. services' = [g \in ServiceGuids |-> services'[g]]
        BY <4>1 DEF FabricTyped
      <4>3. NamesBroker(m) => m.guid \in Brokers
        BY <3>1, GenuineShape DEF NamesBroker
      <4>4. DOMAIN brokers' \subseteq DOMAIN brokers \cup {m.guid}
            /\ (~NamesBroker(m) => brokers' = brokers)
        BY <2>2 DEF AcceptEvent
      <4> QED BY <4>2, <4>3, <4>4 DEF FabricTyped
    <3> QED BY <3>2, <3>3
  <2> QED BY <1>4, <2>1, <2>2
<1> QED BY <1>1, <1>2, <1>5 DEF FabricTyped, fabricVars

LEMMA TypedReply == ASSUME FabricTyped, HandleReply PROVE FabricTyped'
<1> DEFINE p == Head(net)
<1>1. /\ net # <<>> /\ p.kind = "reply"
      /\ HandleServiceReply(p) \/ HandleBrokerReply(p) \/ IgnoreReply(p)
      /\ net' = Tail(net) /\ UNCHANGED <<clock, fabricVars>>
  BY DEF HandleReply
<1>2. p \in Packets /\ Tail(net) \in Seq(Packets)
  BY <1>1, NetShape DEF FabricTyped
<1>3. p \in Replies
  BY <1>1, <1>2, PacketShape
<1> HIDE DEF p
<1>4. services' \in [ServiceGuids -> Entries \cup {None}] /\ DOMAIN brokers' \subseteq Brokers
  <2>1. CASE HandleServiceReply(p)
    <3>1. p.payload \in Directories /\ ProcessSyncResponse(p.payload)
      BY <1>3, <2>1, ReplyShape DEF HandleServiceReply, Answers
    <3>2. \A g \in ServiceGuids : services'[g] \in Entries \cup {None}
      <4> SUFFICES ASSUME NEW g \in ServiceGuids PROVE services'[g] \in Entries \cup {None}
        OBVIOUS
      <4> DEFINE d == p.payload
      <4>1. d \in Directories /\ ProcessSyncResponse(d)
        BY <3>1
      <4> HIDE DEF d
      <4>2. /\ g \in DOMAIN d => d[g] \in Registrations /\ services'[g] = Entry(d[g], FALSE)
            /\ g \notin DOMAIN d => services'[g] = None
        BY <4>1, SnapshotEffect
      <4> QED BY <4>2, EntryShape
    <3>3. services' \in [ServiceGuids -> Entries \cup {None}]
      <4>1. services' = services \/
              services' = [g \in ServiceGuids |-> IF g \in Listed(p.payload) THEN Recorded(p.payload[g]) ELSE None]
        BY <3>1 DEF ProcessSyncResponse
      <4> QED BY <4>1, <3>2 DEF FabricTyped
    <3> QED BY <3>1, <3>3 DEF ProcessSyncResponse, FabricTyped
  <2>2. CASE HandleBrokerReply(p)
    <3>1. p.payload \in BrokerDirectories /\ ProcessBrokerSyncResponse(p.payload)
      BY <1>3, <2>2, ReplyShape DEF HandleBrokerReply, Answers
    <3>2. DOMAIN p.payload \subseteq Brokers
      BY <3>1 DEF BrokerDirectories
    <3>3. DOMAIN brokers' \subseteq DOMAIN brokers \cup DOMAIN p.payload
      BY <3>1 DEF ProcessBrokerSyncResponse
    <3> QED BY <3>1, <3>2, <3>3 DEF ProcessBrokerSyncResponse, FabricTyped
  <2>3. CASE IgnoreReply(p)
    BY <2>3 DEF IgnoreReply, engineVars, FabricTyped
  <2> QED BY <1>1, <2>1, <2>2, <2>3
<1> QED BY <1>1, <1>2, <1>4 DEF FabricTyped, fabricVars

LEMMA TypedCheck == ASSUME FabricTyped, CheckPoll PROVE FabricTyped'
<1>1. PollTimeouts => services' \in [ServiceGuids -> Entries \cup {None}] /\ brokers' = brokers
  <2> SUFFICES ASSUME PollTimeouts
               PROVE  services' \in [ServiceGuids -> Entries \cup {None}] /\ brokers' = brokers
    OBVIOUS
  <2>1. brokers' = brokers /\ services' = [x \in ServiceGuids |-> services'[x]]
    BY DEF PollTimeouts
  <2>2. \A x \in ServiceGuids : services'[x] \in Entries \cup {None}
    BY PollHolds
  <2> QED BY <2>1, <2>2
<1>2. UNCHANGED engineVars => UNCHANGED <<services, brokers>>
  BY DEF engineVars
<1> QED BY <1>1, <1>2 DEF CheckPoll, FabricTyped, fabricVars, engineVars

LEMMA RequestShapes ==
    /\ Head(<<"subscribe", "services", "brokers">>) = "subscribe"
    /\ Tail(<<"subscribe", "services", "brokers">>) = <<"services", "brokers">>
    /\ Head(<<"services", "brokers">>) = "services"
    /\ Tail(<<"services", "brokers">>) = <<"brokers">>
    /\ Head(<<"brokers">>) = "brokers" /\ Tail(<<"brokers">>) = <<>>
    /\ Len(<<"subscribe", "services", "brokers">>) = 3 /\ Len(<<"services", "brokers">>) = 2
    /\ Len(<<"brokers">>) = 1 /\ Len(<<>>) = 0
    /\ <<"subscribe", "services", "brokers">> # <<>> /\ <<"services", "brokers">> # <<>>
    /\ <<"brokers">> # <<>> /\ <<"services", "brokers">> # <<"brokers">>
OBVIOUS

\* Who answers a query has been asked in this session.
LEMMA QueryAsked ==
    ASSUME SessionInv, requests # <<>>, Head(requests) # "subscribe"
    PROVE  /\ conn = "subscribed"
           /\ \/ /\ requests = <<"services", "brokers">>
                 /\ Head(requests) = "services" /\ Tail(requests) = <<"brokers">>
              \/ /\ requests = <<"brokers">>
                 /\ Head(requests) = "brokers" /\ Tail(requests) = <<>>
BY RequestShapes DEF SessionInv

LEMMA AnswerShape ==
    ASSUME FabricTyped
    PROVE  Answer("services") \in Directories /\ Answer("brokers") \in BrokerDirectories
<1>1. Answer("services") \in Directories
  <2> DEFINE S == {x \in ServiceGuids : registry[x] # None}
  <2>1. Answer("services") = [g \in S |-> registry[g]]
    BY DEF Answer
  <2>2. S \in SUBSET ServiceGuids /\ [g \in S |-> registry[g]] \in [S -> Registrations]
    BY DEF FabricTyped
  <2> QED BY <2>1, <2>2 DEF Directories
<1>2. Answer("brokers") = [b \in members |-> AnyState]
  BY DEF Answer
<1>3. members \in SUBSET Brokers /\ [b \in members |-> AnyState] \in [members -> {AnyState}]
  BY DEF FabricTyped
<1> QED BY <1>1, <1>2, <1>3 DEF BrokerDirectories

LEMMA TakeQueryReply ==
    ASSUME FabricTyped, SessionInv, requests # <<>>, Head(requests) # "subscribe"
    PROVE  /\ Reply("response", Head(requests), session, Answer(Head(requests))) \in Replies
           /\ Reply("error", Head(requests), session, None) \in Replies
<1>1. Head(requests) \in {"services", "brokers"} /\ session \in Nat
  BY QueryAsked DEF SessionInv
<1>2. Reply("error", Head(requests), session, None) \in Replies
  BY <1>1 DEF Replies
<1>3. CASE Head(requests) = "services"
  <2>1. Reply("response", "services", session, Answer("services")) \in Replies
    BY <1>1, AnswerShape DEF Replies
  <2> QED BY <1>2, <1>3, <2>1
<1>4. CASE Head(requests) = "brokers"
  <2>1. Reply("response", "brokers", session, Answer("brokers")) \in Replies
    BY <1>1, AnswerShape DEF Replies
  <2> QED BY <1>2, <1>4, <2>1
<1> QED BY <1>1, <1>3, <1>4

LEMMA TypedEmit ==
    ASSUME FabricTyped, NEW m \in GenuineEvents \cup Impostors, Emit(m)
    PROVE  net' \in Seq(Packets)
<1>1. Publication(m) \in Packets
  BY DEF Packets
<1> QED BY <1>1, AppendProperties DEF Emit, FabricTyped

LEMMA TypedFabric == ASSUME FabricTyped, SessionInv, Fabric PROVE FabricTyped'
<1>0. Replies \subseteq Packets /\ ConnAck \in Packets /\ \A S : <<>> \in Seq(S)
  BY DEF Packets
<1>1. CASE Connect
  <2>1. <<ConnAck>> \in Seq(Packets)
    BY <1>0
  <2> QED BY <1>1, <2>1 DEF Connect, FabricTyped, engineVars
<1>2. CASE Disconnect \/ TakeSubscribe
  BY <1>0, <1>2 DEF Disconnect, TakeSubscribe, FabricTyped, engineVars
<1>3. CASE TakeQuery
  <2> DEFINE reply == Reply("response", Head(requests), session, Answer(Head(requests)))
  <2>1. reply \in Replies
    BY <1>3, TakeQueryReply DEF TakeQuery
  <2>2. /\ net' = net \/ net' = Append(net, reply)
        /\ late' = late \/ late' = late \cup {reply}
        /\ UNCHANGED <<engineVars, clock, registry, members>>
    BY <1>3 DEF TakeQuery
  <2> HIDE DEF reply
  <2>3. net' \in Seq(Packets)
    BY <1>0, <2>1, <2>2, AppendProperties DEF FabricTyped
  <2> QED BY <2>1, <2>2, <2>3 DEF FabricTyped, engineVars
<1>4. CASE RefuseQuery
  <2> DEFINE reply == Reply("error", Head(requests), session, None)
  <2>1. reply \in Packets
    BY <1>0, <1>4, TakeQueryReply DEF RefuseQuery
  <2>2. net' = Append(net, reply) /\ UNCHANGED <<engineVars, clock, late, registry, members>>
    BY <1>4 DEF RefuseQuery
  <2> HIDE DEF reply
  <2>3. net' \in Seq(Packets)
    BY <2>1, <2>2, AppendProperties DEF FabricTyped
  <2> QED BY <2>2, <2>3 DEF FabricTyped, engineVars
<1>5. ASSUME NEW reply \in late, DeliverLate(reply) PROVE FabricTyped'
  <2>1. reply \in Packets /\ net' = Append(net, reply)
    BY <1>0, <1>5 DEF DeliverLate, FabricTyped
  <2>2. net' \in Seq(Packets)
    BY <2>1, AppendProperties DEF FabricTyped
  <2> QED BY <1>5, <2>2 DEF DeliverLate, FabricTyped, engineVars
<1>6. ASSUME NEW g \in ServiceGuids, RegisterService(g) PROVE FabricTyped'
  <2>1. Registered(Secs) \in Registrations
    BY SecondsPass DEF FabricTyped, Registrations
  <2>2. RegisterEvent(g, Registered(Secs)) \in GenuineEvents
    BY <2>1 DEF GenuineEvents
  <2>3. net' \in Seq(Packets)
    BY <1>6, <2>2, TypedEmit DEF RegisterService
  <2> QED BY <1>6, <2>1, <2>3 DEF RegisterService, FabricTyped, engineVars
<1>7. ASSUME NEW g \in ServiceGuids, RemoveService(g) PROVE FabricTyped'
  <2>1. UnregisterEvent(g) \in GenuineEvents
    BY DEF GenuineEvents
  <2>2. net' \in Seq(Packets)
    BY <1>7, <2>1, TypedEmit DEF RemoveService
  <2> QED BY <1>7, <2>2 DEF RemoveService, FabricTyped, engineVars
<1>8. ASSUME NEW b \in Brokers, BrokerReports(b) PROVE FabricTyped'
  <2>1. BrokerStateEvent(b) \in GenuineEvents
    BY DEF GenuineEvents
  <2>2. net' \in Seq(Packets)
    BY <1>8, <2>1, TypedEmit DEF BrokerReports
  <2> QED BY <1>8, <2>2 DEF BrokerReports, FabricTyped, engineVars
<1>9. ASSUME NEW m \in Impostors, ImpostorPublishes(m) PROVE FabricTyped'
  <2>1. Publication(m) \in Packets /\ net' = Append(net, Publication(m))
    BY <1>9 DEF Packets, ImpostorPublishes
  <2>2. net' \in Seq(Packets)
    BY <2>1, AppendProperties DEF FabricTyped
  <2> QED BY <1>9, <2>2 DEF ImpostorPublishes, FabricTyped, engineVars, fabricVars
<1> QED BY <1>1, <1>2, <1>3, <1>4, <1>5, <1>6, <1>7, <1>8, <1>9 DEF Fabric

LEMMA TypedNext == FabricTyped /\ SessionInv /\ [SensorNext]_sensorVars => FabricTyped'
<1> SUFFICES ASSUME FabricTyped, SessionInv, [SensorNext]_sensorVars PROVE FabricTyped'
  OBVIOUS
<1>1. CASE HandleConnAck
  <2>1. net' \in Seq(Packets)
    BY <1>1, NetShape DEF HandleConnAck, FabricTyped
  <2> QED BY <1>1, <2>1 DEF HandleConnAck, FabricTyped, engineVars
<1>2. CASE Idle
  BY <1>2 DEF Idle, FabricTyped, engineVars, fabricVars
<1>3. CASE TimePasses
  BY <1>3 DEF TimePasses, Tick, FabricTyped, engineVars, fabricVars
<1>4. CASE UNCHANGED sensorVars
  BY <1>4 DEF sensorVars, FabricTyped, engineVars, fabricVars
<1> QED BY <1>1, <1>2, <1>3, <1>4, TypedEvent, TypedReply, TypedCheck, TypedFabric
     DEF SensorNext, Loop

-----------------------------------------------------------------------------
(* The session is kept *)

LEMMA NetPositions ==
    ASSUME NEW q \in Seq(Packets)
    PROVE  /\ q # <<>> => \A i \in DOMAIN Tail(q) : i + 1 \in DOMAIN q /\ Tail(q)[i] = q[i + 1]
           /\ q # <<>> => 1 \in DOMAIN q /\ Head(q) = q[1]
           /\ \A i \in DOMAIN q : i \in Nat \ {0}
BY NetShape, LenProperties

\* The sensor reads a packet of the session.
LEMMA SessionReads ==
    ASSUME FabricTyped, SessionInv, net # <<>>, Head(net) # ConnAck, net' = Tail(net),
           UNCHANGED <<clock, conn, session, requests, lastPoll>>, pc' = "check",
           brokerQuery' \in {0, brokerQuery},
           svcQuery' = svcQuery \/ (svcQuery' = 0 /\ IsSnapshot(Head(net), session))
    PROVE  SessionInv' /\ conn = "subscribed"
<1>1. /\ Len(net) \in Nat \ {0} /\ Len(Tail(net)) = Len(net) - 1
      /\ \A i \in DOMAIN Tail(net) : /\ i \in Nat \ {0} /\ i + 1 \in DOMAIN net
                                     /\ Tail(net)[i] = net[i + 1]
      /\ 1 \in DOMAIN net /\ Head(net) = net[1]
  BY NetShape, NetPositions DEF FabricTyped
<1>2. conn = "subscribed"
  <2>1. net # <<ConnAck>>
    OBVIOUS
  <2> QED BY <2>1 DEF SessionInv
<1>3. Len(requests) \in Nat
  BY <1>2, RequestShapes DEF SessionInv
<1>4. Len(net') + Len(requests') <= MaxNet + 3
  <2>1. Len(net) + Len(requests) <= MaxNet + 3 /\ MaxNet \in Nat
    BY SensorAssumption DEF SessionInv
  <2> QED BY <2>1, <1>1, <1>3
<1>5. svcQuery' \in 0 .. session /\ svcQuery' \in {0, session} /\ brokerQuery' \in 0 .. session
      /\ session \in Nat /\ session # 0
  BY <1>2 DEF SessionInv
<1>6. ConnAck \notin InFlight'
  BY <1>1, <1>2 DEF SessionInv, InFlight
<1>7. NoSnapshot => NoSnapshot'
  BY <1>1 DEF NoSnapshot
<1>8. IsSnapshot(Head(net), session) => NoSnapshot'
  <2> SUFFICES ASSUME IsSnapshot(net[1], session), NEW i \in DOMAIN Tail(net),
                      IsSnapshot(Tail(net)[i], session)
               PROVE  FALSE
    BY <1>1 DEF NoSnapshot
  <2>1. i + 1 = 1
    BY <1>1, <1>2 DEF SessionInv
  <2> QED BY <2>1, <1>1
<1>9. requests = <<"services", "brokers">> => svcQuery' = svcQuery
  BY <1>1, <1>2 DEF SessionInv, NoSnapshot
<1>10. svcQuery' = 0 => NoSnapshot'
  BY <1>2, <1>7, <1>8 DEF SessionInv
<1>11. \A i, j \in DOMAIN net' :
          IsSnapshot(net'[i], session') /\ IsSnapshot(net'[j], session') => i = j
  <2> SUFFICES ASSUME NEW i \in DOMAIN Tail(net), NEW j \in DOMAIN Tail(net),
                      IsSnapshot(Tail(net)[i], session), IsSnapshot(Tail(net)[j], session)
               PROVE  i = j
    OBVIOUS
  <2>1. i + 1 = j + 1
    BY <1>1, <1>2 DEF SessionInv
  <2> QED BY <2>1, <1>1
<1>12. requests' = <<"services", "brokers">> => svcQuery' = session' /\ NoSnapshot'
  BY <1>2, <1>7, <1>9 DEF SessionInv
<1>13. requests' \in {<<"services", "brokers">>, <<"brokers">>, <<>>} /\ conn' = "subscribed"
  BY <1>2 DEF SessionInv
<1>14. lastPoll' \in 0 .. Secs' /\ pc' \in {"await", "check"}
  BY DEF SessionInv, Secs
<1> QED BY <1>2, <1>4, <1>5, <1>6, <1>10, <1>11, <1>12, <1>13, <1>14 DEF SessionInv

\* A packet that is no snapshot of this session is sent to the sensor.
LEMMA SessionAdds ==
    ASSUME FabricTyped, SessionInv, conn = "subscribed", NEW p \in Packets, p # ConnAck,
           ~IsSnapshot(p, session), net' = Append(net, p),
           UNCHANGED <<clock, conn, session, svcQuery, brokerQuery, lastPoll, pc>>,
           \/ Len(net) < MaxNet /\ requests' = requests
           \/ requests # <<>> /\ requests' = Tail(requests) /\ Head(requests) # "subscribe"
    PROVE  SessionInv'
<1>1. /\ Len(net) \in Nat /\ Len(net') = Len(net) + 1
      /\ \A i \in DOMAIN net' : i \in DOMAIN net \/ i = Len(net) + 1
      /\ \A i \in DOMAIN net : net'[i] = net[i]
      /\ net'[Len(net) + 1] = p
  BY LongerShape DEF FabricTyped
<1>2. requests' \in {<<"services", "brokers">>, <<"brokers">>, <<>>}
      /\ (requests' = <<"services", "brokers">> => requests' = requests)
  BY QueryAsked, RequestShapes DEF SessionInv
<1>3. Len(net') + Len(requests') <= MaxNet + 3
  <2>1. Len(net) + Len(requests) <= MaxNet + 3 /\ MaxNet \in Nat
    BY SensorAssumption DEF SessionInv
  <2>2. CASE Len(net) < MaxNet /\ requests' = requests
    <3>1. Len(requests) \in 0 .. 2
      BY RequestShapes DEF SessionInv
    <3>2. Len(requests') = Len(requests) /\ Len(net') = Len(net) + 1 /\ Len(net) < MaxNet
      BY <1>1, <2>2
    <3> QED BY ONLY <2>1, <3>1, <3>2, <1>1
  <2>3. CASE requests # <<>> /\ requests' = Tail(requests) /\ Head(requests) # "subscribe"
    <3>1. Len(requests) \in 1 .. 2 /\ Len(requests') = Len(requests) - 1
      BY <2>3, QueryAsked, RequestShapes
    <3> QED BY <2>1, <3>1, <1>1
  <2> QED BY <2>2, <2>3
<1>4. ConnAck \notin InFlight'
  BY <1>1 DEF SessionInv, InFlight
<1>5. NoSnapshot => NoSnapshot'
  BY <1>1 DEF NoSnapshot
<1>6. \A i, j \in DOMAIN net' :
         IsSnapshot(net'[i], session') /\ IsSnapshot(net'[j], session') => i = j
  BY <1>1 DEF SessionInv
<1>7. lastPoll' \in 0 .. Secs'
  BY DEF SessionInv, Secs
<1> QED BY <1>2, <1>3, <1>4, <1>5, <1>6, <1>7 DEF SessionInv

\* The home broker answers the query for the services.
LEMMA SessionSnapshot ==
    ASSUME FabricTyped, SessionInv, conn = "subscribed", requests = <<"services", "brokers">>,
           NEW p \in Packets, p # ConnAck,
           net' = Append(net, p) \/ net' = net, requests' = Tail(requests),
           UNCHANGED <<clock, conn, session, svcQuery, brokerQuery, lastPoll, pc>>
    PROVE  SessionInv'
<1>0. svcQuery = session /\ session # 0 /\ NoSnapshot /\ ConnAck \notin InFlight
  BY DEF SessionInv
<1>1. Len(requests) = 2 /\ requests' = <<"brokers">> /\ Len(requests') = 1
      /\ requests' # <<"services", "brokers">>
  BY RequestShapes
<1>2. /\ Len(net) \in Nat /\ Len(net') <= Len(net) + 1 /\ Len(net') \in Nat
      /\ \A i \in DOMAIN net' : /\ i \in DOMAIN net \/ i = Len(net) + 1
                                /\ net'[i] = net[i] \/ net'[i] = p
                                /\ i \in DOMAIN net => net'[i] = net[i]
  <2>1. Len(net) \in Nat
    BY LenProperties DEF FabricTyped
  <2>2. CASE net' = net
    BY <2>1, <2>2
  <2>3. CASE net' = Append(net, p)
    <3>1. /\ Len(net') = Len(net) + 1
          /\ DOMAIN net = 1 .. Len(net) /\ DOMAIN net' = 1 .. Len(net) + 1
          /\ \A i \in 1 .. Len(net) : net'[i] = net[i]
          /\ net'[Len(net) + 1] = p
      BY <2>3, LongerShape DEF FabricTyped
    <3>2. \A i \in 1 .. Len(net) + 1 : i \in 1 .. Len(net) \/ i = Len(net) + 1
      BY <2>1
    <3> QED BY <2>1, <3>1, <3>2
  <2> QED BY <2>2, <2>3
<1>3. Len(net') + Len(requests') <= MaxNet + 3
  <2>1. Len(net) + Len(requests) <= MaxNet + 3 /\ MaxNet \in Nat
    BY SensorAssumption DEF SessionInv
  <2> QED BY <2>1, <1>1, <1>2
<1>4. ConnAck \notin InFlight'
  BY <1>0, <1>2 DEF InFlight
<1>5. \A i, j \in DOMAIN net' :
         IsSnapshot(net'[i], session') /\ IsSnapshot(net'[j], session') => i = j
  <2>1. \A i \in DOMAIN net' : IsSnapshot(net'[i], session) => i = Len(net) + 1
    BY <1>0, <1>2 DEF NoSnapshot
  <2> QED BY <2>1
<1>6. lastPoll' \in 0 .. Secs'
  BY DEF SessionInv, Secs
<1> QED BY <1>0, <1>1, <1>3, <1>4, <1>5, <1>6 DEF SessionInv

\* A step that changes neither the session nor what is in flight.
LEMMA SessionStays ==
    ASSUME SessionInv, UNCHANGED <<conn, session, requests, net, svcQuery, brokerQuery>>,
           pc' \in {"await", "check"}, lastPoll' \in 0 .. Secs'
    PROVE  SessionInv'
BY DEF SessionInv, NoSnapshot, InFlight

LEMMA SessionEmits ==
    ASSUME FabricTyped, SessionInv, NEW m \in GenuineEvents, Len(net) < MaxNet, Emit(m),
           UNCHANGED <<clock, loopVars, conn, session, requests>>
    PROVE  SessionInv'
<1>1. Publication(m) \in Packets /\ Publication(m).kind = "event" /\ ConnAck.kind = "connack"
  BY DEF Packets, Publication, ConnAck
<1>2. Publication(m) # ConnAck /\ ~IsSnapshot(Publication(m), session)
  BY <1>1 DEF IsSnapshot
<1>3. CASE conn = "subscribed"
  BY <1>1, <1>2, <1>3, SessionAdds DEF Emit, loopVars
<1>4. CASE conn # "subscribed"
  <2>1. lastPoll' \in 0 .. Secs' /\ pc' \in {"await", "check"}
    BY DEF SessionInv, Secs, loopVars
  <2> QED BY <1>4, <2>1, SessionStays DEF Emit, loopVars
<1> QED BY <1>3, <1>4

LEMMA SessionConnAck ==
    ASSUME FabricTyped, SessionInv, HandleConnAck
    PROVE  SessionInv' /\ conn = "up"
<1>1. /\ net # <<>> /\ Head(net) = ConnAck /\ requests' = <<"subscribe", "services", "brokers">>
      /\ svcQuery' = session /\ brokerQuery' = session /\ net' = Tail(net) /\ pc' = "check"
      /\ UNCHANGED <<clock, lastPoll, conn, session>>
  BY DEF HandleConnAck
<1>2. ConnAck \in InFlight
  BY <1>1, NetPositions DEF FabricTyped, InFlight
<1>3. conn = "up" /\ net = <<ConnAck>>
  BY <1>1, <1>2 DEF SessionInv
<1>4. net' = <<>>
  BY <1>1, <1>3
<1>5. session \in Nat /\ session # 0 /\ lastPoll' \in 0 .. Secs'
  BY <1>1, <1>3 DEF SessionInv, Secs
<1>6. Len(net') + Len(requests') <= MaxNet + 3
  <2>1. Len(net') = 0 /\ Len(requests') = 3 /\ MaxNet \in Nat
    BY <1>1, <1>4, RequestShapes, SensorAssumption
  <2> QED BY <2>1
<1>7. svcQuery' \in 0 .. session' /\ brokerQuery' \in 0 .. session'
  BY <1>1, <1>5
<1> QED BY <1>1, <1>3, <1>4, <1>5, <1>6, <1>7 DEF SessionInv

LEMMA SessionConnects ==
    ASSUME SessionInv, Connect \/ Disconnect \/ TakeSubscribe PROVE SessionInv'
<1>0. /\ UNCHANGED <<clock, pc, svcQuery, brokerQuery, lastPoll>>
      /\ lastPoll' \in 0 .. Secs' /\ pc' \in {"await", "check"} /\ MaxNet \in Nat
  BY SensorAssumption DEF Connect, Disconnect, TakeSubscribe, loopVars, SessionInv, Secs
<1>1. CASE Connect
  <2>1. /\ conn' = "up" /\ session' = session + 1 /\ net' = <<ConnAck>> /\ requests' = <<>>
        /\ svcQuery' = svcQuery /\ brokerQuery' = brokerQuery
    BY <1>1 DEF Connect, SessionInv, loopVars
  <2>2. /\ session' \in Nat /\ session' # 0
        /\ svcQuery' \in 0 .. session' /\ brokerQuery' \in 0 .. session'
    BY <2>1 DEF SessionInv
  <2>3. Len(net') = 1 /\ Len(requests') = 0
    BY <2>1
  <2>4. Len(net') + Len(requests') <= MaxNet + 3
    BY <2>3, <1>0
  <2> QED BY <1>0, <2>1, <2>2, <2>4 DEF SessionInv
<1>2. CASE Disconnect
  <2>1. /\ conn' = "down" /\ session' = session /\ net' = <<>> /\ requests' = <<>>
        /\ svcQuery' = svcQuery /\ brokerQuery' = brokerQuery
    BY <1>2 DEF Disconnect, loopVars
  <2>2. Len(net') = 0 /\ Len(requests') = 0
    BY <2>1
  <2>3. Len(net') + Len(requests') <= MaxNet + 3
    BY <2>2, <1>0
  <2>4. session' \in Nat /\ svcQuery' \in 0 .. session' /\ brokerQuery' \in 0 .. session'
    BY <2>1 DEF SessionInv
  <2> QED BY <1>0, <2>1, <2>3, <2>4 DEF SessionInv
<1>3. CASE TakeSubscribe
  <2>1. /\ requests # <<>> /\ Head(requests) = "subscribe" /\ conn' = "subscribed"
        /\ requests' = Tail(requests) /\ UNCHANGED <<session, svcQuery, brokerQuery, net>>
    BY <1>3 DEF TakeSubscribe, loopVars
  <2>2. /\ net = <<>> /\ svcQuery = session /\ session # 0
        /\ requests = <<"subscribe", "services", "brokers">>
    BY <2>1, RequestShapes DEF SessionInv
  <2>3. requests' = <<"services", "brokers">> /\ Len(requests') = 2 /\ Len(net') = 0
        /\ Len(net') + Len(requests') <= MaxNet + 3
    BY <1>0, <2>1, <2>2, RequestShapes
  <2>4. DOMAIN net' = {} /\ InFlight' = {} /\ NoSnapshot'
    BY <2>1, <2>2 DEF InFlight, NoSnapshot
  <2>5. session' \in Nat /\ svcQuery' \in 0 .. session' /\ brokerQuery' \in 0 .. session'
    BY <2>1 DEF SessionInv
  <2> QED BY <1>0, <2>1, <2>2, <2>3, <2>4, <2>5 DEF SessionInv
<1> QED BY <1>1, <1>2, <1>3

LEMMA SessionAnswers ==
    ASSUME FabricTyped, SessionInv, TakeQuery \/ RefuseQuery
    PROVE  SessionInv' /\ conn = "subscribed"
<1> DEFINE reply == Reply("response", Head(requests), session, Answer(Head(requests)))
           error == Reply("error", Head(requests), session, None)
<1>1. /\ requests # <<>> /\ Head(requests) # "subscribe" /\ requests' = Tail(requests)
      /\ UNCHANGED <<clock, conn, session, svcQuery, brokerQuery, lastPoll, pc>>
  BY DEF TakeQuery, RefuseQuery, loopVars
<1>2. conn = "subscribed"
  BY <1>1, QueryAsked
<1>3. reply \in Packets /\ error \in Packets
  BY <1>1, TakeQueryReply DEF Packets
<1>4. reply # ConnAck /\ error # ConnAck /\ ~IsSnapshot(error, session)
      /\ (Head(requests) = "brokers" => ~IsSnapshot(reply, session))
  <2>1. /\ reply.kind = "reply" /\ error.kind = "reply" /\ ConnAck.kind = "connack"
        /\ error.type = "error" /\ reply.query = Head(requests)
    BY DEF Reply, ConnAck
  <2> QED BY <2>1 DEF IsSnapshot
<1>5. /\ TakeQuery => net' \in {net, Append(net, reply)}
      /\ RefuseQuery => net' = Append(net, error)
  BY DEF TakeQuery, RefuseQuery
<1> HIDE DEF reply, error
<1>6. CASE net' = Append(net, error)
  BY <1>1, <1>2, <1>3, <1>4, <1>6, SessionAdds
<1>7. CASE net' \in {net, Append(net, reply)} /\ requests = <<"services", "brokers">>
  BY <1>1, <1>2, <1>3, <1>4, <1>7, SessionSnapshot
<1>8. CASE net' = Append(net, reply) /\ Head(requests) = "brokers"
  BY <1>1, <1>2, <1>3, <1>4, <1>8, SessionAdds
<1>9. CASE net' = net /\ requests = <<"brokers">>
  <2>1. requests' = <<>> /\ Len(requests) = 1 /\ Len(requests') = 0
    BY <1>1, <1>9, RequestShapes
  <2>2. Len(net') + Len(requests') <= MaxNet + 3
    <3>1. Len(net) \in Nat /\ Len(net) + Len(requests) <= MaxNet + 3 /\ MaxNet \in Nat
      BY SensorAssumption, LenProperties DEF SessionInv, FabricTyped
    <3>2. Len(net') = Len(net)
      BY <1>9
    <3> QED BY <3>1, <3>2, <2>1
  <2>3. lastPoll' \in 0 .. Secs' /\ InFlight' = InFlight /\ (NoSnapshot => NoSnapshot')
    BY <1>1, <1>9 DEF SessionInv, Secs, InFlight, NoSnapshot
  <2> QED BY <1>1, <1>2, <1>9, <2>1, <2>2, <2>3, RequestShapes DEF SessionInv
<1> QED BY <1>1, <1>2, <1>5, <1>6, <1>7, <1>8, <1>9, QueryAsked

LEMMA SessionReceives ==
    ASSUME FabricTyped, SessionInv, HandleEvent \/ HandleReply
    PROVE  SessionInv' /\ conn = "subscribed"
<1>1. /\ net # <<>> /\ Head(net).kind # "connack" /\ net' = Tail(net) /\ pc' = "check"
      /\ UNCHANGED <<clock, conn, session, requests, lastPoll>>
  BY DEF HandleEvent, HandleReply, fabricVars
<1>2. Head(net) # ConnAck
  BY <1>1 DEF ConnAck
<1>3. CASE HandleEvent
  BY <1>1, <1>2, <1>3, SessionReads DEF HandleEvent
<1>4. CASE HandleReply
  <2>1. Head(net).kind = "reply"
    BY <1>4 DEF HandleReply
  <2>2. CASE HandleServiceReply(Head(net))
    <3>1. svcQuery \in {0, session}
      BY <1>1, <1>2 DEF SessionInv
    <3>2. IsSnapshot(Head(net), session) /\ svcQuery' = 0 /\ brokerQuery' = brokerQuery
      BY <2>1, <2>2, <3>1 DEF HandleServiceReply, Answers, IsSnapshot
    <3> QED BY <1>1, <1>2, <3>2, SessionReads
  <2>3. CASE HandleBrokerReply(Head(net)) \/ IgnoreReply(Head(net))
    <3>1. svcQuery' = svcQuery /\ brokerQuery' \in {0, brokerQuery}
      BY <2>3 DEF HandleBrokerReply, IgnoreReply
    <3> QED BY <1>1, <1>2, <3>1, SessionReads
  <2> QED BY <1>4, <2>2, <2>3 DEF HandleReply
<1> QED BY <1>3, <1>4

LEMMA SessionNext == FabricTyped /\ SessionInv /\ [SensorNext]_sensorVars => SessionInv'
<1> SUFFICES ASSUME FabricTyped, SessionInv, [SensorNext]_sensorVars PROVE SessionInv'
  OBVIOUS
<1>0. lastPoll \in 0 .. Secs /\ Secs \in Nat /\ pc \in {"await", "check"}
  BY SecondsPass DEF SessionInv, FabricTyped
<1>1. CASE Idle \/ CheckPoll
  <2>1. Secs' = Secs
    BY <1>1 DEF Idle, CheckPoll, Secs
  <2>2. lastPoll' \in {lastPoll, Secs} /\ pc' \in {"await", "check"}
    BY <1>1 DEF Idle, CheckPoll
  <2> QED BY <1>0, <1>1, <2>1, <2>2, SessionStays DEF Idle, CheckPoll, fabricVars
<1>2. ASSUME NEW p \in late, DeliverLate(p) PROVE SessionInv'
  <2>1. p \in Replies /\ p.session < session
    BY <1>2 DEF DeliverLate, FabricTyped
  <2>2. p \in Packets /\ p.kind = "reply" /\ p.session \in Nat /\ session \in Nat
    BY <2>1, ReplyShape DEF Packets, SessionInv
  <2>3. p # ConnAck /\ ~IsSnapshot(p, session)
    BY <2>1, <2>2 DEF ConnAck, IsSnapshot
  <2> QED BY <1>2, <2>2, <2>3, SessionAdds DEF DeliverLate, loopVars
<1>3. ASSUME NEW g \in ServiceGuids, RegisterService(g) PROVE SessionInv'
  <2>1. RegisterEvent(g, Registered(Secs)) \in GenuineEvents
    BY <1>0 DEF GenuineEvents, Registrations
  <2> QED BY <1>3, <2>1, SessionEmits DEF RegisterService
<1>4. ASSUME NEW g \in ServiceGuids, RemoveService(g) PROVE SessionInv'
  <2>1. UnregisterEvent(g) \in GenuineEvents
    BY DEF GenuineEvents
  <2> QED BY <1>4, <2>1, SessionEmits DEF RemoveService
<1>5. ASSUME NEW b \in Brokers, BrokerReports(b) PROVE SessionInv'
  <2>1. BrokerStateEvent(b) \in GenuineEvents
    BY DEF GenuineEvents
  <2> QED BY <1>5, <2>1, SessionEmits DEF BrokerReports
<1>6. ASSUME NEW m \in Impostors, ImpostorPublishes(m) PROVE SessionInv'
  <2>1. Publication(m) \in Packets /\ Publication(m).kind = "event" /\ ConnAck.kind = "connack"
    BY DEF Packets, Publication, ConnAck
  <2>2. Publication(m) # ConnAck /\ ~IsSnapshot(Publication(m), session)
    BY <2>1 DEF IsSnapshot
  <2> QED BY <1>6, <2>1, <2>2, SessionAdds DEF ImpostorPublishes, loopVars, fabricVars
<1>7. CASE TimePasses \/ UNCHANGED sensorVars
  <2>1. UNCHANGED <<conn, session, requests, net, svcQuery, brokerQuery, pc, lastPoll>>
    BY <1>7 DEF TimePasses, sensorVars, loopVars, fabricVars
  <2>2. clock' = clock + 1 \/ clock' = clock
    BY <1>7 DEF TimePasses, Tick, sensorVars
  <2>3. Secs' \in Nat /\ Secs <= Secs'
    BY <1>0, <2>2, SecondsPass DEF FabricTyped, Secs
  <2> QED BY <1>0, <2>1, <2>3, SessionStays
<1> QED BY <1>1, <1>2, <1>3, <1>4, <1>5, <1>6, <1>7, SessionReceives, SessionConnAck,
           SessionConnects, SessionAnswers DEF SensorNext, Loop, Fabric

LEMMA SessionCorrect == SensorSpec => [](FabricTyped /\ SessionInv)
<1>1. SensorAllInit => FabricTyped /\ SessionInv
  BY TypedInit
<1>2. (FabricTyped /\ SessionInv) /\ [SensorNext]_sensorVars => (FabricTyped /\ SessionInv)'
  BY TypedNext, SessionNext
<1> QED BY <1>1, <1>2, PTL DEF SensorSpec

-----------------------------------------------------------------------------
(* Types, one by one *)

LEMMA RegistrationIsOne == ASSUME NEW r \in Registrations PROVE IsRegistration(r)
<1>1. PICK t \in Int : r = Registered(t)
  BY DEF Registrations
<1>2. r.registrationTime = t
  BY <1>1 DEF Registered
<1> QED BY <1>1, <1>2 DEF IsRegistration

LEMMA GenuineIsOne == ASSUME NEW m \in GenuineEvents PROVE IsGenuine(m)
<1>1. ASSUME NEW g \in ServiceGuids, NEW r \in Registrations, m = RegisterEvent(g, r)
      PROVE  IsGenuine(m)
  <2>1. m.serviceGuid = g /\ m.registration = r
    BY <1>1 DEF RegisterEvent, BlankEvent
  <2> QED BY <1>1, <2>1, RegistrationIsOne DEF IsGenuine
<1>2. ASSUME NEW g \in ServiceGuids, m = UnregisterEvent(g)
      PROVE  IsGenuine(m)
  <2>1. m.serviceGuid = g
    BY <1>2 DEF UnregisterEvent, BlankEvent
  <2> QED BY <1>2, <2>1 DEF IsGenuine
<1>3. ASSUME NEW b \in Brokers, m = BrokerStateEvent(b)
      PROVE  IsGenuine(m)
  <2>1. m.guid = b
    BY <1>3 DEF BrokerStateEvent, BlankEvent
  <2> QED BY <1>3, <2>1 DEF IsGenuine
<1> QED BY <1>1, <1>2, <1>3 DEF GenuineEvents

LEMMA AnswerIsOne ==
    /\ \A d \in Directories : IsAnswer("services", d)
    /\ \A d \in BrokerDirectories : IsAnswer("brokers", d)
<1>1. ASSUME NEW d \in Directories PROVE IsAnswer("services", d)
  <2>1. PICK S \in SUBSET ServiceGuids : d \in [S -> Registrations]
    BY DEF Directories
  <2>2. \A g \in DOMAIN d : IsRegistration(d[g])
    BY <2>1, RegistrationIsOne
  <2> QED BY <2>1, <2>2 DEF IsAnswer
<1>2. ASSUME NEW d \in BrokerDirectories PROVE IsAnswer("brokers", d)
  <2>1. PICK S \in SUBSET Brokers : d \in [S -> {AnyState}]
    BY DEF BrokerDirectories
  <2> QED BY <2>1 DEF IsAnswer
<1> QED BY <1>1, <1>2

LEMMA ReplyIsOne == ASSUME NEW p \in Replies PROVE IsReply(p)
<1>1. ASSUME NEW q \in {"services", "brokers"}, NEW n \in Nat, p = Reply("error", q, n, None)
      PROVE  IsReply(p)
  <2>1. p.type = "error" /\ p.query = q /\ p.session = n /\ p.payload = None
    BY <1>1 DEF Reply
  <2> QED BY <1>1, <2>1 DEF IsReply
<1>2. ASSUME NEW n \in Nat, NEW d, NEW q \in {"services", "brokers"}, IsAnswer(q, d),
             p = Reply("response", q, n, d)
      PROVE  IsReply(p)
  <2>1. p.type = "response" /\ p.query = q /\ p.session = n /\ p.payload = d
    BY <1>2 DEF Reply
  <2> QED BY <1>2, <2>1 DEF IsReply
<1> QED BY <1>1, <1>2, AnswerIsOne DEF Replies

LEMMA PacketIsOne == ASSUME NEW p \in Packets PROVE IsPacket(p)
<1>1. CASE p.kind = "connack"
  BY <1>1, PacketShape DEF IsPacket
<1>2. CASE p.kind = "event"
  <2>1. PICK m \in GenuineEvents \cup Impostors : p = Publication(m)
    BY <1>2, PacketShape
  <2>2. p.message = m
    BY <2>1 DEF Publication
  <2> QED BY <1>2, <2>1, <2>2, GenuineIsOne DEF IsPacket
<1>3. CASE p.kind = "reply"
  BY <1>3, PacketShape, ReplyIsOne DEF IsPacket
<1>4. p.kind \in {"connack", "event", "reply"}
  BY ReplyShape DEF Packets, ConnAck, Publication
<1> QED BY <1>1, <1>2, <1>3, <1>4

RecordTyped == record = None \/ IsRecord(record)

\* A record is made of a genuine registration or removal only.
LEMMA RecordOfEvent == ASSUME FabricTyped, HandleEvent PROVE RecordTyped'
<1> DEFINE m == Head(net).message
<1>1. /\ net # <<>> /\ Head(net).kind = "event" /\ record' = NormalisedRecord(m)
  BY DEF HandleEvent
<1>2. m \in GenuineEvents \cup Impostors
  BY <1>1, NetShape, PacketShape DEF FabricTyped
<1> HIDE DEF m
<1>3. CASE EnvelopeSpoofed(m)
  BY <1>1, <1>3 DEF NormalisedRecord, RecordTyped
<1>4. CASE ~EnvelopeSpoofed(m)
  <2>1. m \in GenuineEvents
    BY <1>2, <1>4, ImpostorShape
  <2>2. /\ m.topic \in {"register", "unregister", "brokerstate"}
        /\ m.topic # "brokerstate" => m.serviceGuid \in ServiceGuids
        /\ m.topic = "register" => m.registration \in Registrations
    BY <2>1, GenuineShape
  <2>3. CASE m.topic = "brokerstate"
    BY <1>1, <1>4, <2>3 DEF NormalisedRecord, RecordTyped
  <2>4. CASE m.topic \in {"register", "unregister"}
    <3>1. record' = [activity |-> m.topic, uid |-> m.serviceGuid, name |-> ServiceName(m)]
      BY <1>1, <1>4, <2>4 DEF NormalisedRecord
    <3>2. ServiceName(m) \in {ServiceType, None}
      <4>1. CASE m.topic = "register"
        <5>1. m.registration.serviceType = ServiceType
          BY <2>2, <4>1 DEF Registrations, Registered
        <5> QED BY <4>1, <5>1 DEF ServiceName
      <4>2. CASE m.topic = "unregister"
        <5>1. services[m.serviceGuid] \in Entries \cup {None}
          BY <2>2, <4>2 DEF FabricTyped
        <5>2. \A e \in Entries : e.serviceType = ServiceType
          <6> SUFFICES ASSUME NEW r \in Registrations, NEW b \in BOOLEAN
                       PROVE  Entry(r, b).serviceType = ServiceType
            BY DEF Entries
          <6> QED BY EntryShape
        <5>3. services[m.serviceGuid] # None => services[m.serviceGuid].serviceType = ServiceType
          BY <5>1, <5>2
        <5> QED BY <4>2, <5>3 DEF ServiceName
      <4> QED BY <2>4, <4>1, <4>2
    <3> QED BY <2>2, <2>4, <3>1, <3>2 DEF RecordTyped, IsRecord
  <2> QED BY <2>2, <2>3, <2>4
<1> QED BY <1>3, <1>4

LEMMA RecordNext == FabricTyped /\ RecordTyped /\ [SensorNext]_sensorVars => RecordTyped'
<1> SUFFICES ASSUME FabricTyped, RecordTyped, [SensorNext]_sensorVars
             PROVE  RecordTyped'
  OBVIOUS
<1>1. CASE HandleEvent
  BY <1>1, RecordOfEvent
<1>2. CASE HandleReply
  BY <1>2 DEF HandleReply, RecordTyped
<1>3. CASE HandleConnAck \/ Idle \/ CheckPoll \/ Fabric \/ TimePasses \/ UNCHANGED sensorVars
  <2>1. record' = record
    <3>1. HandleConnAck \/ Idle \/ CheckPoll => record' = record
      BY DEF HandleConnAck, Idle, CheckPoll
    <3>2. Fabric => record' = record
      BY DEF Fabric, Connect, Disconnect, TakeSubscribe, TakeQuery, RefuseQuery, DeliverLate,
             RegisterService, RemoveService, BrokerReports, ImpostorPublishes, loopVars
    <3>3. TimePasses \/ UNCHANGED sensorVars => record' = record
      BY DEF TimePasses, sensorVars, loopVars
    <3> QED BY <1>3, <3>1, <3>2, <3>3
  <2> QED BY <2>1 DEF RecordTyped
<1> QED BY <1>1, <1>2, <1>3 DEF SensorNext, Loop

\* Whatever becomes of connections, queries and replies, everything in the loop
\* and in the fabric keeps its type: each packet in flight or late is one the
\* brokers, clients or replies can have sent, no more of them than the bound is in
\* flight, and each record is of a registration or a removal.
THEOREM LoopTypeCorrect == SensorSpec => []LoopTypeOK
<1>1. FabricTyped /\ SessionInv /\ RecordTyped => LoopTypeOK
  <2> SUFFICES ASSUME FabricTyped, SessionInv, RecordTyped PROVE LoopTypeOK
    OBVIOUS
  <2>1. /\ Len(requests) \in Nat
        /\ requests \in {<<"subscribe", "services", "brokers">>, <<"services", "brokers">>,
                         <<"brokers">>, <<>>}
    BY RequestShapes DEF SessionInv
  <2>2. Len(net) \in Nat /\ MaxNet \in Nat /\ DOMAIN net = 1 .. Len(net)
    BY LenProperties, SensorAssumption DEF FabricTyped
  <2>3. Len(net) <= MaxNet + 3
    BY <2>1, <2>2 DEF SessionInv
  <2>4. \A p \in InFlight : IsPacket(p)
    <3>1. InFlight \subseteq Packets
      BY <2>2, ElementOfSeq DEF FabricTyped, InFlight
    <3> QED BY <3>1, PacketIsOne
  <2>5. \A p \in late : IsReply(p)
    BY ReplyIsOne DEF FabricTyped
  <2>6. DOMAIN registry = ServiceGuids /\ members \subseteq Brokers
    BY DEF FabricTyped
  <2>7. \A g \in ServiceGuids : registry[g] = None \/ IsRegistration(registry[g])
    BY RegistrationIsOne DEF FabricTyped
  <2> QED BY <2>1, <2>2, <2>3, <2>4, <2>5, <2>6, <2>7 DEF LoopTypeOK, SessionInv, RecordTyped
<1>2. SensorAllInit => RecordTyped
  BY DEF SensorAllInit, SensorInit, RecordTyped
<1>3. SensorSpec => []RecordTyped
  <2>1. FabricTyped /\ RecordTyped /\ [SensorNext]_sensorVars => RecordTyped'
    BY RecordNext
  <2> QED BY <1>2, <2>1, SessionCorrect, PTL DEF SensorSpec
<1> QED BY <1>1, <1>3, SessionCorrect, PTL

\* Whatever clients publish on the brokers' topics and whichever reply comes
\* late, only genuine brokers become known brokers.
THEOREM OnlyGenuineBrokers == SensorSpec => []KnownBrokersAreGenuine
<1>1. FabricTyped /\ SessionInv => KnownBrokersAreGenuine
  BY DEF FabricTyped, KnownBrokersAreGenuine
<1> QED BY <1>1, SessionCorrect, PTL

-----------------------------------------------------------------------------
(* What leads to the registry keeps leading to it *)

MirrorInv == FabricTyped /\ SessionInv /\ \A g \in ServiceGuids : Mirrored(g)

\* In a fabric of one broker no guard stops a genuine event.
LEMMA GenuineIsAccepted ==
    ASSUME FabricTyped, Brokers = {HomeBroker}, NEW m \in GenuineEvents
    PROVE  ~EnvelopeSpoofed(m) /\ ~Spoofed(m)
<1>1. /\ m.cert = None /\ m.source = HomeBroker
      /\ m.topic \in {"register", "unregister", "brokerstate"}
      /\ m.topic = "brokerstate" => m.guid = HomeBroker
  BY GenuineShape
<1>2. ~IsEmpty(HomeBroker) /\ ~IsHexThumbprint(HomeBroker)
  BY SensorAssumption
<1>3. ~UnknownBroker(m.source)
  BY <1>1 DEF UnknownBroker, FabricTyped
<1>4. m.topic = "brokerstate" => ~SpoofedBrokerState(m)
  BY <1>1, <1>2 DEF SpoofedBrokerState
<1>5. m.topic \in KnownBrokerTopics
  BY <1>1 DEF KnownBrokerTopics
<1> QED BY <1>1, <1>2, <1>3, <1>4, <1>5 DEF EnvelopeSpoofed, Spoofed

LEMMA MirrorSends ==
    ASSUME FabricTyped, conn = "subscribed", NEW g \in ServiceGuids, Mirrored(g),
           NEW p \in Packets, net' = Append(net, p),
           UNCHANGED <<conn, session, services, svcQuery>>,
           \/ ~Tells(p, session, g) /\ registry'[g] = registry[g]
           \/ /\ Tells(p, session, g) /\ Told(p, g) = registry'[g]
              /\ Removes(p, g) => registry[g] # None
    PROVE  Mirrored(g)'
<1>1. net \in Seq(Packets) /\ registry[g] \in Registrations \cup {None}
      /\ Leads(services[g], svcQuery = 0, net, session, g, registry[g])
  BY DEF FabricTyped, Mirrored
<1>2. CASE ~Tells(p, session, g) /\ registry'[g] = registry[g]
  <2>1. Leads(services[g], svcQuery = 0, Append(net, p), session, g, registry[g])
    BY <1>1, <1>2, LeadsPastOther
  <2> QED BY <1>2, <2>1 DEF Mirrored
<1>3. CASE /\ Tells(p, session, g) /\ Told(p, g) = registry'[g]
           /\ Removes(p, g) => registry[g] # None
  <2>1. Leads(services[g], svcQuery = 0, Append(net, p), session, g, Told(p, g))
    BY <1>1, <1>3, LeadsToNews
  <2> QED BY <1>3, <2>1 DEF Mirrored
<1> QED BY <1>2, <1>3

LEMMA MirrorEvent ==
    ASSUME MirrorInv, Brokers = {HomeBroker}, HandleEvent, NEW g \in ServiceGuids
    PROVE  Mirrored(g)'
<1> DEFINE p == Head(net)
           m == Head(net).message
<1>1. /\ net # <<>> /\ p.kind = "event" /\ net' = Tail(net)
      /\ IF EnvelopeSpoofed(m) THEN RejectEvent(m) ELSE ProcessEvent(m)
      /\ UNCHANGED <<svcQuery, fabricVars>>
  BY DEF HandleEvent
<1>2. /\ conn = "subscribed" /\ net \in Seq(Packets)
      /\ Leads(services[g], svcQuery = 0, net, session, g, registry[g])
  BY SessionReceives DEF MirrorInv, Mirrored, FabricTyped
<1>3. p \in Packets /\ m \in GenuineEvents \cup Impostors
  BY <1>1, <1>2, NetShape, PacketShape
<1>4. ~IsSnapshot(p, session) /\ (Concerns(p, g) <=> m.cert = None /\ m.serviceGuid = g)
  BY <1>1 DEF IsSnapshot, Concerns
<1>5. CASE ~Tells(p, session, g) /\ services'[g] = services[g]
  <2>1. Leads(services[g], svcQuery = 0, Tail(net), session, g, registry[g])
    BY <1>1, <1>2, <1>5, LeadsWithoutOther
  <2> QED BY <1>1, <1>5, <2>1 DEF Mirrored, fabricVars
<1>6. CASE Tells(p, session, g) /\ Told(p, g) \in Registrations \cup {None}
           /\ Stands(services'[g], Told(p, g))
  <2>1. Leads(services'[g], svcQuery = 0, Tail(net), session, g, registry[g])
    BY <1>1, <1>2, <1>6, LeadsFromNews
  <2> QED BY <1>1, <2>1 DEF Mirrored, fabricVars
<1> HIDE DEF p, m
<1>7. CASE m \in Impostors
  <2>1. m.cert # None /\ RejectEvent(m)
    BY <1>1, <1>7, ImpostorShape
  <2> QED BY <1>4, <1>5, <2>1 DEF Tells, RejectEvent
<1>8. CASE m \in GenuineEvents
  <2>1. AcceptEvent(m) /\ FabricTyped
    BY <1>1, <1>8, GenuineIsAccepted DEF MirrorInv, ProcessEvent
  <2>2. CASE m.serviceGuid # g
    BY <1>4, <1>5, <1>8, <2>1, <2>2, GenuineEffect DEF Tells
  <2>3. CASE m.serviceGuid = g
    <3>1. m.cert = None /\ m.topic \in {"register", "unregister"}
      BY <1>8, <2>3, GenuineShape, NoneIsNothing
    <3>2. Tells(p, session, g)
      BY <1>4, <2>3, <3>1 DEF Tells
    <3>3. CASE m.topic = "register"
      <4>1. m.registration \in Registrations /\ services'[g] = Entry(m.registration, FALSE)
        BY <1>8, <2>1, <2>3, <3>3, GenuineShape, GenuineEffect
      <4>2. Told(p, g) = m.registration
        BY <1>1, <3>3 DEF Told, m, p
      <4>3. Stands(services'[g], Told(p, g))
        BY <4>1, <4>2, RegistrationShape DEF Stands
      <4> QED BY <1>6, <3>2, <4>1, <4>2, <4>3
    <3>4. CASE m.topic = "unregister"
      <4>1. services'[g] = None
        BY <1>8, <2>1, <2>3, <3>4, GenuineEffect
      <4>2. Told(p, g) = None
        BY <1>1, <3>4 DEF Told, m, p
      <4> QED BY <1>6, <3>2, <4>1, <4>2 DEF Stands
    <3> QED BY <3>1, <3>3, <3>4
  <2> QED BY <2>2, <2>3
<1> QED BY <1>3, <1>7, <1>8

LEMMA MirrorReply ==
    ASSUME MirrorInv, HandleReply, NEW g \in ServiceGuids
    PROVE  Mirrored(g)'
<1> DEFINE p == Head(net)
<1>1. /\ net # <<>> /\ p.kind = "reply" /\ net' = Tail(net) /\ UNCHANGED fabricVars
      /\ HandleServiceReply(p) \/ HandleBrokerReply(p) \/ IgnoreReply(p)
  BY DEF HandleReply
<1>2. /\ conn = "subscribed" /\ net \in Seq(Packets) /\ svcQuery \in {0, session} /\ session # 0
      /\ Leads(services[g], svcQuery = 0, net, session, g, registry[g])
  BY SessionReceives DEF MirrorInv, Mirrored, FabricTyped, SessionInv
<1>3. p \in Packets /\ p \in Replies /\ 1 \in DOMAIN net /\ p = net[1]
  BY <1>1, <1>2, NetShape, NetPositions, PacketShape
<1>4. ~Concerns(p, g)
  BY <1>1 DEF Concerns
<1>5. CASE IsSnapshot(p, session)
  <2>1. svcQuery = session
    BY <1>2, <1>3, <1>5 DEF MirrorInv, SessionInv, NoSnapshot
  <2>2. Answers(p, "services", svcQuery) /\ ~Answers(p, "brokers", brokerQuery)
    BY <1>2, <1>3, <1>5, <2>1, ReplyShape, SensorAssumption DEF Answers, IsSnapshot
  <2>3. HandleServiceReply(p)
    BY <1>1, <2>2 DEF HandleBrokerReply, IgnoreReply
  <2> DEFINE d == p.payload
  <2>4. d \in Directories /\ ProcessSyncResponse(d)
    BY <1>3, <1>5, <2>3, ReplyShape DEF IsSnapshot, HandleServiceReply
  <2>5. Told(p, g) = IF g \in DOMAIN d THEN d[g] ELSE None
    BY <1>1 DEF Told
  <2> HIDE DEF d
  <2>6. /\ g \in DOMAIN d => d[g] \in Registrations /\ services'[g] = Entry(d[g], FALSE)
        /\ g \notin DOMAIN d => services'[g] = None
    BY <2>4, SnapshotEffect
  <2>7. Told(p, g) \in Registrations \cup {None} /\ Stands(services'[g], Told(p, g))
    <3>1. CASE g \in DOMAIN d
      BY <2>5, <2>6, <3>1, RegistrationShape DEF Stands
    <3>2. CASE g \notin DOMAIN d
      BY <2>5, <2>6, <3>2 DEF Stands
    <3> QED BY <3>1, <3>2
  <2>8. Tells(p, session, g)
    BY <1>5 DEF Tells
  <2>9. Leads(services'[g], svcQuery' = 0, Tail(net), session, g, registry[g])
    BY <1>1, <1>2, <2>7, <2>8, LeadsFromNews
  <2> QED BY <1>1, <2>9 DEF Mirrored, fabricVars
<1>6. CASE ~IsSnapshot(p, session)
  <2>1. ~HandleServiceReply(p)
    BY <1>1, <1>2, <1>6 DEF HandleServiceReply, Answers, IsSnapshot
  <2>2. services' = services /\ svcQuery' = svcQuery
    BY <1>1, <2>1 DEF HandleBrokerReply, ProcessBrokerSyncResponse, IgnoreReply, engineVars
  <2>3. ~Tells(p, session, g)
    BY <1>4, <1>6 DEF Tells
  <2>4. Leads(services[g], svcQuery = 0, Tail(net), session, g, registry[g])
    BY <1>1, <1>2, <2>3, LeadsWithoutOther
  <2> QED BY <1>1, <2>2, <2>4 DEF Mirrored, fabricVars
<1> QED BY <1>5, <1>6

LEMMA MirrorAnswers ==
    ASSUME MirrorInv, TakeQuery \/ RefuseQuery, NEW g \in ServiceGuids
    PROVE  Mirrored(g)'
<1> DEFINE reply == Reply("response", Head(requests), session, Answer(Head(requests)))
           error == Reply("error", Head(requests), session, None)
<1>1. /\ conn = "subscribed" /\ FabricTyped /\ Mirrored(g)
      /\ requests # <<>> /\ Head(requests) # "subscribe"
      /\ UNCHANGED <<conn, session, services, svcQuery, registry>>
  BY SessionAnswers DEF MirrorInv, TakeQuery, RefuseQuery, loopVars, engineVars
<1>2. reply \in Packets /\ error \in Packets
  BY <1>1, TakeQueryReply DEF MirrorInv, Packets
<1>3. /\ reply.kind = "reply" /\ error.kind = "reply" /\ error.type = "error"
      /\ reply.type = "response" /\ reply.query = Head(requests) /\ reply.session = session
      /\ reply.payload = Answer(Head(requests))
  BY DEF Reply
<1>4. Head(requests) = "services" =>
        IF g \in DOMAIN reply.payload THEN reply.payload[g] = registry[g] ELSE registry[g] = None
  BY <1>3 DEF Answer
<1>5. net' \in {net, Append(net, reply), Append(net, error)}
  BY DEF TakeQuery, RefuseQuery
<1> HIDE DEF reply, error
<1>6. ~Tells(error, session, g) /\ ~Concerns(reply, g) /\ ~Removes(reply, g)
      /\ (IsSnapshot(reply, session) <=> Head(requests) = "services")
  BY <1>3 DEF Tells, Concerns, Removes, IsSnapshot
<1>7. CASE net' = net
  BY <1>1, <1>7 DEF Mirrored
<1>8. CASE net' = Append(net, error)
  BY <1>1, <1>2, <1>6, <1>8, MirrorSends
<1>9. CASE net' = Append(net, reply) /\ Head(requests) = "services"
  <2>1. Tells(reply, session, g) /\ Told(reply, g) = registry'[g]
    BY <1>1, <1>3, <1>4, <1>6, <1>9 DEF Tells, Told
  <2> QED BY <1>1, <1>2, <1>6, <1>9, <2>1, MirrorSends
<1>10. CASE net' = Append(net, reply) /\ Head(requests) # "services"
  BY <1>1, <1>2, <1>6, <1>10, MirrorSends DEF Tells
<1> QED BY <1>5, <1>7, <1>8, <1>9, <1>10

\* What the home broker or an impostor publishes.
LEMMA MirrorPublishes ==
    ASSUME MirrorInv, conn = "subscribed", NEW g \in ServiceGuids,
           NEW m \in GenuineEvents \cup Impostors, net' = Append(net, Publication(m)),
           UNCHANGED <<conn, session, services, svcQuery>>,
           \/ (m.cert # None \/ m.serviceGuid # g) /\ registry'[g] = registry[g]
           \/ /\ m.cert = None /\ m.serviceGuid = g
              /\ registry'[g] = IF m.topic = "register" THEN m.registration ELSE None
              /\ m.topic = "unregister" => registry[g] # None
    PROVE  Mirrored(g)'
<1> DEFINE p == Publication(m)
<1>1. p \in Packets /\ p.kind = "event" /\ p.message = m
  BY DEF Packets, Publication
<1> HIDE DEF p
<1>2. net' = Append(net, p)
  BY DEF p
<1>3. ~IsSnapshot(p, session) /\ (Concerns(p, g) <=> m.cert = None /\ m.serviceGuid = g)
      /\ (Removes(p, g) => m.topic = "unregister")
      /\ Told(p, g) = IF m.topic = "register" THEN m.registration ELSE None
  BY <1>1 DEF IsSnapshot, Concerns, Removes, Told
<1> QED BY <1>1, <1>2, <1>3, MirrorSends DEF Tells, MirrorInv

LEMMA MirrorOtherwise ==
    ASSUME NEW g \in ServiceGuids, Mirrored(g),
           UNCHANGED <<conn, session, net, services, svcQuery, registry>> \/ conn' # "subscribed"
    PROVE  Mirrored(g)'
BY DEF Mirrored

LEMMA MirrorFabric ==
    ASSUME MirrorInv, Fabric, NEW g \in ServiceGuids PROVE Mirrored(g)'
<1>0. FabricTyped /\ SessionInv /\ Mirrored(g) /\ g # None
  BY NoneIsNothing DEF MirrorInv
<1>1. CASE Connect \/ Disconnect
  BY <1>0, <1>1, MirrorOtherwise DEF Connect, Disconnect
<1>2. CASE TakeSubscribe
  <2>1. /\ net = <<>> /\ svcQuery = session /\ session # 0
    BY <1>0, <1>2, RequestShapes DEF TakeSubscribe, SessionInv
  <2>2. net' = <<>> /\ svcQuery' # 0 /\ DOMAIN net' = {}
    BY <1>2, <2>1 DEF TakeSubscribe, loopVars
  <2> QED BY <2>2 DEF Mirrored, Leads
<1>3. ASSUME NEW q \in late, DeliverLate(q) PROVE Mirrored(g)'
  <2>1. q \in Replies /\ q.session < session
    BY <1>0, <1>3 DEF DeliverLate, FabricTyped
  <2>2. q \in Packets /\ q.kind = "reply" /\ q.session \in Nat /\ session \in Nat
    BY <1>0, <2>1, ReplyShape DEF Packets, SessionInv
  <2>3. ~Tells(q, session, g)
    BY <2>1, <2>2 DEF Tells, Concerns, IsSnapshot
  <2> QED BY <1>0, <1>3, <2>2, <2>3, MirrorSends DEF DeliverLate, loopVars, engineVars
<1>4. ASSUME NEW x \in ServiceGuids, RegisterService(x) PROVE Mirrored(g)'
  <2> DEFINE r == Registered(Secs)
             m == RegisterEvent(x, r)
  <2>1. m \in GenuineEvents
    BY <1>0, SecondsPass DEF GenuineEvents, Registrations, FabricTyped
  <2>2. m.cert = None /\ m.serviceGuid = x /\ m.topic = "register" /\ m.registration = r
    BY DEF RegisterEvent, BlankEvent
  <2>3. Emit(m) /\ registry' = [registry EXCEPT ![x] = r]
        /\ UNCHANGED <<conn, session, services, svcQuery>>
    BY <1>4 DEF RegisterService, loopVars, engineVars
  <2>4. registry'[g] = IF x = g THEN r ELSE registry[g]
    BY <1>0, <2>3 DEF FabricTyped
  <2> HIDE DEF r, m
  <2>5. CASE conn = "subscribed"
    <3>1. net' = Append(net, Publication(m))
      BY <2>3, <2>5 DEF Emit
    <3> QED BY <2>1, <2>2, <2>3, <2>4, <2>5, <3>1, MirrorPublishes
  <2>6. CASE conn # "subscribed"
    BY <1>0, <2>3, <2>6, MirrorOtherwise
  <2> QED BY <2>5, <2>6
<1>5. ASSUME NEW x \in ServiceGuids, RemoveService(x) PROVE Mirrored(g)'
  <2> DEFINE m == UnregisterEvent(x)
  <2>1. m \in GenuineEvents
    BY DEF GenuineEvents
  <2>2. m.cert = None /\ m.serviceGuid = x /\ m.topic = "unregister"
    BY DEF UnregisterEvent, BlankEvent
  <2>3. Emit(m) /\ registry[x] # None /\ registry' = [registry EXCEPT ![x] = None]
        /\ UNCHANGED <<conn, session, services, svcQuery>>
    BY <1>5 DEF RemoveService, loopVars, engineVars
  <2>4. registry'[g] = IF x = g THEN None ELSE registry[g]
    BY <1>0, <2>3 DEF FabricTyped
  <2> HIDE DEF m
  <2>5. CASE conn = "subscribed"
    <3>1. net' = Append(net, Publication(m))
      BY <2>3, <2>5 DEF Emit
    <3> QED BY <2>1, <2>2, <2>3, <2>4, <2>5, <3>1, MirrorPublishes
  <2>6. CASE conn # "subscribed"
    BY <1>0, <2>3, <2>6, MirrorOtherwise
  <2> QED BY <2>5, <2>6
<1>6. ASSUME NEW b \in Brokers, BrokerReports(b) PROVE Mirrored(g)'
  <2> DEFINE m == BrokerStateEvent(b)
  <2>1. m \in GenuineEvents
    BY DEF GenuineEvents
  <2>2. m.serviceGuid = None
    BY DEF BrokerStateEvent, BlankEvent
  <2>3. Emit(m) /\ UNCHANGED <<conn, session, services, svcQuery, registry>>
    BY <1>6 DEF BrokerReports, loopVars, engineVars
  <2> HIDE DEF m
  <2>4. CASE conn = "subscribed"
    <3>1. net' = Append(net, Publication(m))
      BY <2>3, <2>4 DEF Emit
    <3> QED BY <1>0, <2>1, <2>2, <2>3, <2>4, <3>1, MirrorPublishes
  <2>5. CASE conn # "subscribed"
    BY <1>0, <2>3, <2>5, MirrorOtherwise
  <2> QED BY <2>4, <2>5
<1>7. ASSUME NEW m \in Impostors, ImpostorPublishes(m) PROVE Mirrored(g)'
  <2>1. m.cert # None
    BY ImpostorShape
  <2> QED BY <1>0, <1>7, <2>1, MirrorPublishes
          DEF ImpostorPublishes, loopVars, engineVars, fabricVars
<1> QED BY <1>1, <1>2, <1>3, <1>4, <1>5, <1>6, <1>7, MirrorAnswers DEF Fabric

LEMMA MirrorNext ==
    ASSUME Brokers = {HomeBroker}
    PROVE  MirrorInv /\ [SensorNext]_sensorVars => MirrorInv'
<1> SUFFICES ASSUME MirrorInv, [SensorNext]_sensorVars PROVE MirrorInv'
  OBVIOUS
<1> SUFFICES ASSUME NEW g \in ServiceGuids PROVE Mirrored(g)'
  BY TypedNext, SessionNext DEF MirrorInv
<1>0. FabricTyped /\ SessionInv /\ Mirrored(g)
  BY DEF MirrorInv
<1>1. CASE HandleConnAck
  BY <1>0, <1>1, SessionConnAck, MirrorOtherwise DEF HandleConnAck
<1>2. CASE Idle \/ TimePasses \/ UNCHANGED sensorVars
  BY <1>0, <1>2, MirrorOtherwise
     DEF Idle, TimePasses, Tick, sensorVars, engineVars, loopVars, fabricVars
<1>3. CASE CheckPoll
  <2>1. UNCHANGED <<conn, session, net, svcQuery, registry>>
    BY <1>3 DEF CheckPoll, fabricVars
  <2>2. CASE PollTimeouts
    BY <1>0, <2>1, <2>2, PollHolds, LeadsWhenMarked DEF Mirrored
  <2>3. CASE UNCHANGED engineVars
    BY <1>0, <2>1, <2>3, MirrorOtherwise DEF engineVars
  <2> QED BY <1>3, <2>2, <2>3 DEF CheckPoll, engineVars
<1> QED BY <1>1, <1>2, <1>3, MirrorEvent, MirrorReply, MirrorFabric DEF SensorNext, Loop

LEMMA MirrorCorrect ==
    ASSUME Brokers = {HomeBroker} PROVE SensorSpec => []MirrorInv
<1>1. SensorAllInit => MirrorInv
  <2>1. SensorAllInit => conn = "down"
    BY DEF SensorAllInit, FabricInit
  <2> QED BY <2>1, TypedInit DEF MirrorInv, Mirrored
<1>2. MirrorInv /\ [SensorNext]_sensorVars => MirrorInv'
  BY MirrorNext
<1> QED BY <1>1, <1>2, PTL DEF SensorSpec

-----------------------------------------------------------------------------
(* The theorems *)

\* In sync the snapshot has arrived, and a service of which nothing in flight
\* tells is held as it is registered.
LEMMA NothingToTell ==
    ASSUME MirrorInv, InSync, NEW g \in ServiceGuids,
           \A p \in InFlight : p.kind = "event" => p.message.serviceGuid # g
    PROVE  Stands(services[g], registry[g])
<1>1. svcQuery = 0 /\ NoSnapshot /\ conn = "subscribed" /\ Mirrored(g)
  BY DEF InSync, MirrorInv, SessionInv
<1>2. \A i \in DOMAIN net : ~Tells(net[i], session, g)
  BY <1>1 DEF NoSnapshot, InFlight, Tells, Concerns
<1> QED BY <1>1, <1>2 DEF Mirrored, Leads

\* In a fabric of one broker the engine's services are the broker's as soon as
\* the session's query is answered and no event is in flight: outages, late
\* replies, changes between snapshot and reply, and impostors leave no trace.
THEOREM EngineMirrorsRegistry ==
    ASSUME Brokers = {HomeBroker} PROVE SensorSpec => []MirrorsRegistry
<1>1. MirrorInv => MirrorsRegistry
  <2> SUFFICES ASSUME MirrorInv, InSync, ~\E p \in InFlight : p.kind = "event",
                      NEW g \in ServiceGuids
               PROVE  IF registry[g] = None THEN services[g] = None
                      ELSE /\ services[g] # None
                           /\ services[g].owner = registry[g].clientGuid
                           /\ services[g].registrationTime = registry[g].registrationTime
    BY DEF MirrorsRegistry
  <2>1. Stands(services[g], registry[g])
    BY NothingToTell
  <2>2. CASE registry[g] = None
    BY <2>1, <2>2 DEF Stands
  <2>3. CASE registry[g] # None
    <3>1. registry[g] \in Registrations
      BY <2>3 DEF MirrorInv, FabricTyped
    <3>2. PICK b \in BOOLEAN : services[g] = Entry(registry[g], b)
      BY <2>1, <2>3 DEF Stands
    <3>3. registry[g].clientGuid = Client
      BY <3>1, RegistrationShape
    <3>4. /\ services[g] # None /\ services[g].owner = Client
          /\ services[g].registrationTime = registry[g].registrationTime
      <4>1. \A r \in Registrations : /\ Entry(r, b) # None /\ Entry(r, b).owner = Client
                                     /\ Entry(r, b).registrationTime = r.registrationTime
        BY EntryShape
      <4> QED BY <3>1, <3>2, <4>1
    <3> QED BY <2>3, <3>3, <3>4
  <2> QED BY <2>2, <2>3
<1> QED BY <1>1, MirrorCorrect, PTL

\* In sync, every unregister record carries the type of its service, however many
\* changes of it are still on their way.
THEOREM UnregisterRecordsAreNamed ==
    ASSUME Brokers = {HomeBroker} PROVE SensorSpec => UnregisterIsNamed
<1> DEFINE P == (/\ InSync /\ pc = "await" /\ pc' = "check"
                 /\ record' # None /\ record' # record /\ record'.activity = "unregister") =>
                   record'.name = ServiceType
<1>1. MirrorInv /\ [SensorNext]_sensorVars => [P]_sensorVars
  <2> SUFFICES ASSUME MirrorInv, SensorNext, InSync, record' # None, record' # record,
                      record'.activity = "unregister"
               PROVE  record'.name = ServiceType
    OBVIOUS
  <2>1. HandleEvent
    BY DEF SensorNext, Loop, HandleConnAck, HandleReply, Idle, CheckPoll, Fabric, Connect,
           Disconnect, TakeSubscribe, TakeQuery, RefuseQuery, DeliverLate, RegisterService,
           RemoveService, BrokerReports, ImpostorPublishes, TimePasses, loopVars
  <2> DEFINE p == Head(net)
             m == p.message
  <2>2. net # <<>> /\ p.kind = "event" /\ record' = NormalisedRecord(m)
    BY <2>1 DEF HandleEvent
  <2>3. p \in Packets /\ p = net[1] /\ 1 \in DOMAIN net /\ \A j \in DOMAIN net : ~(j < 1)
    BY <2>2, NetShape, NetPositions DEF MirrorInv, FabricTyped
  <2>4. m \in GenuineEvents \cup Impostors
    BY <2>2, <2>3, PacketShape
  <2> HIDE DEF m
  <2>5. ~EnvelopeSpoofed(m) /\ m \in GenuineEvents
    BY <2>2, <2>4, ImpostorShape DEF NormalisedRecord
  <2>6. m.cert = None /\ m.topic \in {"register", "unregister", "brokerstate"}
    BY <2>5, GenuineShape
  <2>7. m.topic \in {"register", "unregister"}
        /\ record' = [activity |-> m.topic, uid |-> m.serviceGuid, name |-> ServiceName(m)]
    BY <2>2, <2>5, <2>6 DEF NormalisedRecord
  <2>8. m.topic = "unregister" /\ record'.name = ServiceName(m)
    BY <2>7
  <2> DEFINE g == m.serviceGuid
  <2>9. g \in ServiceGuids /\ g # None
    BY <2>5, <2>8, GenuineShape, NoneIsNothing
  <2>10. Removes(net[1], g)
    BY <2>2, <2>3, <2>6, <2>8 DEF Removes, Concerns, m
  <2>11. Mirrored(g) /\ conn = "subscribed" /\ svcQuery = 0
    BY <2>9 DEF MirrorInv, InSync
  <2>12. services[g] # None
    BY <2>3, <2>10, <2>11 DEF Mirrored, Leads
  <2>13. PICK r \in Registrations, b \in BOOLEAN : services[g] = Entry(r, b)
    BY <2>9, <2>12 DEF MirrorInv, FabricTyped, Entries
  <2>14. services[g].serviceType = ServiceType
    BY <2>13, EntryShape
  <2> QED BY <2>8, <2>9, <2>12, <2>14 DEF ServiceName
<1> QED BY <1>1, MirrorCorrect, PTL DEF SensorSpec, UnregisterIsNamed

\* A poll in sync reports no service whose registration the broker still holds to
\* be good and of which no news is on its way.
THEOREM PollsAlarmJustly ==
    ASSUME Brokers = {HomeBroker}, TtlMins < TtlModulus
    PROVE  SensorSpec => TtlAlarmJustified
<1> DEFINE P == InSync => \A g \in ServiceGuids : TtlAlarm(g) => Overdue(g) \/ NewsInFlight(g)
<1>1. MirrorInv /\ [SensorNext]_sensorVars => [P]_sensorVars
  <2> SUFFICES ASSUME MirrorInv, SensorNext, InSync, NEW g \in ServiceGuids, TtlAlarm(g),
                      registry[g] # None, ~NewsInFlight(g)
               PROVE  Secs >= RegistryExpiry(g)
    BY DEF Overdue
  <2>1. pc = "check" /\ pc' = "await" /\ PollDue /\ TtlAlert(g) \in alerts'
    BY DEF TtlAlarm
  <2>2. CheckPoll
    BY <2>1 DEF SensorNext, Loop, HandleConnAck, HandleEvent, HandleReply, Idle, Fabric, Connect,
           Disconnect, TakeSubscribe, TakeQuery, RefuseQuery, DeliverLate, RegisterService,
           RemoveService, BrokerReports, ImpostorPublishes, TimePasses, loopVars
  <2>3. Expired(g)
    <3>1. alerts' = {TtlAlert(x) : x \in {y \in ServiceGuids : Expired(y)}}
      BY <2>1, <2>2 DEF CheckPoll, PollTimeouts
    <3>2. \A x : TtlAlert(x).about = x
      BY DEF TtlAlert, Alert
    <3>3. PICK x \in ServiceGuids : Expired(x) /\ TtlAlert(g) = TtlAlert(x)
      BY <2>1, <3>1
    <3> QED BY <3>2, <3>3
  <2>4. Stands(services[g], registry[g])
    BY NothingToTell DEF NewsInFlight
  <2>5. registry[g] \in Registrations
    BY DEF MirrorInv, FabricTyped
  <2>6. PICK b \in BOOLEAN : services[g] = Entry(registry[g], b)
    BY <2>4 DEF Stands
  <2>7. TtlMins % TtlModulus = TtlMins
    <3>1. TtlMins \in Nat /\ TtlModulus \in Nat \ {0} /\ TtlMins < TtlModulus
      BY SensorAssumption, EngineAssumption
    <3> QED BY ONLY <3>1, SMTT(30)
  <2>8. Expiry(services[g]) = RegistryExpiry(g) /\ services[g] \in ServiceState
    <3>1. /\ services[g].registrationTime = registry[g].registrationTime
          /\ services[g].ttlMins = TtlMins /\ services[g] \in ServiceState
      <4> DEFINE entry == Entry(registry[g], b)
      <4>1. /\ entry.registrationTime = registry[g].registrationTime
            /\ entry.ttlMins = TtlMins % TtlModulus /\ entry \in ServiceState
        BY <2>5, EntryShape, Zenon
      <4> HIDE DEF entry
      <4>2. services[g] = entry
        BY <2>6 DEF entry
      <4> QED BY <2>7, <4>1, <4>2, Zenon
    <3> QED BY <3>1, Zenon DEF Expiry, RegistryExpiry
  <2>9. Secs > Expiry(services[g]) /\ Secs \in Nat /\ Expiry(services[g]) \in Int
    BY <2>3, <2>8, ExpiryType, SecondsPass DEF Expired, MirrorInv, FabricTyped
  <2> QED BY <2>8, <2>9
<1> QED BY <1>1, MirrorCorrect, PTL DEF SensorSpec, TtlAlarmJustified
===============================================================================
