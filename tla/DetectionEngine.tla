--------------------------- MODULE DetectionEngine ---------------------------
(***************************************************************************)
(* The detection engine (src/src/detections.rs): the registered services   *)
(* with their TTL, the known brokers, the rate maps, and the alerts each   *)
(* call returns.                                                           *)
(*                                                                         *)
(* A topic is a name for the class of topics the engine treats alike, a    *)
(* JSON field that is absent or of the wrong type is None, and an alert is *)
(* its title and the party it names.  The wall clock is in ms; the engine  *)
(* reads it in ms or in whole seconds.                                     *)
(***************************************************************************)
EXTENDS Identity, RateWindow

CONSTANTS None,                \* no value
          ServiceGuids,        \* service GUIDs
          ServiceTypes,        \* service type names
          States,              \* bridges and startTime of a broker, as one value
          Messages,            \* the events that may be processed
          Snapshots,           \* the service registry replies that may arrive
          BrokerLists,         \* the broker registry replies that may arrive
          AllowedThumbprints,  \* normal forms of [Detections] AllowedThumbprints
          SensitiveFilters,    \* [Detections] SensitiveTopics, as sets of topics
          GraceMins,           \* [Detections] ServiceTtlGracePeriodMins
          SecsPerMin,          \* 60
          MsPerSec,            \* 1000
          TtlModulus,          \* ttlMins is cut to 32 bits: 2^32
          MaxClock             \* bound on the clock, in ms

-----------------------------------------------------------------------------
(* Topics *)

KnownBrokerTopics == {"connect", "disconnect", "register", "unregister", "fabricchange",
                      "brokerstate", "revocation", "otherBrokerTopic"}

\* All of /mcafee/event/dxl/: the known ones and the rest.
BrokerTopics == KnownBrokerTopics \cup {"unrecognized"}

Topics == BrokerTopics \cup {"firstinstance", "clientTopic", "sensitiveTopic"}

(* Registrations, as an event or an entry of a registry reply carries them *)

TextOrNone == Texts \cup {None}

RegistrationFields ==
    [serviceType : ServiceTypes \cup {None}, ttlMins : Nat \cup {None},
     registrationTime : Int \cup {None}, clientGuid : TextOrNone,
     certificates : SUBSET Texts]

Message ==
    [topic : Topics, source : Texts, cert : TextOrNone,
     serviceGuid : ServiceGuids \cup {None}, registration : RegistrationFields,
     certThumbprint : TextOrNone, agentGuid : TextOrNone,
     cipher : {"legacy", "modern", None}, guid : TextOrNone, state : States,
     revoked : SUBSET Texts]

ServiceState == [serviceType : ServiceTypes, owner : TextOrNone,
                 registrationTime : Int, ttlMins : 0 .. TtlModulus - 1,
                 reported : BOOLEAN]

ASSUME EngineAssumption ==
    /\ None \notin Texts \cup ServiceTypes \cup ServiceGuids \cup Int
    /\ None \notin ServiceState
    /\ \A m \in Messages : m \in Message
    /\ \A s \in Snapshots :
          \/ s = None
          \/ DOMAIN s \subseteq ServiceGuids /\ s \in [DOMAIN s -> RegistrationFields]
    /\ \A l \in BrokerLists :
          \/ l = None
          \/ (\A b \in DOMAIN l : b \in Texts) /\ l \in [DOMAIN l -> States]
    /\ GraceMins \in Nat
    /\ SecsPerMin \in Nat \ {0}
    /\ MsPerSec \in Nat \ {0}
    /\ TtlModulus \in Nat \ {0}
    /\ MaxClock \in Nat

-----------------------------------------------------------------------------
VARIABLES services,     \* ServiceState or None, for every GUID
          brokers,      \* what is known of each known broker
          clientRates,  \* rate map per publisher
          topicRates,   \* rate map per topic
          clock,        \* wall clock, in ms
          alerts,       \* the alerts the last call returned
          ttlAlerts     \* auxiliary: TTL alerts since the registration was stored

engineVars == <<services, brokers, clientRates, topicRates, alerts, ttlAlerts>>
vars == <<engineVars, clock>>

Secs == clock \div MsPerSec

Alert(title, about) == [title |-> title, about |-> about]

TtlAlert(guid) == Alert("Service TTL Expired", guid)

EngineInit ==
    /\ services = [g \in ServiceGuids |-> None]
    /\ brokers = [b \in {} |-> None]
    /\ clientRates = EmptyRates
    /\ topicRates = EmptyRates
    /\ alerts = {}
    /\ ttlAlerts = [g \in ServiceGuids |-> 0]

Init == EngineInit /\ clock = 0

-----------------------------------------------------------------------------
(* The guard of /mcafee/event/dxl/# *)

Cert(m) == IF m.cert # None /\ IsEmpty(m.cert) THEN None ELSE m.cert

\* Whom an alert names: the certificate the broker vouches for, else the claim.
Publisher(m) == IF Cert(m) # None THEN Cert(m) ELSE m.source

\* While no broker is known, anyone may be one.
UnknownBroker(id) == DOMAIN brokers # {} /\ id \notin DOMAIN brokers

\* Mutant of SpoofedBrokerState: a thumbprint passes for a broker's GUID.
SpoofedBrokerStateByName(m) == m.guid # None /\ m.guid # m.source

SpoofedBrokerState(m) ==
    \/ IsHexThumbprint(m.source)
    \/ m.guid # None /\ IsHexThumbprint(m.guid)
    \/ m.guid # None /\ m.guid # m.source

\* Mutant of Spoofed: a brokerstate may come from an unknown broker.
SpoofedUnlessBrokerState(m) ==
    /\ m.topic \in BrokerTopics
    /\ \/ m.topic \notin KnownBrokerTopics
       \/ IsEmpty(m.source)
       \/ IF m.topic = "brokerstate" THEN SpoofedBrokerState(m) ELSE UnknownBroker(m.source)

Spoofed(m) ==
    /\ m.topic \in BrokerTopics
    /\ \/ m.topic \notin KnownBrokerTopics
       \/ IsEmpty(m.source)
       \/ m.topic = "brokerstate" /\ SpoofedBrokerState(m)
       \/ UnknownBroker(m.source)

\* An event without certificate and source names nobody.
SpoofAlert(m) == Alert("Spoofed Broker Event",
                       IF IsEmpty(Publisher(m)) THEN None ELSE Publisher(m))

-----------------------------------------------------------------------------
(* Alerts of an event that leave the engine's state alone *)

\* An empty allow list switches the thumbprint checks off.
Unknown(thumbprint) ==
    /\ AllowedThumbprints # {}
    /\ ~IsBlank(NormalizeThumbprint(thumbprint))
    /\ NormalizeThumbprint(thumbprint) \notin AllowedThumbprints

\* The thumbprint a connect event is about.
ConnectThumbprint(m) ==
    IF m.certThumbprint # None THEN m.certThumbprint
    ELSE IF m.registration.clientGuid # None THEN BeforeColon(m.registration.clientGuid)
    ELSE None

ThumbprintAlerts(texts) ==
    {Alert("Unknown Certificate Thumbprint", t) : t \in {x \in texts : Unknown(x)}}

\* Whose thumbprint an event shows: the connecting client's, the certificates
\* of the service, or the publisher's on a topic that is not the brokers'.
Suspects(m) ==
    IF m.topic = "connect" THEN {ConnectThumbprint(m)} \ {None}
    ELSE IF m.topic = "register" THEN m.registration.certificates
    ELSE IF m.topic \in BrokerTopics \/ m.source \in DOMAIN brokers THEN {}
    ELSE {Publisher(m)}

LegacyCipherAlerts(m) ==
    IF m.topic = "connect" /\ m.cipher = "legacy"
    THEN {Alert("Legacy Cipher Suite", ConnectThumbprint(m))} ELSE {}

RevocationAlerts(m) ==
    {Alert("Certificate Revoked", NormalizeThumbprint(c)) :
        c \in {x \in m.revoked : m.topic = "revocation" /\ ~IsBlank(NormalizeThumbprint(x))}}

\* Whom the payload claims to be about, as far as the engine looks.
Claims(m) ==
    ({m.certThumbprint, m.registration.clientGuid}
        \cup IF m.topic = "firstinstance" THEN {} ELSE {m.agentGuid}) \ {None}

\* The identities the envelope vouches for.
Vouched(m) ==
    {NormalizeIdentity(x) : x \in {m.source, Cert(m)} \ {None}} \ {<<>>}

MismatchAlerts(m) ==
    IF /\ m.topic \notin BrokerTopics
       /\ m.source \notin DOMAIN brokers
       /\ Vouched(m) # {}
       /\ \E c \in Claims(m) : NormalizeIdentity(c) \notin Vouched(m) \cup {<<>>}
    THEN {Alert("Payload Identity Spoofing", Publisher(m))} ELSE {}

SensitiveAlerts(m) ==
    IF m.topic \in UNION SensitiveFilters
    THEN {Alert("Sensitive Topic Published", Publisher(m))} ELSE {}

-----------------------------------------------------------------------------
(* Registrations *)

\* Only a registration with all of these is recorded; an owner may be missing.
Complete(registration) == /\ registration.serviceType # None
                          /\ registration.ttlMins # None
                          /\ registration.registrationTime # None

\* An empty clientGuid is no owner.
Owner(registration) ==
    IF registration.clientGuid # None /\ IsEmpty(registration.clientGuid) THEN None
    ELSE registration.clientGuid

\* Mutant of Recorded: the TTL is not cut to 32 bits.
RecordedUncut(registration) ==
    [serviceType |-> registration.serviceType, owner |-> Owner(registration),
     registrationTime |-> registration.registrationTime, ttlMins |-> registration.ttlMins,
     reported |-> FALSE]

Recorded(registration) ==
    [serviceType |-> registration.serviceType,
     owner |-> Owner(registration),
     registrationTime |-> registration.registrationTime,
     ttlMins |-> registration.ttlMins % TtlModulus,
     reported |-> FALSE]

\* Two known owners that are not the same client.
Hijacks(registration, service) ==
    /\ service # None
    /\ service.owner # None
    /\ Owner(registration) # None
    /\ NormalizeIdentity(service.owner) # NormalizeIdentity(Owner(registration))

Registers(m) == /\ m.topic = "register"
                /\ m.serviceGuid # None
                /\ Complete(m.registration)

Hijack(m) == Registers(m) /\ Hijacks(m.registration, services[m.serviceGuid])

\* Mutant of Stored: the hijacking registration is recorded all the same.
StoredAnyway(m) == Registers(m)

Stored(m) == Registers(m) /\ ~Hijack(m)

Removed(m) == /\ m.topic = "unregister"
              /\ m.serviceGuid # None
              /\ services[m.serviceGuid] # None

HijackAlerts(m) ==
    IF Hijack(m) THEN {Alert("Service Hijack Attempt", Owner(m.registration))} ELSE {}

Expiry(service) == service.registrationTime + (service.ttlMins + GraceMins) * SecsPerMin

\* Mutant of ReportedOnRemoval: what the poll reported is reported again.
ReportedAgainOnRemoval(m) == {g \in {m.serviceGuid} : Removed(m) /\ Secs >= Expiry(services[g])}

\* Mutant of ReportedOnRemoval: the reaper's event, right at the expiry, is too early.
ReportedAfterExpiry(m) ==
    {g \in {m.serviceGuid} : /\ Removed(m)
                             /\ ~services[g].reported
                             /\ Secs > Expiry(services[g])}

\* The broker's reaper unregisters right at the expiry, before the next poll.
ReportedOnRemoval(m) ==
    {g \in {m.serviceGuid} : /\ Removed(m)
                             /\ ~services[g].reported
                             /\ Secs >= Expiry(services[g])}

-----------------------------------------------------------------------------
(* Brokers *)

NamesBroker(m) == m.topic = "brokerstate" /\ m.guid # None

\* A new broker, a changed state, or a brokerstate that names no broker.
FabricChanged(m) ==
    \/ m.topic = "fabricchange"
    \/ /\ m.topic = "brokerstate"
       /\ \/ m.guid = None
          \/ m.guid \notin DOMAIN brokers
          \/ brokers[m.guid] # m.state

FabricAlerts(m) ==
    IF FabricChanged(m) THEN {Alert("Fabric Change Detected", None)} ELSE {}

RateAlerts(m) ==
    (IF RateExceeded(clientRates, Publisher(m), clock)
     THEN {Alert("Client Rate Anomaly", Publisher(m))} ELSE {})
    \cup (IF RateExceeded(topicRates, m.topic, clock)
          THEN {Alert("Topic Rate Anomaly", m.topic)} ELSE {})

-----------------------------------------------------------------------------
(* process_event_with_cert *)

\* report_spoofed_broker_event, and the guard's early returns.
RejectEvent(m) ==
    /\ alerts' = {SpoofAlert(m)}
    /\ UNCHANGED <<services, brokers, clientRates, topicRates, ttlAlerts>>

AcceptEvent(m) ==
    /\ services' = IF Stored(m) THEN [services EXCEPT ![m.serviceGuid] = Recorded(m.registration)]
                   ELSE IF Removed(m) THEN [services EXCEPT ![m.serviceGuid] = None]
                   ELSE services
    /\ brokers' = IF NamesBroker(m)
                  THEN [b \in DOMAIN brokers \cup {m.guid} |-> IF b = m.guid THEN m.state ELSE brokers[b]]
                  ELSE brokers
    /\ clientRates' = TrackRate(clientRates, Publisher(m), clock)
    /\ topicRates' = TrackRate(topicRates, m.topic, clock)
    /\ alerts' = ThumbprintAlerts(Suspects(m)) \cup LegacyCipherAlerts(m) \cup HijackAlerts(m)
                 \cup {TtlAlert(g) : g \in ReportedOnRemoval(m)} \cup RevocationAlerts(m)
                 \cup MismatchAlerts(m) \cup SensitiveAlerts(m) \cup RateAlerts(m) \cup FabricAlerts(m)
    /\ ttlAlerts' = [g \in ServiceGuids |->
                       IF Stored(m) /\ g = m.serviceGuid THEN 0
                       ELSE IF g \in ReportedOnRemoval(m) THEN ttlAlerts[g] + 1
                       ELSE ttlAlerts[g]]

ProcessEvent(m) == \/ Spoofed(m) /\ RejectEvent(m)
                   \/ ~Spoofed(m) /\ AcceptEvent(m)

-----------------------------------------------------------------------------
(* poll_timeouts *)

\* Mutant of Expired: the grace period is forgotten.
ExpiredWithoutGrace(guid) ==
    /\ services[guid] # None
    /\ ~services[guid].reported
    /\ Secs > services[guid].registrationTime + services[guid].ttlMins * SecsPerMin

\* Mutant of Expired: reported at the expiry, not after it.
ExpiredAtOnce(guid) == /\ services[guid] # None
                       /\ ~services[guid].reported
                       /\ Secs >= Expiry(services[guid])

\* One second later than on removal: the code has > here and >= there.
Expired(guid) == /\ services[guid] # None
                 /\ ~services[guid].reported
                 /\ Secs > Expiry(services[guid])

PollTimeouts ==
    /\ clientRates' = PruneAll(clientRates, Secs * MsPerSec)
    /\ topicRates' = PruneAll(topicRates, Secs * MsPerSec)
    /\ services' = [g \in ServiceGuids |->
                      IF Expired(g) THEN [services[g] EXCEPT !.reported = TRUE] ELSE services[g]]
    /\ alerts' = {TtlAlert(g) : g \in {x \in ServiceGuids : Expired(x)}}
    /\ ttlAlerts' = [g \in ServiceGuids |-> IF Expired(g) THEN ttlAlerts[g] + 1 ELSE ttlAlerts[g]]
    /\ UNCHANGED brokers

-----------------------------------------------------------------------------
(* The replies to the registry queries.  A reply without its object is None *)

Listed(snapshot) == {g \in DOMAIN snapshot : Complete(snapshot[g])}

\* process_sync_response: the services become the snapshot's complete entries.
ProcessSyncResponse(snapshot) ==
    /\ IF snapshot = None
       THEN UNCHANGED <<services, ttlAlerts>> /\ alerts' = {}
       ELSE /\ services' = [g \in ServiceGuids |->
                              IF g \in Listed(snapshot) THEN Recorded(snapshot[g]) ELSE None]
            /\ ttlAlerts' = [g \in ServiceGuids |->
                               IF g \in Listed(snapshot) THEN 0 ELSE ttlAlerts[g]]
            /\ alerts' = ThumbprintAlerts(UNION {snapshot[g].certificates : g \in DOMAIN snapshot})
    /\ UNCHANGED <<brokers, clientRates, topicRates>>

\* process_broker_sync_response: the brokers become those listed, except that a
\* client's thumbprint is never taken for a broker.
ProcessBrokerSyncResponse(list) ==
    /\ brokers' = IF list = None THEN brokers
                  ELSE [b \in {x \in DOMAIN list : ~IsHexThumbprint(x)} |-> list[b]]
    /\ alerts' = {}
    /\ UNCHANGED <<services, clientRates, topicRates, ttlAlerts>>

-----------------------------------------------------------------------------
Tick == /\ clock < MaxClock
        /\ clock' = clock + 1
        /\ UNCHANGED engineVars

Next == \/ (\E m \in Messages : ProcessEvent(m)) /\ UNCHANGED clock
        \/ PollTimeouts /\ UNCHANGED clock
        \/ (\E s \in Snapshots : ProcessSyncResponse(s)) /\ UNCHANGED clock
        \/ (\E l \in BrokerLists : ProcessBrokerSyncResponse(l)) /\ UNCHANGED clock
        \/ Tick

Spec == Init /\ [][Next]_vars

-----------------------------------------------------------------------------
(* Properties *)

Titles == {"Spoofed Broker Event", "Unknown Certificate Thumbprint", "Legacy Cipher Suite",
           "Service Hijack Attempt", "Service TTL Expired", "Certificate Revoked",
           "Payload Identity Spoofing", "Sensitive Topic Published", "Client Rate Anomaly",
           "Topic Rate Anomaly", "Fabric Change Detected"}

\* Type correctness of the engine's state (struct DetectionEngine): a recorded
\* TTL has 32 bits, every broker has a state, every rate map holds past times.
TypeOK ==
    /\ services \in [ServiceGuids -> ServiceState \cup {None}]
    /\ \A b \in DOMAIN brokers : b \in Texts
    /\ brokers \in [DOMAIN brokers -> States]
    /\ \A k \in DOMAIN clientRates : k \in Texts
    /\ clientRates \in [DOMAIN clientRates -> Seq(0 .. clock)]
    /\ DOMAIN topicRates \subseteq Topics
    /\ topicRates \in [DOMAIN topicRates -> Seq(0 .. clock)]
    /\ clock \in 0 .. MaxClock
    /\ \A a \in alerts : a.title \in Titles
    /\ ttlAlerts \in [ServiceGuids -> Nat]

\* The expiry of a registration is reported once: by the poll or by the removal
\* that comes with the reaper's unregister event, never by both, whatever other
\* events and refused registrations come between.
NoRepeatedTtlAlert == \A g \in ServiceGuids : ttlAlerts[g] <= 1

\* A service marked as reported is overdue and its alert has been raised: a
\* renewal that left the mark would silence the expiry of the new registration.
ReportedIsOverdue ==
    \A g \in ServiceGuids :
        services[g] # None /\ services[g].reported =>
            Secs > Expiry(services[g]) /\ ttlAlerts[g] = 1

\* No event takes an overdue service off the books in silence: the poll has
\* reported it or the unregister event does, even in the second in which only
\* the reaper acts (detections.rs:352-360).
RemovalReportsExpiry ==
    [][\A g \in ServiceGuids :
          (/\ services[g] # None /\ services'[g] = None
           /\ Secs >= Expiry(services[g])
           /\ ~\E s \in Snapshots : ProcessSyncResponse(s)) =>
             services[g].reported \/ TtlAlert(g) \in alerts']_vars

\* A client's certificate thumbprint is never taken for a broker, neither from
\* brokerstate events nor from the broker registry's reply.
NoThumbprintBroker == \A b \in DOMAIN brokers : ~IsHexThumbprint(b)

\* Once a broker is known, no event adds one or takes one away: only the broker
\* registry's reply changes who is known (the guard of detections.rs:181-199).
BrokersChangeOnlyBySync ==
    [][DOMAIN brokers # {} /\ DOMAIN brokers' # DOMAIN brokers =>
          \E l \in BrokerLists : ProcessBrokerSyncResponse(l)]_vars

\* No event moves a service from one client to another: the hijacking
\* registration is reported and the recorded one, with its TTL, stays.
OwnerNeverMoves ==
    [][\A g \in ServiceGuids :
          (/\ services[g] # None /\ services[g].owner # None
           /\ services'[g] # None /\ services'[g].owner # None
           /\ NormalizeIdentity(services'[g].owner) # NormalizeIdentity(services[g].owner)) =>
             ~\E m \in Messages : ProcessEvent(m)]_vars
=============================================================================
