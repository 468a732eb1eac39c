------------------------ MODULE DetectionEngineProofs ------------------------
(***************************************************************************)
(* Theorems about the detection engine, for any services, brokers, events, *)
(* replies and parameters.                                                 *)
(***************************************************************************)
EXTENDS DetectionEngine, RateWindowProofs

-----------------------------------------------------------------------------
(* Lemmas about single operators *)

\* The engine's clock in seconds does not run backwards when time passes.
LEMMA SecsType ==
    ASSUME TypeOK
    PROVE  Secs \in Int /\ (clock' = clock + 1 => Secs' \in Int /\ Secs <= Secs')
<1>1. clock \in Nat /\ MsPerSec \in Nat \ {0}
  BY EngineAssumption DEF TypeOK
<1>2. /\ clock \div MsPerSec \in Int
      /\ (clock + 1) \div MsPerSec \in Int
      /\ clock \div MsPerSec <= (clock + 1) \div MsPerSec
  BY <1>1, SMTT(30)
<1> QED BY <1>2 DEF Secs

LEMMA PublisherType == ASSUME NEW m \in Messages PROVE m \in Message /\ Publisher(m) \in Texts
<1>1. m \in Message
  BY EngineAssumption
<1>2. m.source \in Texts /\ m.cert \in Texts \cup {None}
  BY <1>1 DEF Message, TextOrNone
<1> QED BY <1>1, <1>2 DEF Publisher, Cert

\* A complete registration is stored with a TTL of 32 bits and a text or no owner.
LEMMA RecordedType ==
    ASSUME NEW r \in RegistrationFields, Complete(r)
    PROVE  Recorded(r) \in ServiceState /\ Recorded(r).reported = FALSE
<1>1. /\ r.serviceType \in ServiceTypes
      /\ r.ttlMins \in Nat
      /\ r.registrationTime \in Int
      /\ r.clientGuid \in TextOrNone
  BY DEF Complete, RegistrationFields
<1>2. TtlModulus \in Nat \ {0}
  BY EngineAssumption
<1>3. r.ttlMins % TtlModulus \in 0 .. TtlModulus - 1
  BY <1>1, <1>2, SMTT(30)
<1>4. Owner(r) \in TextOrNone
  BY <1>1 DEF Owner, TextOrNone
<1> QED BY <1>1, <1>3, <1>4 DEF Recorded, ServiceState

\* A service keeps its type when it is marked as reported.
LEMMA ReportedType ==
    ASSUME NEW s \in ServiceState
    PROVE  /\ [s EXCEPT !.reported = TRUE] \in ServiceState
           /\ [s EXCEPT !.reported = TRUE].reported = TRUE
           /\ Expiry([s EXCEPT !.reported = TRUE]) = Expiry(s)
           /\ s # None
BY EngineAssumption DEF ServiceState, Expiry

LEMMA ExpiryType == ASSUME NEW s \in ServiceState PROVE Expiry(s) \in Int
<1>1. s.registrationTime \in Int /\ s.ttlMins \in Nat
  BY EngineAssumption DEF ServiceState
<1>2. s.ttlMins + GraceMins \in Nat /\ SecsPerMin \in Nat
  BY <1>1, EngineAssumption
<1>3. (s.ttlMins + GraceMins) * SecsPerMin \in Int
  BY <1>2, SMT
<1> QED BY <1>1, <1>3 DEF Expiry

\* The titles of the alerts an event may raise.
LEMMA EventTitles ==
    ASSUME NEW m \in Messages, AcceptEvent(m) PROVE \A a \in alerts' : a.title \in Titles
<1>0. \A title, about : Alert(title, about).title = title
  BY DEF Alert
<1>1. alerts' = ThumbprintAlerts(Suspects(m)) \cup LegacyCipherAlerts(m) \cup HijackAlerts(m)
                 \cup {TtlAlert(g) : g \in ReportedOnRemoval(m)} \cup RevocationAlerts(m)
                 \cup MismatchAlerts(m) \cup SensitiveAlerts(m) \cup RateAlerts(m) \cup FabricAlerts(m)
  BY DEF AcceptEvent
<1>2. \A a \in ThumbprintAlerts(Suspects(m)) : a.title = "Unknown Certificate Thumbprint"
  BY <1>0 DEF ThumbprintAlerts
<1>3. \A a \in LegacyCipherAlerts(m) : a.title = "Legacy Cipher Suite"
  BY <1>0 DEF LegacyCipherAlerts
<1>4. \A a \in HijackAlerts(m) : a.title = "Service Hijack Attempt"
  BY <1>0 DEF HijackAlerts
<1>5. \A a \in {TtlAlert(g) : g \in ReportedOnRemoval(m)} : a.title = "Service TTL Expired"
  BY <1>0 DEF TtlAlert
<1>6. \A a \in RevocationAlerts(m) : a.title = "Certificate Revoked"
  BY <1>0 DEF RevocationAlerts
<1>7. \A a \in MismatchAlerts(m) : a.title = "Payload Identity Spoofing"
  BY <1>0 DEF MismatchAlerts
<1>8. \A a \in SensitiveAlerts(m) : a.title = "Sensitive Topic Published"
  BY <1>0 DEF SensitiveAlerts
<1>9. \A a \in RateAlerts(m) : a.title \in {"Client Rate Anomaly", "Topic Rate Anomaly"}
  BY <1>0 DEF RateAlerts
<1>10. \A a \in FabricAlerts(m) : a.title = "Fabric Change Detected"
  BY <1>0 DEF FabricAlerts
<1> QED BY <1>1, <1>2, <1>3, <1>4, <1>5, <1>6, <1>7, <1>8, <1>9, <1>10 DEF Titles

LEMMA RatesTyped ==
    ASSUME TypeOK
    PROVE  /\ IsRateMap(clientRates, Texts, 0 .. clock)
           /\ IsRateMap(topicRates, Topics, 0 .. clock)
           /\ clock \in 0 .. clock
BY EngineAssumption DEF TypeOK, IsRateMap

-----------------------------------------------------------------------------
(* Type correctness *)

LEMMA InitType == Init => TypeOK
<1> SUFFICES ASSUME Init PROVE TypeOK
  OBVIOUS
<1>1. services \in [ServiceGuids -> ServiceState \cup {None}]
  BY DEF Init, EngineInit
<1>2. DOMAIN brokers = {} /\ brokers \in [DOMAIN brokers -> States]
  BY DEF Init, EngineInit
<1>3. /\ DOMAIN clientRates = {} /\ clientRates \in [DOMAIN clientRates -> Seq(0 .. clock)]
      /\ DOMAIN topicRates = {} /\ topicRates \in [DOMAIN topicRates -> Seq(0 .. clock)]
  BY DEF Init, EngineInit, EmptyRates
<1>4. clock \in 0 .. MaxClock
  BY EngineAssumption DEF Init
<1>5. alerts = {} /\ ttlAlerts \in [ServiceGuids -> Nat]
  BY DEF Init, EngineInit
<1> QED BY <1>1, <1>2, <1>3, <1>4, <1>5 DEF TypeOK

\* What an accepted event stores and removes.
LEMMA AcceptedServices ==
    ASSUME TypeOK, NEW m \in Messages, AcceptEvent(m), NEW g \in ServiceGuids
    PROVE  /\ Stored(m) /\ g = m.serviceGuid =>
                /\ services'[g] = Recorded(m.registration)
                /\ services'[g] \in ServiceState /\ services'[g].reported = FALSE
                /\ ttlAlerts'[g] = 0
           /\ ~(Stored(m) /\ g = m.serviceGuid) =>
                /\ services'[g] = IF Removed(m) /\ g = m.serviceGuid THEN None ELSE services[g]
                /\ ttlAlerts'[g] = IF g \in ReportedOnRemoval(m) THEN ttlAlerts[g] + 1
                                   ELSE ttlAlerts[g]
<1>1. m \in Message /\ m.registration \in RegistrationFields
  BY PublisherType DEF Message
<1>2. services \in [ServiceGuids -> ServiceState \cup {None}]
  BY DEF TypeOK
<1>3. Stored(m) => ~Removed(m) /\ m.serviceGuid # None /\ Complete(m.registration)
  BY DEF Stored, Registers, Removed
<1>4. services' = IF Stored(m) THEN [services EXCEPT ![m.serviceGuid] = Recorded(m.registration)]
                  ELSE IF Removed(m) THEN [services EXCEPT ![m.serviceGuid] = None]
                  ELSE services
  BY DEF AcceptEvent
<1>5. ttlAlerts'[g] = IF Stored(m) /\ g = m.serviceGuid THEN 0
                      ELSE IF g \in ReportedOnRemoval(m) THEN ttlAlerts[g] + 1
                      ELSE ttlAlerts[g]
  BY DEF AcceptEvent
<1>6. ASSUME Stored(m), g = m.serviceGuid
      PROVE  /\ services'[g] = Recorded(m.registration)
             /\ services'[g] \in ServiceState /\ services'[g].reported = FALSE
  <2>1. services'[g] = Recorded(m.registration)
    BY <1>2, <1>4, <1>6
  <2> QED BY <2>1, <1>1, <1>3, <1>6, RecordedType
<1>7. ASSUME ~(Stored(m) /\ g = m.serviceGuid)
      PROVE  services'[g] = IF Removed(m) /\ g = m.serviceGuid THEN None ELSE services[g]
  BY <1>2, <1>3, <1>4, <1>7
<1> QED BY <1>5, <1>6, <1>7

LEMMA AcceptType ==
    ASSUME TypeOK, NEW m \in Messages, AcceptEvent(m), UNCHANGED clock
    PROVE  TypeOK'
<1>1. m \in Message /\ Publisher(m) \in Texts /\ m.topic \in Topics /\ m.state \in States
      /\ m.guid \in TextOrNone
  BY PublisherType DEF Message
<1>2. services' \in [ServiceGuids -> ServiceState \cup {None}]
  <2>1. DOMAIN services' = ServiceGuids /\ services' = [g \in ServiceGuids |-> services'[g]]
    BY DEF AcceptEvent, TypeOK
  <2>2. \A g \in ServiceGuids : services'[g] \in ServiceState \cup {None}
    BY AcceptedServices DEF TypeOK
  <2> QED BY <2>1, <2>2
<1>3. ttlAlerts' \in [ServiceGuids -> Nat]
  BY DEF AcceptEvent, TypeOK
<1>4. (\A b \in DOMAIN brokers' : b \in Texts) /\ brokers' \in [DOMAIN brokers' -> States]
  <2>1. CASE NamesBroker(m)
    <3>1. m.guid \in Texts
      BY <1>1, <2>1 DEF NamesBroker, TextOrNone
    <3>2. brokers' = [b \in DOMAIN brokers \cup {m.guid} |->
                        IF b = m.guid THEN m.state ELSE brokers[b]]
      BY <2>1 DEF AcceptEvent
    <3> QED BY <1>1, <3>1, <3>2 DEF TypeOK
  <2>2. CASE ~NamesBroker(m)
    BY <2>2 DEF AcceptEvent, TypeOK
  <2> QED BY <2>1, <2>2
<1>5. IsRateMap(clientRates', Texts, 0 .. clock) /\ IsRateMap(topicRates', Topics, 0 .. clock)
  BY <1>1, RatesTyped, TrackRateType DEF AcceptEvent
<1>6. \A a \in alerts' : a.title \in Titles
  BY EventTitles
<1> QED BY <1>2, <1>3, <1>4, <1>5, <1>6 DEF TypeOK, IsRateMap

LEMMA RejectType ==
    ASSUME TypeOK, NEW m \in Messages, RejectEvent(m), UNCHANGED clock
    PROVE  TypeOK'
<1>1. \A title, about : Alert(title, about).title = title
  BY DEF Alert
<1>2. \A a \in alerts' : a.title \in Titles
  <2>1. \A a \in alerts' : a.title = "Spoofed Broker Event"
    BY <1>1 DEF RejectEvent, SpoofAlert
  <2> QED BY <2>1 DEF Titles
<1> QED BY <1>2 DEF RejectEvent, TypeOK

LEMMA PollType ==
    ASSUME TypeOK, PollTimeouts, UNCHANGED clock
    PROVE  TypeOK'
<1>1. \A title, about : Alert(title, about).title = title
  BY DEF Alert
<1>2. \A a \in alerts' : a.title \in Titles
  <2>1. \A a \in alerts' : a.title = "Service TTL Expired"
    BY <1>1 DEF PollTimeouts, TtlAlert
  <2> QED BY <2>1 DEF Titles
<1>3. IsRateMap(clientRates', Texts, 0 .. clock) /\ IsRateMap(topicRates', Topics, 0 .. clock)
  BY RatesTyped, PruneAllType DEF PollTimeouts
<1>4. services' \in [ServiceGuids -> ServiceState \cup {None}]
  <2>1. \A g \in ServiceGuids :
          (IF Expired(g) THEN [services[g] EXCEPT !.reported = TRUE] ELSE services[g])
             \in ServiceState \cup {None}
    BY ReportedType DEF TypeOK, Expired
  <2> QED BY <2>1 DEF PollTimeouts
<1>5. ttlAlerts' \in [ServiceGuids -> Nat]
  BY DEF PollTimeouts, TypeOK
<1> QED BY <1>2, <1>3, <1>4, <1>5 DEF PollTimeouts, TypeOK, IsRateMap

LEMMA SyncType ==
    ASSUME TypeOK, NEW s \in Snapshots, ProcessSyncResponse(s), UNCHANGED clock
    PROVE  TypeOK'
<1>1. CASE s = None
  BY <1>1 DEF ProcessSyncResponse, TypeOK
<1>2. CASE s # None
  <2>1. DOMAIN s \subseteq ServiceGuids /\ s \in [DOMAIN s -> RegistrationFields]
    BY <1>2, EngineAssumption
  <2>2. \A g \in ServiceGuids :
          (IF g \in Listed(s) THEN Recorded(s[g]) ELSE None) \in ServiceState \cup {None}
    BY <2>1, RecordedType DEF Listed
  <2>3. services' \in [ServiceGuids -> ServiceState \cup {None}]
    BY <1>2, <2>2 DEF ProcessSyncResponse
  <2>4. ttlAlerts' \in [ServiceGuids -> Nat]
    BY <1>2 DEF ProcessSyncResponse, TypeOK
  <2>5. \A title, about : Alert(title, about).title = title
    BY DEF Alert
  <2>6. \A a \in alerts' : a.title \in Titles
    <3>1. \A a \in alerts' : a.title = "Unknown Certificate Thumbprint"
      <4>1. \A texts : \A a \in ThumbprintAlerts(texts) :
              a.title = "Unknown Certificate Thumbprint"
        BY <2>5 DEF ThumbprintAlerts
      <4>2. alerts' = ThumbprintAlerts(UNION {s[g].certificates : g \in DOMAIN s})
        BY <1>2 DEF ProcessSyncResponse
      <4> QED BY <4>1, <4>2
    <3> QED BY <3>1 DEF Titles
  <2> QED BY <2>3, <2>4, <2>6 DEF ProcessSyncResponse, TypeOK
<1> QED BY <1>1, <1>2

LEMMA BrokerSyncType ==
    ASSUME TypeOK, NEW l \in BrokerLists, ProcessBrokerSyncResponse(l), UNCHANGED clock
    PROVE  TypeOK'
<1>1. (\A b \in DOMAIN brokers' : b \in Texts) /\ brokers' \in [DOMAIN brokers' -> States]
  <2>1. CASE l = None
    BY <2>1 DEF ProcessBrokerSyncResponse, TypeOK
  <2>2. CASE l # None
    <3>1. (\A b \in DOMAIN l : b \in Texts) /\ l \in [DOMAIN l -> States]
      BY <2>2, EngineAssumption
    <3>2. brokers' = [b \in {x \in DOMAIN l : ~IsHexThumbprint(x)} |-> l[b]]
      BY <2>2 DEF ProcessBrokerSyncResponse
    <3> QED BY <3>1, <3>2
  <2> QED BY <2>1, <2>2
<1> QED BY <1>1 DEF ProcessBrokerSyncResponse, TypeOK

LEMMA TickType == ASSUME TypeOK, Tick PROVE TypeOK'
<1>1. clock' \in 0 .. MaxClock /\ 0 .. clock \subseteq 0 .. clock'
  BY EngineAssumption DEF Tick, TypeOK
<1>2. Seq(0 .. clock) \subseteq Seq(0 .. clock')
  BY <1>1, SeqMonotonic
<1> QED BY <1>1, <1>2 DEF Tick, engineVars, TypeOK

LEMMA NextType == TypeOK /\ [Next]_vars => TypeOK'
<1> SUFFICES ASSUME TypeOK, [Next]_vars PROVE TypeOK'
  OBVIOUS
<1>1. ASSUME NEW m \in Messages, ProcessEvent(m), UNCHANGED clock PROVE TypeOK'
  BY <1>1, AcceptType, RejectType DEF ProcessEvent
<1>2. CASE PollTimeouts /\ UNCHANGED clock
  BY <1>2, PollType
<1>3. ASSUME NEW s \in Snapshots, ProcessSyncResponse(s), UNCHANGED clock PROVE TypeOK'
  BY <1>3, SyncType
<1>4. ASSUME NEW l \in BrokerLists, ProcessBrokerSyncResponse(l), UNCHANGED clock PROVE TypeOK'
  BY <1>4, BrokerSyncType
<1>5. CASE Tick
  BY <1>5, TickType
<1>6. CASE UNCHANGED vars
  BY <1>6 DEF vars, engineVars, TypeOK
<1> QED BY <1>1, <1>2, <1>3, <1>4, <1>5, <1>6 DEF Next

\* The engine's state keeps its type whatever is published and replied.
THEOREM TypeCorrect == Spec => []TypeOK
<1>1. Init => TypeOK
  BY InitType
<1>2. TypeOK /\ [Next]_vars => TypeOK'
  BY NextType
<1> QED BY <1>1, <1>2, PTL DEF Spec

-----------------------------------------------------------------------------
(* The expiry of a registration is reported once *)

\* The strengthening: until a registration is reported no alert counts against
\* it, afterwards exactly one, and it is overdue.
ReportedOnce(g) ==
    /\ ttlAlerts[g] \in {0, 1}
    /\ services[g] # None =>
         IF services[g].reported THEN Secs > Expiry(services[g]) /\ ttlAlerts[g] = 1
         ELSE ttlAlerts[g] = 0

TtlInv == TypeOK /\ \A g \in ServiceGuids : ReportedOnce(g)

LEMMA TtlInvInit == Init => TtlInv
<1>1. Init => \A g \in ServiceGuids : ReportedOnce(g)
  BY DEF Init, EngineInit, ReportedOnce
<1> QED BY <1>1, InitType DEF TtlInv

LEMMA TtlInvAccept ==
    ASSUME TtlInv, NEW m \in Messages, AcceptEvent(m), UNCHANGED clock, NEW g \in ServiceGuids
    PROVE  ReportedOnce(g)'
<1>1. TypeOK /\ ReportedOnce(g)
  BY DEF TtlInv
<1>2. CASE Stored(m) /\ g = m.serviceGuid
  BY <1>1, <1>2, AcceptedServices DEF ReportedOnce
<1>3. CASE ~(Stored(m) /\ g = m.serviceGuid) /\ Removed(m) /\ g = m.serviceGuid
  <2>1. services'[g] = None
    BY <1>1, <1>3, AcceptedServices
  <2>2. services[g] # None /\ (g \in ReportedOnRemoval(m) => ~services[g].reported)
    BY <1>3 DEF Removed, ReportedOnRemoval
  <2>3. ttlAlerts'[g] = IF g \in ReportedOnRemoval(m) THEN ttlAlerts[g] + 1 ELSE ttlAlerts[g]
    BY <1>1, <1>3, AcceptedServices
  <2> QED BY <1>1, <2>1, <2>2, <2>3 DEF ReportedOnce
<1>4. CASE ~(Stored(m) /\ g = m.serviceGuid) /\ ~(Removed(m) /\ g = m.serviceGuid)
  <2>1. g \notin ReportedOnRemoval(m)
    BY <1>4 DEF ReportedOnRemoval
  <2>2. services'[g] = services[g] /\ ttlAlerts'[g] = ttlAlerts[g]
    BY <1>1, <1>4, <2>1, AcceptedServices
  <2>3. Secs' = Secs
    BY DEF Secs
  <2> QED BY <1>1, <2>2, <2>3 DEF ReportedOnce, Expiry
<1> QED BY <1>2, <1>3, <1>4

LEMMA TtlInvPoll ==
    ASSUME TtlInv, PollTimeouts, UNCHANGED clock, NEW g \in ServiceGuids
    PROVE  ReportedOnce(g)'
<1>1. TypeOK /\ ReportedOnce(g) /\ Secs' = Secs
  BY DEF TtlInv, Secs
<1>2. CASE Expired(g)
  <2>1. services[g] \in ServiceState /\ services[g].reported # TRUE /\ Secs > Expiry(services[g])
    BY <1>1, <1>2 DEF Expired, TypeOK
  <2>2. services'[g] = [services[g] EXCEPT !.reported = TRUE]
    BY <1>2 DEF PollTimeouts
  <2>3. services'[g].reported = TRUE /\ Expiry(services'[g]) = Expiry(services[g])
    BY <2>1, <2>2, ReportedType
  <2>4. ttlAlerts[g] = 0
    BY <1>1, <1>2 DEF Expired, ReportedOnce
  <2>5. ttlAlerts'[g] = 1
    BY <1>2, <2>4 DEF PollTimeouts
  <2> QED BY <1>1, <2>1, <2>3, <2>5 DEF ReportedOnce, Expiry
<1>3. CASE ~Expired(g)
  <2>1. services'[g] = services[g] /\ ttlAlerts'[g] = ttlAlerts[g]
    BY <1>3 DEF PollTimeouts
  <2> QED BY <1>1, <2>1 DEF ReportedOnce, Expiry
<1> QED BY <1>2, <1>3

LEMMA TtlInvSync ==
    ASSUME TtlInv, NEW s \in Snapshots, ProcessSyncResponse(s), UNCHANGED clock,
           NEW g \in ServiceGuids
    PROVE  ReportedOnce(g)'
<1>1. TypeOK /\ ReportedOnce(g) /\ Secs' = Secs
  BY DEF TtlInv, Secs
<1>2. CASE s = None
  <2>1. services'[g] = services[g] /\ ttlAlerts'[g] = ttlAlerts[g]
    BY <1>2 DEF ProcessSyncResponse
  <2> QED BY <1>1, <2>1 DEF ReportedOnce, Expiry
<1>3. CASE s # None /\ g \in Listed(s)
  <2>1. services'[g] = Recorded(s[g]) /\ ttlAlerts'[g] = 0
    BY <1>3 DEF ProcessSyncResponse
  <2>2. Recorded(s[g]).reported = FALSE
    BY DEF Recorded
  <2> QED BY <2>1, <2>2 DEF ReportedOnce
<1>4. CASE s # None /\ g \notin Listed(s)
  <2>1. services'[g] = None /\ ttlAlerts'[g] = ttlAlerts[g]
    BY <1>4 DEF ProcessSyncResponse
  <2> QED BY <1>1, <2>1 DEF ReportedOnce
<1> QED BY <1>2, <1>3, <1>4

LEMMA TtlInvTick ==
    ASSUME TtlInv, Tick, NEW g \in ServiceGuids
    PROVE  ReportedOnce(g)'
<1>1. TypeOK /\ ReportedOnce(g)
  BY DEF TtlInv
<1>2. services'[g] = services[g] /\ ttlAlerts'[g] = ttlAlerts[g]
  BY DEF Tick, engineVars
<1>3. Secs \in Int /\ Secs' \in Int /\ Secs <= Secs'
  BY <1>1, SecsType DEF Tick
<1>4. services[g] # None => services[g] \in ServiceState /\ Expiry(services[g]) \in Int
  BY <1>1, ExpiryType DEF TypeOK
<1>5. Expiry(services[g])' = Expiry(services[g])
  BY <1>2 DEF Expiry
<1> QED BY <1>1, <1>2, <1>3, <1>4, <1>5 DEF ReportedOnce

LEMMA TtlInvNext == TtlInv /\ [Next]_vars => TtlInv'
<1> SUFFICES ASSUME TtlInv, [Next]_vars PROVE TtlInv'
  OBVIOUS
<1>1. TypeOK'
  BY NextType DEF TtlInv
<1>2. ASSUME NEW g \in ServiceGuids PROVE ReportedOnce(g)'
  <2>1. ASSUME NEW m \in Messages, ProcessEvent(m), UNCHANGED clock PROVE ReportedOnce(g)'
    <3>1. CASE RejectEvent(m)
      BY <2>1, <3>1 DEF RejectEvent, TtlInv, ReportedOnce, Secs, Expiry
    <3>2. CASE AcceptEvent(m)
      BY <2>1, <3>2, TtlInvAccept
    <3> QED BY <2>1, <3>1, <3>2 DEF ProcessEvent
  <2>2. CASE PollTimeouts /\ UNCHANGED clock
    BY <2>2, TtlInvPoll
  <2>3. ASSUME NEW s \in Snapshots, ProcessSyncResponse(s), UNCHANGED clock
        PROVE  ReportedOnce(g)'
    BY <2>3, TtlInvSync
  <2>4. ASSUME NEW l \in BrokerLists, ProcessBrokerSyncResponse(l), UNCHANGED clock
        PROVE  ReportedOnce(g)'
    BY <2>4 DEF ProcessBrokerSyncResponse, TtlInv, ReportedOnce, Secs, Expiry
  <2>5. CASE Tick
    BY <2>5, TtlInvTick
  <2>6. CASE UNCHANGED vars
    BY <2>6 DEF vars, engineVars, TtlInv, ReportedOnce, Secs, Expiry
  <2> QED BY <2>1, <2>2, <2>3, <2>4, <2>5, <2>6 DEF Next
<1> QED BY <1>1, <1>2 DEF TtlInv

\* One expiry, one alert: the poll and the reaper's unregister event never both
\* report it, and neither reports it twice.
THEOREM ExpiryReportedOnce == Spec => []NoRepeatedTtlAlert
<1>1. Init => TtlInv
  BY TtlInvInit
<1>2. TtlInv /\ [Next]_vars => TtlInv'
  BY TtlInvNext
<1>3. TtlInv => NoRepeatedTtlAlert
  BY DEF TtlInv, ReportedOnce, NoRepeatedTtlAlert
<1> QED BY <1>1, <1>2, <1>3, PTL DEF Spec

\* What is marked as reported is overdue: no renewal inherits the mark.
THEOREM MarkedOnlyWhenOverdue == Spec => []ReportedIsOverdue
<1>1. Init => TtlInv
  BY TtlInvInit
<1>2. TtlInv /\ [Next]_vars => TtlInv'
  BY TtlInvNext
<1>3. TtlInv => ReportedIsOverdue
  BY DEF TtlInv, ReportedOnce, ReportedIsOverdue
<1> QED BY <1>1, <1>2, <1>3, PTL DEF Spec

-----------------------------------------------------------------------------
(* Who is a broker *)

\* An accepted brokerstate that names a broker names its sender, which is no
\* thumbprint and, once any broker is known, a known one.
LEMMA AcceptedBroker ==
    ASSUME NEW m \in Messages, ~Spoofed(m), NamesBroker(m)
    PROVE  /\ m.guid = m.source
           /\ ~IsHexThumbprint(m.guid)
           /\ DOMAIN brokers = {} \/ m.guid \in DOMAIN brokers
<1>1. m.topic = "brokerstate" /\ m.guid # None
  BY DEF NamesBroker
<1>2. ~SpoofedBrokerState(m) /\ ~UnknownBroker(m.source)
  BY <1>1 DEF Spoofed, BrokerTopics, KnownBrokerTopics
<1>3. m.guid = m.source /\ ~IsHexThumbprint(m.source)
  BY <1>1, <1>2 DEF SpoofedBrokerState
<1> QED BY <1>2, <1>3 DEF UnknownBroker

LEMMA NextNoThumbprintBroker == NoThumbprintBroker /\ [Next]_vars => NoThumbprintBroker'
<1> SUFFICES ASSUME NoThumbprintBroker, [Next]_vars PROVE NoThumbprintBroker'
  OBVIOUS
<1>1. ASSUME NEW m \in Messages, ProcessEvent(m) PROVE NoThumbprintBroker'
  <2>1. CASE RejectEvent(m)
    BY <2>1 DEF RejectEvent, NoThumbprintBroker
  <2>2. CASE ~Spoofed(m) /\ AcceptEvent(m) /\ NamesBroker(m)
    <3>1. ~IsHexThumbprint(m.guid)
      BY <2>2, AcceptedBroker
    <3>2. DOMAIN brokers' = DOMAIN brokers \cup {m.guid}
      BY <2>2 DEF AcceptEvent
    <3> QED BY <3>1, <3>2 DEF NoThumbprintBroker
  <2>3. CASE AcceptEvent(m) /\ ~NamesBroker(m)
    BY <2>3 DEF AcceptEvent, NoThumbprintBroker
  <2> QED BY <1>1, <2>1, <2>2, <2>3 DEF ProcessEvent
<1>2. ASSUME NEW l \in BrokerLists, ProcessBrokerSyncResponse(l) PROVE NoThumbprintBroker'
  BY <1>2 DEF ProcessBrokerSyncResponse, NoThumbprintBroker
<1>3. CASE UNCHANGED brokers
  BY <1>3 DEF NoThumbprintBroker
<1> QED BY <1>1, <1>2, <1>3
     DEF Next, PollTimeouts, ProcessSyncResponse, Tick, vars, engineVars

\* No certificate thumbprint ever becomes a known broker.
THEOREM NoThumbprintIsBroker == Spec => []NoThumbprintBroker
<1>1. Init => NoThumbprintBroker
  BY DEF Init, EngineInit, NoThumbprintBroker
<1>2. NoThumbprintBroker /\ [Next]_vars => NoThumbprintBroker'
  BY NextNoThumbprintBroker
<1> QED BY <1>1, <1>2, PTL DEF Spec

\* Events leave the set of known brokers alone once there is one.
THEOREM OnlySyncChangesBrokers == Spec => BrokersChangeOnlyBySync
<1> DEFINE P == DOMAIN brokers # {} /\ DOMAIN brokers' # DOMAIN brokers =>
                  \E l \in BrokerLists : ProcessBrokerSyncResponse(l)
<1>1. [Next]_vars => [P]_vars
  <2> SUFFICES ASSUME Next, DOMAIN brokers # {}, DOMAIN brokers' # DOMAIN brokers
               PROVE  \E l \in BrokerLists : ProcessBrokerSyncResponse(l)
    OBVIOUS
  <2>1. ASSUME NEW m \in Messages, ProcessEvent(m) PROVE FALSE
    <3>1. CASE RejectEvent(m)
      BY <3>1 DEF RejectEvent
    <3>2. CASE ~Spoofed(m) /\ AcceptEvent(m) /\ NamesBroker(m)
      <4>1. m.guid \in DOMAIN brokers
        BY <3>2, AcceptedBroker
      <4>2. DOMAIN brokers' = DOMAIN brokers \cup {m.guid}
        BY <3>2 DEF AcceptEvent
      <4> QED BY <4>1, <4>2
    <3>3. CASE AcceptEvent(m) /\ ~NamesBroker(m)
      BY <3>3 DEF AcceptEvent
    <3> QED BY <2>1, <3>1, <3>2, <3>3 DEF ProcessEvent
  <2> QED BY <2>1 DEF Next, PollTimeouts, ProcessSyncResponse, Tick, engineVars
<1> QED BY <1>1, PTL DEF Spec, BrokersChangeOnlyBySync

-----------------------------------------------------------------------------
\* No event hands a service over to another client.
THEOREM EventsKeepOwners == Spec => OwnerNeverMoves
<1> DEFINE P == \A g \in ServiceGuids :
                  (/\ services[g] # None /\ services[g].owner # None
                   /\ services'[g] # None /\ services'[g].owner # None
                   /\ NormalizeIdentity(services'[g].owner) # NormalizeIdentity(services[g].owner)) =>
                     ~\E m \in Messages : ProcessEvent(m)
<1>1. TypeOK /\ [Next]_vars => [P]_vars
  <2> SUFFICES ASSUME TypeOK, NEW m \in Messages, ProcessEvent(m), NEW g \in ServiceGuids,
                      services[g] # None, services[g].owner # None,
                      services'[g] # None, services'[g].owner # None
               PROVE  NormalizeIdentity(services'[g].owner) = NormalizeIdentity(services[g].owner)
    OBVIOUS
  <2>1. CASE RejectEvent(m)
    BY <2>1 DEF RejectEvent
  <2>2. CASE AcceptEvent(m) /\ Stored(m) /\ g = m.serviceGuid
    <3>1. services'[g] = Recorded(m.registration)
      BY <2>2, AcceptedServices
    <3>2. services'[g].owner = Owner(m.registration)
      BY <3>1 DEF Recorded
    <3>3. ~Hijacks(m.registration, services[g])
      BY <2>2 DEF Stored, Hijack
    <3> QED BY <3>2, <3>3 DEF Hijacks
  <2>3. CASE AcceptEvent(m) /\ ~(Stored(m) /\ g = m.serviceGuid)
    <3>1. services'[g] = services[g]
      BY <2>3, AcceptedServices
    <3> QED BY <3>1
  <2> QED BY <2>1, <2>2, <2>3 DEF ProcessEvent
<1> QED BY <1>1, TypeCorrect, PTL DEF Spec, OwnerNeverMoves

-----------------------------------------------------------------------------
\* Whatever the order of polls and events, no event removes an overdue service
\* of which no alert tells.
THEOREM NoSilentExpiry == Spec => RemovalReportsExpiry
<1> DEFINE Q(g) == (/\ services[g] # None /\ services'[g] = None
                    /\ Secs >= Expiry(services[g])
                    /\ ~\E s \in Snapshots : ProcessSyncResponse(s)) =>
                      services[g].reported \/ TtlAlert(g) \in alerts'
           P == \A g \in ServiceGuids : Q(g)
<1>1. TypeOK /\ [Next]_vars => [P]_vars
  <2> SUFFICES ASSUME TypeOK, Next, NEW g \in ServiceGuids,
                      services[g] # None, services'[g] = None,
                      Secs >= Expiry(services[g]),
                      ~\E s \in Snapshots : ProcessSyncResponse(s)
               PROVE  services[g].reported \/ TtlAlert(g) \in alerts'
    OBVIOUS
  <2>1. ASSUME NEW m \in Messages, RejectEvent(m) PROVE FALSE
    BY <2>1 DEF RejectEvent
  <2>2. ASSUME NEW m \in Messages, AcceptEvent(m)
        PROVE  services[g].reported \/ TtlAlert(g) \in alerts'
    <3>1. ~(Stored(m) /\ g = m.serviceGuid)
      BY <2>2, AcceptedServices, EngineAssumption
    <3>2. Removed(m) /\ g = m.serviceGuid
      BY <2>2, <3>1, AcceptedServices
    <3>3. ~services[g].reported => g \in ReportedOnRemoval(m)
      BY <3>2 DEF ReportedOnRemoval
    <3>4. \A x \in ReportedOnRemoval(m) : TtlAlert(x) \in alerts'
      BY <2>2 DEF AcceptEvent
    <3> QED BY <3>3, <3>4
  <2>3. CASE PollTimeouts
    <3>1. services[g] \in ServiceState
      BY DEF TypeOK
    <3>2. [services[g] EXCEPT !.reported = TRUE] # None
      BY <3>1, ReportedType, EngineAssumption
    <3>3. services'[g] # None
      BY <2>3, <3>2 DEF PollTimeouts
    <3> QED BY <3>3
  <2>4. CASE UNCHANGED services
    BY <2>4
  <2> QED BY <2>1, <2>2, <2>3, <2>4
       DEF Next, ProcessEvent, ProcessBrokerSyncResponse, Tick, engineVars
<1> QED BY <1>1, TypeCorrect, PTL DEF Spec, RemovalReportsExpiry
=============================================================================
