-------------------------- MODULE MCDetectionEngine --------------------------
(* Small inputs for the detection engine. *)
EXTENDS DetectionEngine

MCHexDigits == {"a", "b"}
MCChars == MCHexDigits \cup {"o", "p", "x", "y"}

Plain(head) == [EmptyText EXCEPT !.head = head]

\* Two clients, one of them also in braces and upper case; a thumbprint, also
\* spelled with a colon; two brokers.
O1 == Plain(<<"o">>)
O1Braced == [O1 EXCEPT !.braced = TRUE, !.upper = TRUE]
O2 == Plain(<<"p">>)
Thumb == Plain(<<"a", "b">>)
ThumbColon == [EmptyText EXCEPT !.head = <<"a">>, !.tail = <<"b">>]
B1 == Plain(<<"x">>)
B2 == Plain(<<"y">>)

NoRegistration ==
    [serviceType |-> None, ttlMins |-> None, registrationTime |-> None,
     clientGuid |-> None, certificates |-> {}]

CONSTANTS s1, s2

Event(topic, source) ==
    [topic |-> topic, source |-> source, cert |-> None, serviceGuid |-> None,
     registration |-> NoRegistration, certThumbprint |-> None, agentGuid |-> None,
     cipher |-> None, guid |-> None, state |-> s1, revoked |-> {}]

-----------------------------------------------------------------------------
(* Services *)

Registration(owner, ttl, time) ==
    [serviceType |-> "type", ttlMins |-> ttl, registrationTime |-> time,
     clientGuid |-> owner, certificates |-> {}]

Register(guid, owner, ttl, time) ==
    [Event("register", B1) EXCEPT !.serviceGuid = guid,
                                  !.registration = Registration(owner, ttl, time)]

\* 5 = TtlModulus + 1: a TTL that does not fit.
ServiceMessages ==
    {Register(g, o, 1, t) : g \in ServiceGuids, o \in {O1, O2}, t \in {0, 2}}
    \cup {Register(g, o, 5, 1) : g \in ServiceGuids, o \in {O1Braced, EmptyText, None}}
    \cup {Register(g, O2, None, 0) : g \in ServiceGuids}
    \cup {[Event("unregister", B1) EXCEPT !.serviceGuid = g] : g \in ServiceGuids \cup {None}}

ServiceSnapshots ==
    {None}
    \cup {[g \in {x} |-> Registration(O2, 0, 1)] : x \in ServiceGuids}
    \cup {[g \in ServiceGuids |-> IF g = x THEN Registration(O1, 1, 2) ELSE NoRegistration] : x \in ServiceGuids}

-----------------------------------------------------------------------------
(* Brokers and clients *)

BrokerState(source, guid, state) ==
    [Event("brokerstate", source) EXCEPT !.guid = guid, !.state = state]

BrokerMessages ==
    {BrokerState(b, b, s) : b \in {B1, B2, Thumb}, s \in {s1, s2}}
    \cup {BrokerState(B1, B2, s1), BrokerState(B1, Thumb, s1), BrokerState(B1, None, s1)}
    \cup {Event(t, b) : t \in {"fabricchange", "unrecognized"}, b \in {B1, B2, EmptyText}}
    \cup {[Event("connect", B1) EXCEPT !.certThumbprint = ThumbColon, !.cipher = "legacy"],
          [Event("revocation", B2) EXCEPT !.revoked = {Thumb}],
          [Event("clientTopic", O1) EXCEPT !.cert = Thumb, !.agentGuid = O2],
          [Event("sensitiveTopic", O1) EXCEPT !.certThumbprint = ThumbColon]}

MCBrokerLists ==
    {None} \cup UNION {[D -> {s2}] : D \in SUBSET {B1, B2, Thumb}}

MCMessages == ServiceMessages \cup BrokerMessages

MCAllowed == {NormalizeThumbprint(Plain(<<"o">>))}
MCSensitive == {{"sensitiveTopic"}, {"clientTopic", "sensitiveTopic"}}
=============================================================================
