---------------------------- MODULE MessagePath ----------------------------
(***************************************************************************)
(* The way of one message through the sensor: encoded by a peer or by the  *)
(* sensor itself, spelled and perhaps cut on the wire, parsed, turned into *)
(* records, written as lines (the Publish arm of main in src/src/main.rs). *)
(* Of the engine's alerts only those about sensitive topics appear.  They, *)
(* and the guard against spoofed broker events, depend on nothing but the  *)
(* message and the brokers the sensor knows.                               *)
(***************************************************************************)
EXTENDS TopicFilter, DxlCodec, Records

CONSTANTS Situations,  \* messages, with their topic and what the sensor knows then
          Json,        \* payload text -> its string fields, if it is JSON
          ReplyTopic,  \* the sensor's own
          Limit8,      \* length an 8-bit header cannot hold: 256
          HexDigits,   \* the characters of a thumbprint
          ThumbprintLength  \* how many it has: 40

IsTexts(texts) == texts \in [DOMAIN texts -> Text]

IsSituation(s) ==
    /\ IsSendable(s.message)
    /\ s.topic \in Text /\ ValidTopic(s.topic)
    /\ s.changes \in Nat
    /\ s.sensitive \in Seq(Text)
    /\ IsTexts(s.names)
    /\ s.brokers \subseteq Text

ASSUME MessagePathAssumption == /\ \A s \in Situations : IsSituation(s)
                                /\ \A payload \in DOMAIN Json : IsTexts(Json[payload])
                                /\ Limit8 \in Nat /\ ThumbprintLength \in Nat

VARIABLES stage,    \* "new", "sent", "parsed", "handled", "written" or "dropped"
          sent,     \* the message, as its sender means it
          topic,    \* its topic
          sensor,   \* the sensitive topics, service names and brokers the sensor has
          frame,    \* what is on the wire
          cut,      \* is the end of the frame missing?
          changes,  \* bound: how often the frame may still be changed on its way
          msg,      \* the message parsed, or None
          records,  \* the records made of it
          lines     \* what is written of each record: the CEF and the plain text

vars == <<stage, sent, topic, sensor, frame, cut, changes, msg, records, lines>>

Init ==
    /\ \E s \in Situations : /\ sent = s.message
                             /\ topic = s.topic
                             /\ changes = s.changes
                             /\ sensor = [sensitive |-> s.sensitive, names |-> s.names,
                                         brokers |-> s.brokers]
    /\ stage = "new"
    /\ frame = <<>>
    /\ cut = FALSE
    /\ msg = None
    /\ records = <<>> /\ lines = <<>>

EncodeMessage ==
    /\ stage = "new"
    /\ frame' = Encode(sent)
    /\ stage' = "sent"
    /\ UNCHANGED <<sent, topic, sensor, cut, changes, msg, records, lines>>

\* The longest text a header of this kind can hold.
Longest(kind) == CASE kind = "fix" -> FixLimit - 1
                 [] kind \in {"str8", "bin8"} -> Limit8 - 1
                 [] kind \in {"str16", "bin16"} -> Limit16 - 1
                 [] OTHER -> Len(frame)

\* A peer packs a text with another header.
PackText(i, kind) ==
    /\ frame[i][1] \in TextKinds /\ frame[i][2] <= Longest(kind)
    /\ frame' = [frame EXCEPT ![i] = <<kind, @[2]>>]

\* A peer packs a negative error code as unsigned.
PackCode(i) ==
    /\ frame[i][1] = "int" /\ frame[i][2] < 0
    /\ frame' = [frame EXCEPT ![i] = <<"int", @[2] + 2 * Half>>]

\* A peer of a later protocol adds something.
AddTail == frame' = Append(frame, <<"fix", 0>>)

\* Peers other than this sensor spell the same message in other ways (external).
PeerSpells ==
    /\ stage = "sent" /\ ~cut
    /\ changes > 0 /\ changes' = changes - 1
    /\ \/ \E i \in DOMAIN frame : PackCode(i) \/ \E kind \in TextKinds : PackText(i, kind)
       \/ AddTail
    /\ UNCHANGED <<stage, sent, topic, sensor, cut, msg, records, lines>>

\* The end of a frame is lost (external).
CutShort ==
    /\ stage = "sent" /\ ~cut /\ frame = Encode(sent)
    /\ changes > 0 /\ changes' = changes - 1
    /\ \E n \in 0 .. Len(frame) - 1 : frame' = SubSeq(frame, 1, n)
    /\ cut' = TRUE
    /\ UNCHANGED <<stage, sent, topic, sensor, msg, records, lines>>

ParseMessage ==
    /\ stage = "sent"
    /\ msg' = Parse(frame)
    /\ stage' = IF msg' = None THEN "dropped" ELSE "parsed"
    /\ UNCHANGED <<sent, topic, sensor, frame, cut, changes, records, lines>>

-----------------------------------------------------------------------------
(* Messages on the brokers' topics *)

Certificates == <<"dxl.certs">>

BrokerTopics == <<"", "mcafee", "event", "dxl">>

KnownBrokerEvents ==
    {<<"clientregistry", "connect">>, <<"clientregistry", "disconnect">>,
     <<"svcregistry", "register">>, <<"svcregistry", "unregister">>, <<"fabricchange">>,
     <<"brokerregistry", "brokerstate">>, <<"revocation", "list">>,
     <<"brokerregistry", "brokerstatetopics">>, <<"brokerregistry", "topicadded">>,
     <<"brokerregistry", "topicremoved">>, <<"eventsubscribernotfound">>, <<"dumpbrokerstate">>,
     <<"dumpservicestate">>, <<"tenant", "limit", "exceeded">>, <<"tenant", "limit", "reset">>}

IsHexThumbprint(text) ==
    LET head == Split(Trim(text), ":")[1]
    IN  Len(head) = ThumbprintLength /\ ToSet(head) \subseteq HexDigits

\* The guid in the payload is no broker's, or another's than the sender's.
ClaimsOtherGuid(payload) ==
    /\ payload # None /\ "guid" \in DOMAIN payload
    /\ IsHexThumbprint(payload["guid"]) \/ payload["guid"] # msg.source_client_id

\* is_spoofed_broker_envelope
EnvelopeSpoofed(payload) ==
    LET event == SubSeq(topic, Len(BrokerTopics) + 1, Len(topic))
        source == msg.source_client_id
        certs == Certificates \in DOMAIN msg.other_fields
                 /\ Trim(msg.other_fields[Certificates]) # <<>>
    IN  /\ Len(topic) > Len(BrokerTopics) /\ SubSeq(topic, 1, Len(BrokerTopics)) = BrokerTopics
        /\ \/ event \notin KnownBrokerEvents
           \/ Trim(source) = <<>>
           \/ certs
           \/ IsHexThumbprint(source)
           \/ event = <<"brokerregistry", "brokerstate">> /\ ClaimsOtherGuid(payload)
           \/ sensor.brokers # {} /\ source \notin sensor.brokers

-----------------------------------------------------------------------------
(* The records of a message *)

\* The last certificate of the chain the broker attests, else the sender's own word.
Publisher ==
    LET chain == IF Certificates \in DOMAIN msg.other_fields
                 THEN Split(msg.other_fields[Certificates], ";") ELSE <<>>
        named == {i \in DOMAIN chain : Trim(chain[i]) # <<>>}
    IN  IF named = {} THEN msg.source_client_id ELSE Trim(chain[Max(named)])

\* The topic as a text: its levels joined by a slash.
TopicText == Tail(FlattenSeq([i \in DOMAIN topic |-> <<"/", topic[i]>>]))

SensitiveAlert ==
    DetectionFinding(<<"Client", " ">> \o Publisher \o <<" ", "published to sensitive topic", " ">>
                     \o TopicText, Publisher)

\* One alert for every filter the topic falls under.
SensitiveAlerts ==
    LET matching == {i \in DOMAIN sensor.sensitive : TopicMatches(sensor.sensitive[i], topic)}
    IN  [k \in 1 .. Cardinality(matching) |-> SensitiveAlert]

\* report_spoofed_broker_event; the reason is a fixed text.
SpoofAlert ==
    DetectionFinding(<<"Non-broker", " ">> \o Publisher \o <<" ", "on", " ">> \o TopicText
                     \o <<" ", "reason">>, IF Publisher = <<>> THEN None ELSE Publisher)

Payload == IF msg.payload \in DOMAIN Json THEN Json[msg.payload] ELSE None

Record == IF EnvelopeSpoofed(Payload) THEN None ELSE Normalised(topic, Payload, sensor.names)

Alerts == IF topic = ReplyTopic THEN <<>>
          ELSE IF EnvelopeSpoofed(Payload) THEN <<SpoofAlert>> ELSE SensitiveAlerts

HandleMessage ==
    /\ stage = "parsed"
    /\ records' = (IF Record # None THEN <<Record>> ELSE <<>>) \o Alerts
    /\ stage' = "handled"
    /\ UNCHANGED <<sent, topic, sensor, frame, cut, changes, msg, lines>>

WriteLines ==
    /\ stage = "handled"
    /\ lines' = [i \in DOMAIN records |->
                   [cef |-> FormatCef(records[i]), plain |-> Plain(records[i])]]
    /\ stage' = "written"
    /\ UNCHANGED <<sent, topic, sensor, frame, cut, changes, msg, records>>

Next == EncodeMessage \/ PeerSpells \/ CutShort \/ ParseMessage \/ HandleMessage \/ WriteLines

Spec == Init /\ [][Next]_vars

-----------------------------------------------------------------------------
(* Properties *)

\* The texts of a message that are to be UTF-8: all but the payload.
TextsOf(message) ==
    ({message[field] : field \in TextFields \ {"payload"}} \ {None})
    \cup (UNION {ToSet(message[field]) : field \in ListFields})
    \cup DOMAIN message.other_fields \cup Range(message.other_fields)

\* The message is of a known type, and its texts are UTF-8.
Readable ==
    /\ sent.message_type \in {Request, Response, Event, Error}
    /\ \A text \in TextsOf(Completed(sent)) : IsUtf8(text)

\* However a peer packs texts and error codes, whatever the lengths and whichever
\* optional texts the message lacks (the sensor's own queries lack two, main.rs:345-363),
\* the sensor reads the message that was meant, with an empty text for one it lacks; it
\* refuses one whose texts are no UTF-8.
FrameCarriesMessage ==
    (stage \notin {"new", "sent"} /\ ~cut) => msg = IF Readable THEN Completed(sent) ELSE None

\* A frame that lost its end is refused wherever the loss begins, never read in part.
CutFrameIsRefused == (stage \notin {"new", "sent"} /\ cut) => stage = "dropped"

\* README, detection 3: a message raises one alert for each sensitive topic by which a
\* broker would deliver it, and no other; one that is refused as a spoofed broker event
\* (detection 8) raises that alert alone.  (A "#" inside a filter and a wildcard in front
\* of a reserved topic, where the code departs from a broker: see the README.)
SensitiveIsDelivered ==
    (stage \in {"handled", "written"} /\ topic # ReplyTopic
       /\ \A i \in DOMAIN sensor.sensitive :
             /\ ValidFilter(sensor.sensitive[i])
             /\ ~WildcardOnReserved(sensor.sensitive[i], topic)) =>
         Cardinality({i \in DOMAIN records : records[i].class = "DetectionFinding"})
           = IF EnvelopeSpoofed(Payload) THEN 1
             ELSE Cardinality({i \in DOMAIN sensor.sensitive : Delivers(sensor.sensitive[i], topic)})

\* A collector reads from the CEF line the fields of the record and their values, none
\* cut, joined or added, whatever the texts of the message contain; only control
\* characters and the blanks at the end of the last value are lost.
CollectorReadsRecord ==
    \A i \in DOMAIN lines :
        LET fields == CefFields(records[i])
            kept(k) == IF k = Len(fields) THEN WithoutLast(Printable(fields[k][2]), {" "})
                       ELSE Printable(fields[k][2])
        IN  ReadCef(lines[i].cef) = [k \in DOMAIN fields |-> <<fields[k][1], kept(k)>>]

\* README, operation: one record per line.
OneLineEach ==
    \A i \in DOMAIN lines : \A text \in {lines[i].cef, lines[i].plain} : ToSet(text) \cap Control = {}
=============================================================================
