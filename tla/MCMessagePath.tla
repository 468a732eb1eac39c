--------------------------- MODULE MCMessagePath ---------------------------
(* Messages for the message path: one family for each thing that varies. *)
EXTENDS MessagePath

MCLetters == STRING

NoFields == [key \in {} |-> <<>>]

\* The message whose texts are those of given, or empty.
Message(version, type, given) ==
    [field \in TextFields |-> IF ~Has(version, type, field) THEN None
                              ELSE IF field \in DOMAIN given THEN given[field] ELSE <<>>]
    @@ [broker_ids |-> <<>>, client_ids |-> <<>>, destination_tenant_guids |-> <<>>,
        other_fields |-> IF "other_fields" \in DOMAIN given THEN given.other_fields ELSE NoFields,
        version |-> version, message_type |-> type,
        error_code |-> IF type # Error THEN None
                       ELSE IF "error_code" \in DOMAIN given THEN given.error_code ELSE 0]

Of(message, on, sensitive, names, edits) ==
    [message |-> message, topic |-> on, sensitive |-> sensitive, names |-> names, brokers |-> {},
     changes |-> edits]

MCReplyTopic == <<"", "mcafee", "client", "sensor">>

Replied(message, edits) == Of(message, MCReplyTopic, << <<"#">> >>, NoFields, edits)

Chars(n) == [i \in 1 .. n |-> "x"]

\* Every type, an unknown one, and every version, with two changes on the way.
ByType == {Replied(Message(version, type, [message_id |-> <<"m">>]), 2) :
             version \in 0 .. 3, type \in 0 .. 4}

\* Texts around the limits of the headers, in each kind of place.
ByLength == {Replied([Message(3, Error, (field :> Chars(n))) EXCEPT !.broker_ids = <<Chars(n), Chars(1)>>], 1) :
               field \in {"message_id", "payload", "source_client_instance_id"}, n \in 0 .. Limit16 + 1}

ByCode == {Replied(Message(0, Error, [error_code |-> code]), 2) : code \in -Half .. Half - 1}

ByFields == {Replied([Message(2, Event, [other_fields |-> fields])
                        EXCEPT !.destination_tenant_guids = <<<<"t">>, <<>>>>], 1) :
               fields \in UNION {[keys -> {<<>>, <<"v">>}] : keys \in SUBSET {<<"k">>, <<"l">>}}}

\* Messages that lack optional texts or the code; the first is a query of the sensor.
ByLack ==
    {Replied([Message(3, Request, [payload |-> <<"{}">>])
                EXCEPT !.source_tenant_guid = None, !.source_client_instance_id = None], 1)}
    \cup {Replied([field \in Fields |-> IF field \in lacked THEN None
                                       ELSE Message(version, type, [service_id |-> <<"s">>])[field]], 0) :
            version \in 0 .. 3, type \in {Request, Response, Error},
            lacked \in SUBSET (Optional \cup {"error_code"})}

\* A text that is no UTF-8, in one field.
ByEncoding == {Replied(Message(3, type, (field :> <<"x", Invalid>>)), 0) :
                 field \in {"message_id", "payload", "source_tenant_guid", "reply_to_topic"},
                 type \in {Request, Response}}

-----------------------------------------------------------------------------
Levels == {"a", "b", "+"}

MCReserved == {"$SYS"}

Filters == {f \o tail : f \in BoundedSeq(Levels, 3), tail \in {<<>>, <<"#">>, <<"#", "a">>}}
           \cup {<<"$SYS">>, <<"$SYS", "+">>, <<"$SYS", "#">>}

Topics == {t \in BoundedSeq({"a", "b"}, 3) : t # <<>>}
          \cup {<<"$SYS">> \o t : t \in BoundedSeq({"a", "b"}, 2)}

Hello == Message(0, Event, [source_client_id |-> <<"c">>])

\* Every filter on every topic; all filters of a kind at once.
ByFilter ==
    {Of(Hello, t, <<f>>, NoFields, 0) : t \in Topics, f \in Filters \ {<<>>}}
    \cup {Of(Hello, t, << <<"a", "#">>, <<"a", "+">>, <<"#">>, <<"a", "+">> >>, NoFields, 0) : t \in Topics}

-----------------------------------------------------------------------------
\* Characters that mean something to CEF, to the code or to a terminal.
Alphabet == {"a", Backslash, "=", " ", "LF", "TAB", "n"}

Values == BoundedSeq(Alphabet, 3)

EventOf(payload) == Message(1, Event, [source_client_id |-> <<"broker">>, payload |-> payload])

OnBroker(activity, payload, names) ==
    Of(EventOf(payload), CHOOSE t \in DOMAIN ActivityOf : ActivityOf[t] = activity, <<>>, names, 0)

MCHexDigits == {"a", "b"}

\* Names on the brokers' topics: a broker's, none, thumbprints, another's.
Claims == {<<"broker">>, <<>>, <<" ">>, <<"a", "b">>, <<"b", "b", ":", "x">>, <<"a", "b", "a">>}

\* JSON payloads, by payload text: the name of a kind and the text that varies in it.
MCJson ==
    [p \in {<<kind>> \o t : kind \in {"client", "address", "tls", "service"}, t \in Values} |->
       LET t == Tail(p)
       IN  CASE p[1] = "client" -> [clientGuid |-> t \o <<":">> \o t, certThumbprint |-> <<"f">>]
             [] p[1] = "address" -> [clientGuid |-> <<"g">>, remoteAddress |-> <<MappedPrefix>> \o t,
                                     protocol |-> t]
             [] p[1] = "tls" -> [remoteAddress |-> t, tlsVersion |-> t, cipher |-> t]
             [] p[1] = "service" -> [serviceGuid |-> <<"s">>, serviceType |-> t, clientGuid |-> t]]
    @@ (<<"{}">> :> [name \in {} |-> <<>>])
    @@ [p \in {<<"state">> \o t : t \in Claims} |-> [guid |-> Tail(p)]]

ByPayload ==
    {OnBroker(IF p[1] = "service" THEN "Register" ELSE "Connect", p, NoFields) : p \in DOMAIN MCJson}
    \cup {OnBroker(activity, p, names) :
            activity \in {"Disconnect", "Unregister"},
            p \in {<<>>, <<"{}">>, <<"service", " ">>, <<"not JSON">>},
            names \in {NoFields, (<<"s">> :> <<"t", "=", "LF">>)}}

\* Messages on the brokers' topics, genuine and not, when the broker is known and before.
ByGuard ==
    {[Of(Message(1, Event, [source_client_id |-> source, payload |-> payload,
                            other_fields |-> fields]),
         BrokerTopics \o event, << <<"#">> >>, NoFields, 0) EXCEPT !.brokers = known] :
       source \in Claims, fields \in {NoFields} \cup {Certificates :> t : t \in Claims},
       event \in {<<"brokerregistry", "brokerstate">>, <<"svcregistry", "register">>, <<"x">>},
       payload \in {<<"state">> \o t : t \in Claims} \cup {<<"service", "a">>, <<>>},
       known \in {{}, {<<"broker">>}}}

\* Publishers of a sensitive message: their own word, or certificates.
ByPublisher ==
    LET sensitive(given) == Of(Message(1, Event, given), <<"a", "=">>, << <<"a", "+">> >>, NoFields, 0)
    IN  {sensitive([source_client_id |-> t]) : t \in Values}
        \cup {sensitive([source_client_id |-> <<"c">>, other_fields |-> (Certificates :> t)]) :
                t \in BoundedSeq({"a", ";", " "}, 4)}

MCSituations == ByType \cup ByLength \cup ByCode \cup ByFields \cup ByLack \cup ByEncoding \cup ByFilter
                \cup ByPayload \cup ByGuard \cup ByPublisher
=============================================================================
