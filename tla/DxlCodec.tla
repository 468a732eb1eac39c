------------------------------ MODULE DxlCodec ------------------------------
(***************************************************************************)
(* encode_dxl_message and parse_dxl_message (src/src/dxl.rs).  Pure.       *)
(*                                                                         *)
(* A message is a record with the fields of DxlMessage; a field its type   *)
(* and version do not have is None.  A frame is a sequence of pairs:       *)
(* <<"int", n>>, <<"array", n>>, the header of a text <<kind, length>>,    *)
(* and its characters <<"byte", c>>.                                       *)
(***************************************************************************)
EXTENDS Texts

CONSTANTS FixLimit,  \* length a fixstr header cannot hold: 32
          Limit16,   \* length a 16-bit header cannot hold: 65536
          Half       \* 2^31: error codes are below it and not below -Half

ASSUME DxlCodecAssumption == /\ FixLimit \in Nat \ {0} /\ Limit16 \in Nat \ {0}
                             /\ Half \in Nat \ {0} /\ None \notin Int

Request == 0
Response == 1
Event == 2
Error == 3

TextKinds == {"fix", "str8", "str16", "str32", "bin8", "bin16", "bin32"}

-----------------------------------------------------------------------------
(* Messages *)

TextFields == {"message_id", "source_client_id", "source_broker_id", "payload", "reply_to_topic",
               "service_id", "request_message_id", "error_message", "source_tenant_guid",
               "source_client_instance_id"}

ListFields == {"broker_ids", "client_ids", "destination_tenant_guids"}

Fields == TextFields \cup ListFields
          \cup {"version", "message_type", "error_code", "other_fields"}

\* The texts a message of this version and type has.
Has(version, type, field) ==
    \/ field \in {"message_id", "source_client_id", "source_broker_id", "payload"}
    \/ type = Request /\ field \in {"reply_to_topic", "service_id"}
    \/ type = Response /\ field \in {"request_message_id", "service_id"}
    \/ type = Error /\ field \in {"request_message_id", "service_id", "error_message"}
    \/ version >= 2 /\ field = "source_tenant_guid"
    \/ version >= 3 /\ field = "source_client_instance_id"

\* A DxlMessage with all that its version and type have, and nothing else.
IsMessage(msg) ==
    LET version == msg.version
        type == msg.message_type
        others == msg.other_fields
    IN  /\ msg = [field \in Fields |-> msg[field]]
        /\ version \in 0 .. 255 /\ type \in 0 .. 255
        /\ \A field \in TextFields :
             IF Has(version, type, field) THEN msg[field] \in Text ELSE msg[field] = None
        /\ \A field \in ListFields : msg[field] \in Seq(Text)
        /\ version < 2 => msg.destination_tenant_guids = <<>>
        /\ others \in [DOMAIN others -> Text]
        /\ DOMAIN others \subseteq Text /\ IsFiniteSet(DOMAIN others)
        /\ version < 1 => DOMAIN others = {}
        /\ IF type = Error THEN msg.error_code \in -Half .. Half - 1 ELSE msg.error_code = None

\* What a DxlMessage may lack although its version and type have it: the Options.
Optional == {"reply_to_topic", "service_id", "request_message_id", "error_message",
             "source_tenant_guid", "source_client_instance_id"}

\* The message with the defaults of what it lacks.
Completed(msg) ==
    LET lacks(field) == /\ field \in Optional /\ Has(msg.version, msg.message_type, field)
                        /\ msg[field] = None
    IN  [field \in Fields |->
           CASE lacks(field) -> <<>>
             [] field = "error_code" /\ msg.message_type = Error /\ msg[field] = None -> 0
             [] OTHER -> msg[field]]

\* A message that this sensor or a peer may encode.
IsSendable(msg) == msg = [field \in Fields |-> msg[field]] /\ IsMessage(Completed(msg))

-----------------------------------------------------------------------------
(* Encoding *)

Body(text) == [i \in DOMAIN text |-> <<"byte", text[i]>>]

\* Mutant of WriteText: a text of 32 bytes still gets the short header.
WriteTextAtLimit(text) ==
    LET size == Len(text)
        head == IF size <= FixLimit THEN <<"fix", size % FixLimit>>
                ELSE IF size < Limit16 THEN <<"str16", size>> ELSE <<"str32", size>>
    IN  <<head>> \o Body(text)

\* write_string and write_bytes; the short headers keep 5 and 16 bits of the length.
WriteText(text) ==
    LET size == Len(text)
        head == IF size < FixLimit THEN <<"fix", size % FixLimit>>
                ELSE IF size < Limit16 THEN <<"str16", size % Limit16>> ELSE <<"str32", size>>
    IN  <<head>> \o Body(text)

WriteTexts(texts) ==
    <<<<"array", Len(texts)>>>> \o FlattenSeq([i \in DOMAIN texts |-> WriteText(texts[i])])

\* Keys and values in turn, in a fixed order of the keys.
Flat(fields) ==
    LET keys == SetToSeq(DOMAIN fields)
    IN  [i \in 1 .. 2 * Len(keys) |->
           IF i % 2 = 1 THEN keys[(i + 1) \div 2] ELSE fields[keys[i \div 2]]]

\* What is written one after the other.
Pieces(msg) ==
    LET number(n) == <<<<"int", n>>>>
        text(field) == WriteText(IF msg[field] = None THEN <<>> ELSE msg[field])
        since(version, parts) == IF msg.version >= version THEN parts ELSE <<>>
    IN  <<number(msg.version), number(msg.message_type),
          text("message_id"), text("source_client_id"), text("source_broker_id"),
          WriteTexts(msg.broker_ids), WriteTexts(msg.client_ids), text("payload")>>
        \o (CASE msg.message_type = Request -> <<text("reply_to_topic"), text("service_id")>>
              [] msg.message_type = Response -> <<text("request_message_id"), text("service_id")>>
              [] msg.message_type = Error ->
                   <<text("request_message_id"), text("service_id"),
                     number(IF msg.error_code = None THEN 0 ELSE msg.error_code),
                     text("error_message")>>
              [] OTHER -> <<>>)
        \o since(1, <<WriteTexts(Flat(msg.other_fields))>>)
        \o since(2, <<text("source_tenant_guid"), WriteTexts(msg.destination_tenant_guids)>>)
        \o since(3, <<text("source_client_instance_id")>>)

Encode(msg) == FlattenSeq(Pieces(msg))

-----------------------------------------------------------------------------
(* Parsing.  What is taken from a frame at a place of the cursor: a value   *)
(* and the next place, or nothing.                                          *)

Failed == [ok |-> FALSE]

Took(value, next) == [ok |-> TRUE, value |-> value, next |-> next]

TakeIntOf(frame, at, values) ==
    IF at <= Len(frame) /\ frame[at][1] = "int" /\ frame[at][2] \in values
    THEN Took(frame[at][2], at + 1) ELSE Failed

\* Mutant of TakeBytes: what there is of a text will do.
TakeBytesThatAreThere(frame, at) ==
    IF at <= Len(frame) /\ frame[at][1] \in TextKinds
    THEN LET size == Min({frame[at][2], Len(frame) - at})
         IN  Took([i \in 1 .. size |-> frame[at + i][2]], at + size + 1)
    ELSE Failed

\* read_str_or_bin: any kind of header, but the whole length.
TakeBytes(frame, at) ==
    IF at <= Len(frame) /\ frame[at][1] \in TextKinds /\ frame[at][2] <= Len(frame) - at
    THEN LET size == frame[at][2]
         IN  Took([i \in 1 .. size |-> frame[at + i][2]], at + size + 1)
    ELSE Failed

TakeText(frame, at) ==
    LET taken == TakeBytes(frame, at)
    IN  IF taken.ok /\ IsUtf8(taken.value) THEN taken ELSE Failed

\* One text more than those taken.
AnotherText(frame, taken) ==
    LET text == TakeText(frame, taken.next)
    IN  IF taken.ok /\ text.ok THEN Took(Append(taken.value, text.value), text.next) ELSE Failed

\* As many texts as the array announces.
TakeTexts(frame, at) ==
    IF at <= Len(frame) /\ frame[at][1] = "array"
    THEN LET count == frame[at][2]
             taken[i \in 0 .. count] ==
                IF i = 0 THEN Took(<<>>, at + 1) ELSE AnotherText(frame, taken[i - 1])
         IN  taken[count]
    ELSE Failed

\* Keys and values in turn: the later value of a key wins, a last key without one is ignored.
FieldsOf(texts) ==
    LET pairs == 1 .. Len(texts) \div 2
        last(key) == Max({i \in pairs : texts[2 * i - 1] = key})
    IN  [key \in {texts[2 * i - 1] : i \in pairs} |-> texts[2 * last(key)]]

TakeFields(frame, at) ==
    LET taken == TakeTexts(frame, at)
    IN  IF taken.ok THEN Took(FieldsOf(taken.value), taken.next) ELSE Failed

\* as u32 as i32, of a number that either of them can hold.
FoldCode(raw) == IF raw >= Half THEN raw - 2 * Half ELSE raw

\* Peers pack error codes as signed or as unsigned numbers.
TakeCode(frame, at) ==
    LET taken == TakeIntOf(frame, at, -Half .. 2 * Half - 1)
    IN  IF taken.ok THEN Took(FoldCode(taken.value), taken.next) ELSE Failed

Take(kind, frame, at) == CASE kind = "text" -> TakeText(frame, at)
                           [] kind = "bytes" -> TakeBytes(frame, at)
                           [] kind = "texts" -> TakeTexts(frame, at)
                           [] kind = "fields" -> TakeFields(frame, at)
                           [] kind = "code" -> TakeCode(frame, at)

\* What parse_dxl_message reads after version and type.
Layout(version, type) ==
    LET text(field) == <<"text", field>>
        since(v, part) == IF version >= v THEN part ELSE <<>>
    IN  <<text("message_id"), text("source_client_id"), text("source_broker_id"),
          <<"texts", "broker_ids">>, <<"texts", "client_ids">>, <<"bytes", "payload">>>>
        \o (CASE type = Request -> <<text("reply_to_topic"), text("service_id")>>
              [] type = Response -> <<text("request_message_id"), text("service_id")>>
              [] type = Error -> <<text("request_message_id"), text("service_id"),
                                   <<"code", "error_code">>, text("error_message")>>
              [] OTHER -> <<>>)
        \o since(1, <<<<"fields", "other_fields">>>>)
        \o since(2, <<text("source_tenant_guid"), <<"texts", "destination_tenant_guids">>>>)
        \o since(3, <<text("source_client_instance_id")>>)

\* A message of which only version and type are read.
Blank(version, type) ==
    [field \in Fields |-> CASE field = "version" -> version
                            [] field = "message_type" -> type
                            [] field = "other_fields" -> [key \in {} |-> <<>>]
                            [] field \in ListFields -> <<>>
                            [] OTHER -> None]

\* One field more of the message that is parsed.
AnotherField(frame, parsed, item) ==
    LET taken == Take(item[1], frame, parsed.next)
    IN  IF parsed.ok /\ taken.ok
        THEN Took([parsed.value EXCEPT ![item[2]] = taken.value], taken.next) ELSE Failed

\* The fields of a layout, read from a place on.
ParseFields(frame, at, layout, blank) ==
    LET parsed[k \in 0 .. Len(layout)] ==
          IF k = 0 THEN Took(blank, at) ELSE AnotherField(frame, parsed[k - 1], layout[k])
    IN  parsed[Len(layout)]

\* The message in a frame, None if it is refused.  What follows it is not looked at.
Parse(frame) ==
    LET version == TakeIntOf(frame, 1, 0 .. 255)
        type == TakeIntOf(frame, 2, 0 .. 255)
        parsed == ParseFields(frame, 3, Layout(version.value, type.value),
                              Blank(version.value, type.value))
    IN  IF ~version.ok \/ ~type.ok THEN None
        ELSE IF type.value \notin {Request, Response, Event, Error} THEN None
        ELSE IF parsed.ok THEN parsed.value
        ELSE None
=============================================================================
