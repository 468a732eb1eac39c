------------------------------ MODULE Records ------------------------------
(***************************************************************************)
(* From a decoded message to the lines that tell of it: the fields of      *)
(* handle_dxl_message (src/src/main.rs), the records of ocsf.rs, the CEF   *)
(* line of cef.rs, the plain line of main.rs.  Pure.                       *)
(*                                                                         *)
(* A JSON payload is the function from the names of its string fields to   *)
(* their texts.  The CEF header, the severity and the metadata are         *)
(* constants of a record's class and left out, and so is the JSON line,    *)
(* which serde_json escapes.                                               *)
(***************************************************************************)
EXTENDS Texts

Backslash == "\\"

Control == {"LF", "CR", "TAB", "ESC"}

-----------------------------------------------------------------------------
(* Records *)

Or(value, default) == IF value = None THEN default ELSE value

FieldOf(payload, name) == IF name \in DOMAIN payload THEN payload[name] ELSE None

Unknown == <<"unknown">>

\* An IPv4 address as an IPv6 socket shows it.
MappedPrefix == "::ffff:"

CleanAddress(ip) ==
    IF ip # None /\ ip # <<>> /\ Head(ip) = MappedPrefix THEN Tail(ip) ELSE ip

Tls(payload) ==
    LET version == FieldOf(payload, "tlsVersion")
        cipher == FieldOf(payload, "cipher")
        thumbprint == FieldOf(payload, "certThumbprint")
    IN  IF {version, cipher, thumbprint} = {None} THEN None
        ELSE [version |-> Or(version, <<>>), cipher |-> cipher, fingerprint |-> thumbprint]

NetworkActivity(activity, payload) ==
    LET guid == Split(Or(FieldOf(payload, "clientGuid"), Unknown), ":")
    IN  [class |-> "NetworkActivity",
         type |-> IF activity = "Connect" THEN <<"400101">> ELSE <<"400102">>,
         client_guid |-> guid[1],
         client_instance_guid |-> IF Len(guid) > 1 THEN guid[2] ELSE None,
         ip |-> CleanAddress(FieldOf(payload, "remoteAddress")),
         tls |-> Tls(payload),
         protocol |-> FieldOf(payload, "protocol")]

\* names: the service types the engine holds, by service guid.
ApiActivity(activity, payload, names) ==
    LET guid == Or(FieldOf(payload, "serviceGuid"), Unknown)
    IN  [class |-> "ApiActivity",
         type |-> IF activity = "Register" THEN <<"600301">> ELSE <<"600304">>,
         uid |-> guid,
         name |-> IF activity = "Register" THEN Or(FieldOf(payload, "serviceType"), Unknown)
                  ELSE IF guid \in DOMAIN names THEN names[guid] ELSE Unknown,
         actor |-> FieldOf(payload, "clientGuid")]

\* build_detection
DetectionFinding(desc, suser) ==
    [class |-> "DetectionFinding", type |-> <<"200401">>, desc |-> desc, suser |-> suser]

\* The broker topics handle_dxl_message makes a record of.
ActivityOf == (<<"", "mcafee", "event", "dxl", "clientregistry", "connect">> :> "Connect") @@
              (<<"", "mcafee", "event", "dxl", "clientregistry", "disconnect">> :> "Disconnect") @@
              (<<"", "mcafee", "event", "dxl", "svcregistry", "register">> :> "Register") @@
              (<<"", "mcafee", "event", "dxl", "svcregistry", "unregister">> :> "Unregister")

\* None for a payload that is no JSON and for all other topics.
Normalised(topic, payload, names) ==
    IF payload = None \/ topic \notin DOMAIN ActivityOf THEN None
    ELSE IF ActivityOf[topic] \in {"Connect", "Disconnect"}
         THEN NetworkActivity(ActivityOf[topic], payload)
    ELSE ApiActivity(ActivityOf[topic], payload, names)

Principal(record) == CASE record.class = "NetworkActivity" -> record.client_guid
                       [] record.class = "ApiActivity" -> record.actor
                       [] record.class = "DetectionFinding" -> record.suser

-----------------------------------------------------------------------------
(* The CEF line *)

\* Mutant of Escape: the backslash is escaped last.
EscapeBackslashLast(value) ==
    Without(Replace(Replace(value, "=", <<Backslash, "=">>), Backslash, <<Backslash, Backslash>>),
            Control)

\* Mutant of Escape: line ends are escaped, other control characters stay.
EscapeLineEnds(value) ==
    LET escaped == Replace(Replace(value, Backslash, <<Backslash, Backslash>>), "=", <<Backslash, "=">>)
    IN  Replace(Replace(escaped, "LF", <<Backslash, "n">>), "CR", <<Backslash, "r">>)

\* escape_cef_extension: one replacement after the other, then control characters go.
Escape(value) ==
    LET escaped == Replace(Replace(value, Backslash, <<Backslash, Backslash>>), "=", <<Backslash, "=">>)
        lines == Replace(Replace(escaped, "LF", <<Backslash, "n">>), "CR", <<Backslash, "r">>)
    IN  Without(lines, Control)

\* A custom field and the one that labels it; nothing if there is no value.
Labelled(key, label, value) ==
    IF value = None THEN <<>> ELSE <<<<<<key>>, value>>, <<<<key, "Label">>, <<label>>>>>>

Plainly(key, value) == IF value = None THEN <<>> ELSE <<<<<<key>>, value>>>>

\* The extension of a record: keys and values, in the order of the keys.
CefFields(r) ==
    LET number == Labelled("deviceCustomNumber1", "type_uid", r.type)
    IN  CASE r.class = "NetworkActivity" ->
               LET tls(field) == IF r.tls = None THEN None ELSE r.tls[field]
               IN  Plainly("app", r.protocol) \o number
                   \o Labelled("deviceCustomString1", "client_guid", r.client_guid)
                   \o Labelled("deviceCustomString2", "tls_version",
                               IF tls("version") = <<>> THEN None ELSE tls("version"))
                   \o Labelled("deviceCustomString3", "cipher", tls("cipher"))
                   \o Labelled("deviceCustomString4", "cert_thumbprint", tls("fingerprint"))
                   \o Plainly("src", r.ip)
          [] r.class = "ApiActivity" ->
               number \o Labelled("deviceCustomString1", "service_uid", r.uid)
                      \o Labelled("deviceCustomString2", "service_name", r.name)
                      \o Labelled("deviceCustomString3", "client_guid", r.actor)
          [] r.class = "DetectionFinding" ->
               number \o Plainly("msg", r.desc) \o Plainly("suser", r.suser)

Written(field) == field[1] \o <<"=">> \o Escape(field[2]) \o <<" ">>

FormatCef(record) ==
    LET fields == CefFields(record)
    IN  TrimEnd(FlattenSeq([i \in DOMAIN fields |-> Written(fields[i])]))

-----------------------------------------------------------------------------
(* The plain line: sanitize_plain_field, plain *)

\* Whom the line names; the rest of it is fixed for a record's class and time.
Plain(record) ==
    LET who == Or(Principal(record), <<"-">>)
    IN  [i \in DOMAIN who |-> IF who[i] \in Control THEN " " ELSE who[i]]

-----------------------------------------------------------------------------
(* How a collector reads a CEF extension (ArcSight CEF, character encoding) *)

\* What a collector knows after a part of a line: whether an escape is open, the keys
\* seen, what stood before each of them, and what it has seen since the last sign.
Start == [escaped |-> FALSE, keys |-> <<>>, values |-> <<>>, seen |-> <<>>]

\* The character an escape stands for.
Meant(char) == IF char = "n" THEN "LF" ELSE IF char = "r" THEN "CR" ELSE char

See(reader, char) == [reader EXCEPT !.escaped = FALSE, !.seen = Append(@, char)]

\* At a sign that is not escaped: what follows the last blank is a key, what precedes
\* it the value of the key before.
MeetSign(reader) ==
    LET seen == reader.seen
        blank == Max({i \in DOMAIN seen : seen[i] = " "} \cup {0})
    IN  [escaped |-> FALSE,
         keys |-> Append(reader.keys, SubSeq(seen, blank + 1, Len(seen))),
         values |-> Append(reader.values, SubSeq(seen, 1, blank - 1)),
         seen |-> <<>>]

ReadChar(reader, char) ==
    IF reader.escaped THEN See(reader, Meant(char))
    ELSE IF char = Backslash THEN [reader EXCEPT !.escaped = TRUE]
    ELSE IF char = "=" THEN MeetSign(reader)
    ELSE See(reader, char)

\* From left to right.
ReadFrom(reader, line) ==
    LET read[i \in 0 .. Len(line)] ==
          IF i = 0 THEN reader ELSE ReadChar(read[i - 1], line[i])
    IN  read[Len(line)]

\* The keys and values of a line, in order; what stands before the first key is dropped.
ReadCef(line) ==
    LET end == ReadFrom(Start, line)
        values == Append(end.values, end.seen)
    IN  [k \in DOMAIN end.keys |-> <<end.keys[k], values[k + 1]>>]

\* What of a value is to arrive: all but the control characters that end no line.
Printable(value) == Without(value, Control \ {"LF", "CR"})
=============================================================================
