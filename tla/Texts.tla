------------------------------- MODULE Texts -------------------------------
(***************************************************************************)
(* Texts and the functions of str that the codec and the records use.      *)
(* A text is a sequence of characters; words and numbers that no property  *)
(* looks into are one character.  Pure.                                    *)
(***************************************************************************)
EXTENDS Integers, FiniteSets, SequencesExt

CONSTANTS None,    \* stands where there is no text
          Letters  \* the other characters and words of the texts that peers send

\* The characters and words that the sensor itself writes or looks for.
Words == {" ", "LF", "CR", "TAB", "ESC", "\\", "=", ":", ";", "/", "-", "n", "r", "::ffff:",
          "unknown", "dxl.certs", "400101", "400102", "600301", "600304", "200401",
          "deviceCustomNumber1", "deviceCustomString1", "deviceCustomString2",
          "deviceCustomString3", "deviceCustomString4", "Label", "app", "src", "msg", "suser",
          "type_uid", "client_guid", "tls_version", "cipher", "cert_thumbprint", "service_uid",
          "service_name", "Client", "published to sensitive topic", "Non-broker", "on", "reason"}

Char == Words \cup Letters

Text == Seq(Char)

ASSUME TextsAssumption == None \notin Text

\* A byte that is no UTF-8.
Invalid == "invalid"

IsUtf8(text) == Invalid \notin ToSet(text)

-----------------------------------------------------------------------------
Space == {" ", "LF", "CR", "TAB"}

Inked(text) == {i \in DOMAIN text : text[i] \notin Space}

\* A text without the characters of a set at its end.
WithoutLast(text, chars) ==
    SubSeq(text, 1, Max({i \in DOMAIN text : text[i] \notin chars} \cup {0}))

TrimEnd(text) == WithoutLast(text, Space)

Trim(text) == IF Inked(text) = {} THEN <<>> ELSE SubSeq(text, Min(Inked(text)), Max(Inked(text)))

\* str::replace of one character.
Replace(text, char, by) ==
    FlattenSeq([i \in DOMAIN text |-> IF text[i] = char THEN by ELSE <<text[i]>>])

\* The characters of a text but those of a set.
Without(text, chars) ==
    FlattenSeq([i \in DOMAIN text |-> IF text[i] \in chars THEN <<>> ELSE <<text[i]>>])

Places(text, char) == FlattenSeq([i \in DOMAIN text |-> IF text[i] = char THEN <<i>> ELSE <<>>])

\* str::split: the parts between the separators.
Split(text, separator) ==
    LET cuts == <<0>> \o Places(text, separator) \o <<Len(text) + 1>>
    IN  [k \in 1 .. Len(cuts) - 1 |-> SubSeq(text, cuts[k] + 1, cuts[k + 1] - 1)]
=============================================================================
