------------------------------ MODULE Identity ------------------------------
(***************************************************************************)
(* How the sensor reads the texts that name a party: client and broker     *)
(* GUIDs, certificate thumbprints (src/src/detections.rs, lines 1-21).     *)
(*                                                                         *)
(* A text is a record.  head is what stands before the first ':' without   *)
(* its braces, tail what follows it with the colons taken out, braced says *)
(* that the head stands in braces and upper that letters are upper case.   *)
(* These are the only features of a text that the code tells apart.        *)
(* Chars are (chunks of) characters; HexDigits those that are hexadecimal. *)
(***************************************************************************)
EXTENDS Integers, Sequences

CONSTANTS Chars,            \* chunks of characters of one length
          HexDigits,        \* those made of hexadecimal digits only
          ThumbprintLength  \* length of a SHA-1 thumbprint: 40 digits

ASSUME IdentityAssumption == /\ HexDigits \subseteq Chars
                             /\ ThumbprintLength \in Nat \ {0}

Texts == [braced : BOOLEAN, upper : BOOLEAN, head : Seq(Chars), tail : Seq(Chars)]

EmptyText == [braced |-> FALSE, upper |-> FALSE, head |-> <<>>, tail |-> <<>>]

IsEmpty(text) == ~text.braced /\ text.head = <<>> /\ text.tail = <<>>

\* normalize_thumbprint: every colon is taken out, case is folded.
NormalizeThumbprint(text) == <<text.braced, text.head \o text.tail>>

\* Of a normal form: is there anything left to compare?
IsBlank(norm) == norm = <<FALSE, <<>>>>

\* normalize_identity: what stands before the first colon, without braces.
NormalizeIdentity(text) == text.head

\* is_hex_thumbprint: looks at the head only, braces disqualify it.
IsHexThumbprint(text) == /\ ~text.braced
                         /\ Len(text.head) = ThumbprintLength
                         /\ \A i \in DOMAIN text.head : text.head[i] \in HexDigits

\* .split(':').next(): the text up to its first colon.
BeforeColon(text) == [text EXCEPT !.tail = <<>>]
=============================================================================
