------------------------------ MODULE MCSensor ------------------------------
(* Small fabrics for the sensor. *)
EXTENDS Sensor

MCHexDigits == {"a", "b"}
MCChars == MCHexDigits \cup {"o", "x", "y"}

Plain(head) == [EmptyText EXCEPT !.head = head]

B1 == Plain(<<"x">>)
B2 == Plain(<<"y">>)
O1 == Plain(<<"o">>)
Thumb == Plain(<<"a", "b">>)

OneBroker == {B1}
TwoBrokers == {B1, B2}
Nothing == {}

CONSTANTS g1, s1

\* Clients publish on the brokers' topics: a registration, and claims to be a
\* broker, in a broker's name and in their own.  The broker adds the certificate.
MCImpostors ==
    {[BlankEvent("register", O1) EXCEPT !.cert = Thumb, !.serviceGuid = g1,
                                        !.registration = Registered(0)]}
    \cup {[BrokerStateEvent(b) EXCEPT !.cert = Thumb] : b \in {B1, O1}}
=============================================================================
