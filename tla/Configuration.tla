---------------------------- MODULE Configuration ----------------------------
(***************************************************************************)
(* DxlConfig::load and parse_broker_line (src/src/config.rs).  Pure.       *)
(*                                                                         *)
(* A file is a sequence of sections, a section a sequence of entries; both *)
(* are records of a name, of whether it is spelled exactly as the code     *)
(* asks for it (or differs in case), and of a value.  A broker line is the *)
(* sequence of its trimmed parts, each a string.                           *)
(***************************************************************************)
EXTENDS Integers, Sequences

CONSTANTS None,
          Ports,       \* the parts that parse as a port
          DefaultPort  \* "8883"

First(positions) == CHOOSE i \in positions : \A j \in positions : i <= j

\* section_ci and get_ci: the exact spelling, else the first in other case.
FindCi(entries, name) ==
    LET named == {i \in DOMAIN entries : entries[i].name = name}
        exact == {i \in named : entries[i].exact}
    IN  IF exact # {} THEN entries[First(exact)].value
        ELSE IF named # {} THEN entries[First(named)].value
        ELSE None

BrokerAt(port, host, ip) == [port |-> port, host |-> host, ip |-> IF ip = "" THEN host ELSE ip]

\* port;host
BrokerOfTwo(parts) ==
    IF parts[1] \in Ports /\ parts[2] # "" THEN BrokerAt(parts[1], parts[2], "") ELSE None

\* port;host;ip, else id;port;host
BrokerOfThree(parts) ==
    IF parts[1] \in Ports THEN BrokerAt(parts[1], parts[2], parts[3])
    ELSE IF parts[2] \in Ports /\ parts[3] # "" THEN BrokerAt(parts[2], parts[3], "")
    ELSE None

\* id;port;host;ip and more parts, which are ignored
BrokerOfFour(parts) ==
    IF parts[3] = "" /\ parts[4] = "" THEN None
    ELSE BrokerAt(IF parts[2] \in Ports THEN parts[2] ELSE DefaultPort, parts[3], parts[4])

ParseBrokerLine(parts) ==
    IF Len(parts) = 2 THEN BrokerOfTwo(parts)
    ELSE IF Len(parts) = 3 THEN BrokerOfThree(parts)
    ELSE IF Len(parts) >= 4 THEN BrokerOfFour(parts)
    ELSE None

\* Every line of [Brokers] that names a broker, in the order of the file.
BrokersOf(section) ==
    LET parsed[i \in 0 .. Len(section)] ==
            IF i = 0 THEN <<>>
            ELSE IF ParseBrokerLine(section[i].value) = None THEN parsed[i - 1]
            ELSE Append(parsed[i - 1], ParseBrokerLine(section[i].value))
    IN  parsed[Len(section)]

CertKeys == {"BrokerCertChain", "CertFile", "PrivateKey"}

OrElse(value, default) == IF value = None THEN default ELSE value

\* An entry of a section that may be absent.
Entry(file, section, key) ==
    IF FindCi(file, section) = None THEN None ELSE FindCi(FindCi(file, section), key)

\* load fails without the sections and keys it needs.
Loadable(file) ==
    /\ FindCi(file, "Certs") # None
    /\ \A key \in CertKeys : Entry(file, "Certs", key) # None
    /\ FindCi(file, "Brokers") # None

\* A missing key of [General] falls back; what does not parse as true is false.
\* Left out: the client's id and the ciphers, which nothing here depends on, how a
\* sink is addressed, and [Detections], whose values are CONSTANTS of the engine.
Load(file) ==
    [chain |-> Entry(file, "Certs", "BrokerCertChain"),
     cert |-> Entry(file, "Certs", "CertFile"),
     key |-> Entry(file, "Certs", "PrivateKey"),
     brokers |-> BrokersOf(FindCi(file, "Brokers")),
     tlsMinVersion |-> OrElse(Entry(file, "General", "TlsMinVersion"), "1.2"),
     verifyHostname |-> Entry(file, "General", "VerifyHostname") \in {"true", "1", "yes", "on"},
     syslog |-> Entry(file, "Syslog", "Host"),
     webhook |-> Entry(file, "Webhook", "Url"),
     kafka |-> Entry(file, "Kafka", "Brokers")]
=============================================================================
