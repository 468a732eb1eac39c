------------------------------ MODULE MCStartup ------------------------------
(* Command lines, files and hosts for a startup. *)
EXTENDS Startup

Arg(text, option, value) == [text |-> text, option |-> option, value |-> value]
Word(text) == Arg(text, "word", None)
ConfigOption == Arg("-c", "config", None)

\* Options, their values, and what may be mistaken for the one or the other.
Tokens == {ConfigOption, Arg("--config=B", "config", "B"), Arg("-f", "format", None),
           Arg("--only=events", "only", "events"), Arg("--only=x", "only", "x"),
           Arg("-q", "quiet", None), Arg("-h", "help", None), Arg("--odd", "unknown", None),
           Word("A"), Word("json")}

Item(name, value) == [name |-> name, exact |-> TRUE, value |-> value]
OtherCase(name, value) == [name |-> name, exact |-> FALSE, value |-> value]
Lines(lines) == Item("Brokers", [i \in DOMAIN lines |-> Item("b", lines[i])])

OtherCerts == OtherCase("Certs", <<>>)
Certs == Item("Certs", <<Item("BrokerCertChain", "chain"), OtherCase("CertFile", "none"),
                         Item("CertFile", "cert"), OtherCase("PrivateKey", "key")>>)
General(version, verify) ==
    Item("General", <<Item("TlsMinVersion", version), Item("VerifyHostname", verify)>>)

TwoHosts == Lines(<< <<"id", "1", "h1", "ip1">>, <<"1", "h1", "">>, <<"2", "h2">> >>)

Good == <<Certs, TwoHosts, Item("Syslog", <<Item("Host", "s")>>), Item("Kafka", <<Item("Brokers", "k")>>)>>

PemFiles == [chain |-> "certificates", cert |-> "certificates", key |-> "key"]

Content(sections, pem) == [sections |-> sections, pem |-> pem]

Disk(file) == [path \in DOMAIN PemFiles \cup {"A"} |->
                 IF path # "A" THEN Content(<<>>, PemFiles[path])
                 ELSE IF file = None THEN None ELSE Content(file, "no certificate")]

Start(line, env, contents, up) ==
    [args |-> line, dxlConfig |-> env, disk |-> contents, reachable |-> up]

\* Every command line of up to three arguments, with a file at A only.
ByArguments ==
    {Start(line, env, Disk(<<Certs, Lines(<< <<"1", "h1">> >>)>>), {}) :
        line \in BoundedSeq(Tokens, 3), env \in {None, "A"}}

\* Every broker line of up to four parts of these.
MCLines == BoundedSeq({"", "1", "h1", "[h1]"}, 4)

ByBrokerLine ==
    {Start(<<Word("A")>>, None, Disk(<<OtherCerts, Certs, Lines(<<line>>), General("1.3", verify)>>),
           {<<"h1", "1">>}) : line \in MCLines, verify \in {"true", "no"}}

\* What may be missing or broken, one thing at a time.
Incomplete == {None, <<>>, <<TwoHosts>>, <<Certs>>, <<OtherCerts, TwoHosts>>, <<Certs, Lines(<<>>)>>,
               <<Certs, TwoHosts, General("1.1", "yes")>>,
               <<Certs, TwoHosts, General("TLSv1.3", "no")>>, Good}

Broken == {[Disk(<<Certs, TwoHosts, General("1.2", verify)>>) EXCEPT ![path] = content] :
             verify \in {"yes", "no"}, path \in DOMAIN PemFiles,
             content \in {None} \cup {Content(<<>>, pem) : pem \in {"no certificate",
                           "unparsable certificates", "key of another certificate"}}}

ByFile == {Start(<<Word("A")>>, None, contents, {}) : contents \in {Disk(file) : file \in Incomplete} \cup Broken}

\* Two brokers of which one has two names, reachable in any way.
ByHosts ==
    {Start(<<Word("A")>>, None, Disk(<<Certs, TwoHosts, General("1.2", verify)>>), up) :
        verify \in {"yes", "no"},
        up \in SUBSET {<<"h1", "1">>, <<"ip1", "1">>, <<"h2", "2">>}}

MCSituations == ByArguments \cup ByBrokerLine \cup ByFile \cup ByHosts

MCPorts == {"1", "2", "8883"}

MCTexts == MCPorts \cup
    {"", "127.0.0.1", "id", "h1", "[h1]", "ip1", "h2", "A", "B", "json", "-c", "--config=B", "-f",
     "--only=events", "--only=x", "-q", "-h", "--odd", "events", "x", "chain", "cert", "key", "none",
     "1.1", "1.2", "1.3", "TLSv1.3", "true", "yes", "no", "s", "k"}

MCBare == [name \in {"[h1]"} |-> "h1"]
=============================================================================
