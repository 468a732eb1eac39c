------------------------------- MODULE Startup -------------------------------
(***************************************************************************)
(* From the command line to the main loop (main in src/src/main.rs):       *)
(* arguments, configuration file, choice of the endpoint, TLS options,     *)
(* sinks.  Every fault of the configuration ends the process with code 2.  *)
(*                                                                         *)
(* The endpoint is the first candidate that accepts a connection within    *)
(* 1.5 s.  Hosts come and go while the sensor probes.                      *)
(***************************************************************************)
EXTENDS CommandLine, SequencesExt

CONSTANTS Situations,  \* what a sensor may be started with
          Ports,       \* the parts of a broker line that parse as a port
          DefaultPort, \* the port of a four-part line without one: 8883
          Bare,        \* the hosts written in brackets, without them
          Texts,       \* the texts of arguments and files
          Kafka        \* is the feature rdkafka compiled in?

INSTANCE Configuration

Settings == Seq([name : STRING, exact : BOOLEAN, value : Texts])
BrokerLines == Seq([name : STRING, exact : BOOLEAN, value : Seq(Texts)])

PemStates == {"certificates", "unparsable certificates", "no certificate",
              "key", "key of another certificate"}

\* What a path holds: what it is as a configuration, and what as a PEM file.
IsContent(content) ==
    /\ Len(content.sections) \in Nat
    /\ DOMAIN content.sections = 1 .. Len(content.sections)
    /\ \A i \in DOMAIN content.sections :
         content.sections[i].value \in
             IF content.sections[i].name = "Brokers" THEN BrokerLines ELSE Settings
    /\ content.pem \in PemStates

ASSUME StartupAssumption ==
    /\ "" \notin Ports /\ DefaultPort \in Ports
    /\ Ports \cup {"127.0.0.1", ""} \subseteq Texts
    /\ \A name \in DOMAIN Bare : Bare[name] \in Texts
    /\ Kafka \in BOOLEAN
    /\ None \notin {0, 2} /\ None \notin Texts \cup PemStates /\ None \notin Texts \X Texts

ASSUME SituationsAssumption ==
    \A s \in Situations :
        /\ s.args \in Seq([text : Texts, option : ArgumentKinds, value : Texts \cup {None}])
        /\ s.dxlConfig \in Texts \cup {None}
        /\ DOMAIN s.disk \subseteq Texts
        /\ \A path \in DOMAIN s.disk : s.disk[path] # None => IsContent(s.disk[path])

VARIABLES disk,       \* path -> content, or None if it cannot be read
          pc,         \* "args", "load", "probe", "tls", "running" or "exited"
          exit,       \* the exit code, or None
          config,     \* the configuration loaded
          candidates, \* the endpoints to choose from, in order
          probed,     \* number of candidates probed without success
          reachable,  \* the endpoints that accept a connection within 1.5 s
          endpoint,   \* the one chosen, or None
          sinks,      \* the sinks started
          steady      \* auxiliary: the endpoints reachable during all probes so far

startVars == <<disk, pc, exit, config, candidates, probed, reachable, endpoint, sinks, steady>>
vars == <<cliVars, startVars>>

\* What is at a path: nothing, if the file cannot be read.
At(path) == IF path \in DOMAIN disk THEN disk[path] ELSE None

Pem(path) == IF At(path) = None THEN None ELSE At(path).pem

-----------------------------------------------------------------------------
(* Endpoint selection: select_broker_endpoint *)

LocalBroker == <<"127.0.0.1", DefaultPort>>

Unbracketed(name) == IF name \in DOMAIN Bare THEN Bare[name] ELSE name

EndpointsOf(broker) == {<<Unbracketed(broker.host), broker.port>>,
                        <<Unbracketed(broker.ip), broker.port>>}

\* The endpoints to be considered, two for each broker.
Named(brokers, verify) ==
    [i \in 1 .. 2 * Len(brokers) |->
        LET b == brokers[(i + 1) \div 2]
        IN  <<Unbracketed(IF verify <=> i % 2 = 1 THEN b.host ELSE b.ip), b.port>>]

\* Mutant of Nameable: blank names are candidates, too.
NameableOrBlank(named) ==
    LET chosen[i \in 0 .. Len(named)] ==
            IF i = 0 THEN <<>>
            ELSE IF named[i] \in ToSet(chosen[i - 1]) THEN chosen[i - 1]
            ELSE Append(chosen[i - 1], named[i])
    IN  chosen[Len(named)]

\* The endpoints that have a name, each once, in their order.
Nameable(named) ==
    LET chosen[i \in 0 .. Len(named)] ==
            IF i = 0 THEN <<>>
            ELSE IF named[i][1] = "" \/ named[i] \in ToSet(chosen[i - 1]) THEN chosen[i - 1]
            ELSE Append(chosen[i - 1], named[i])
    IN  chosen[Len(named)]

Candidates(brokers, verify) == Nameable(Named(brokers, verify))

-----------------------------------------------------------------------------
(* The steps of main *)

Init ==
    /\ \E s \in Situations : /\ given = s.args
                             /\ dxlConfig = s.dxlConfig
                             /\ disk = s.disk
                             /\ reachable = s.reachable
    /\ ParseInit
    /\ pc = "args" /\ exit = None
    /\ config = None
    /\ candidates = <<>>
    /\ probed = 0
    /\ endpoint = None
    /\ sinks = {}
    /\ steady = reachable

Exit(code) == pc' = "exited" /\ exit' = code

Arguments ==
    /\ pc = "args"
    /\ Parse
    /\ UNCHANGED startVars

\* Help and version are answers, errors print the usage; no configuration is an error.
AfterArguments ==
    /\ pc = "args" /\ outcome # "parsing"
    /\ \/ outcome = "answer" /\ Exit(0)
       \/ outcome = "error" /\ Exit(2)
       \/ outcome = "parsed" /\ cli.config = None /\ Exit(2)
       \/ outcome = "parsed" /\ cli.config # None /\ pc' = "load" /\ UNCHANGED exit
    /\ UNCHANGED <<cliVars, disk, config, candidates, probed, reachable, endpoint, sinks, steady>>

FileLoads == At(cli.config) # None /\ Loadable(At(cli.config).sections)

\* Mutant of LoadConfig: a file without a usable broker line is taken.
LoadConfigAnyway ==
    /\ pc = "load"
    /\ IF FileLoads
       THEN /\ config' = Load(At(cli.config).sections)
            /\ candidates' = Candidates(config'.brokers, config'.verifyHostname)
            /\ pc' = "probe" /\ UNCHANGED exit
       ELSE Exit(2) /\ UNCHANGED <<config, candidates>>
    /\ UNCHANGED <<cliVars, disk, probed, reachable, endpoint, sinks, steady>>

LoadConfig ==
    /\ pc = "load"
    /\ IF FileLoads
       THEN /\ config' = Load(At(cli.config).sections)
            /\ candidates' = Candidates(config'.brokers, config'.verifyHostname)
            /\ IF config'.brokers = <<>> THEN Exit(2) ELSE pc' = "probe" /\ UNCHANGED exit
       ELSE Exit(2) /\ UNCHANGED <<config, candidates>>
    /\ UNCHANGED <<cliVars, disk, probed, reachable, endpoint, sinks, steady>>

Choose(e) == endpoint' = e /\ pc' = "tls"

\* With one candidate or none there is nothing to probe.
NothingToProbe ==
    /\ pc = "probe" /\ Len(candidates) <= 1
    /\ Choose(IF candidates = <<>> THEN LocalBroker ELSE candidates[1])
    /\ UNCHANGED <<cliVars, disk, exit, config, candidates, probed, reachable, sinks, steady>>

\* Mutant of Probe: a refused connection counts as an answer.
ProbeCarelessly ==
    /\ pc = "probe" /\ Len(candidates) > 1 /\ probed < Len(candidates)
    /\ Choose(candidates[probed + 1])
    /\ UNCHANGED <<cliVars, disk, exit, config, candidates, probed, reachable, sinks, steady>>

\* Mutant of Probe: the search does not go on after a failed attempt.
ProbeOnce ==
    /\ pc = "probe" /\ Len(candidates) > 1 /\ probed < Len(candidates)
    /\ candidates[probed + 1] \in reachable
    /\ Choose(candidates[probed + 1])
    /\ UNCHANGED <<cliVars, disk, exit, config, candidates, probed, reachable, sinks, steady>>

\* One connection attempt, with its timeout.
Probe ==
    /\ pc = "probe" /\ Len(candidates) > 1 /\ probed < Len(candidates)
    /\ IF candidates[probed + 1] \in reachable
       THEN Choose(candidates[probed + 1]) /\ UNCHANGED probed
       ELSE probed' = probed + 1 /\ UNCHANGED <<endpoint, pc>>
    /\ UNCHANGED <<cliVars, disk, exit, config, candidates, reachable, sinks, steady>>

\* Nobody answered: the first candidate after all.
GiveUpProbing ==
    /\ pc = "probe" /\ Len(candidates) > 1 /\ probed = Len(candidates)
    /\ Choose(candidates[1])
    /\ UNCHANGED <<cliVars, disk, exit, config, candidates, probed, reachable, sinks, steady>>

\* protocol_versions
KnownVersions == {"1.2", "TLSv1.2", "tlsv1.2", "1.3", "TLSv1.3", "tlsv1.3"}

\* build_mqtt_options: files without a certificate are refused at once; roots that do
\* not parse are passed over, which only NoHostnameVerifier::new notices.  rustls
\* refuses a key that is not the certificate's.
TlsUsable ==
    /\ config.tlsMinVersion \in KnownVersions
    /\ Pem(config.chain) \in {"certificates", "unparsable certificates"}
    /\ Pem(config.cert) = "certificates"
    /\ Pem(config.key) = "key"
    /\ config.verifyHostname \/ Pem(config.chain) = "certificates"

\* The sinks that are configured; Kafka only if it was compiled in and takes its servers.
StartedSinks(kafkaStarts) ==
    {s \in {"syslog", "webhook"} : config[s] # None}
        \cup (IF Kafka /\ config.kafka # None /\ kafkaStarts THEN {"kafka"} ELSE {})

\* Mutant of Connect: the failure is noted, the sensor goes on.
ConnectAnyway ==
    /\ pc = "tls"
    /\ pc' = "running" /\ exit' = IF TlsUsable THEN exit ELSE 2
    /\ \E kafkaStarts \in BOOLEAN : sinks' = StartedSinks(kafkaStarts)
    /\ UNCHANGED <<cliVars, disk, config, candidates, probed, reachable, endpoint, steady>>

Connect ==
    /\ pc = "tls"
    /\ IF TlsUsable
       THEN /\ pc' = "running" /\ UNCHANGED exit
            /\ \E kafkaStarts \in BOOLEAN : sinks' = StartedSinks(kafkaStarts)
       ELSE Exit(2) /\ UNCHANGED sinks
    /\ UNCHANGED <<cliVars, disk, config, candidates, probed, reachable, endpoint, steady>>

Main == \/ Arguments \/ AfterArguments \/ LoadConfig
        \/ NothingToProbe \/ Probe \/ GiveUpProbing \/ Connect

\* A host comes up, or goes down, between two probes (external).
Change(e) ==
    /\ pc = "probe" /\ Len(candidates) > 1
    /\ reachable' = IF e \in reachable THEN reachable \ {e} ELSE reachable \cup {e}
    /\ steady' = steady \cap reachable'
    /\ UNCHANGED <<cliVars, disk, pc, exit, config, candidates, probed, endpoint, sinks>>

Next == Main \/ (pc = "probe" /\ \E i \in DOMAIN candidates : Change(candidates[i]))

\* main goes on; nothing is assumed of the hosts.
Spec == Init /\ [][Next]_vars /\ WF_vars(Main)

-----------------------------------------------------------------------------
(* Properties *)

\* Type correctness of the startup.
TypeOK ==
    /\ pc \in {"args", "load", "probe", "tls", "running", "exited"}
    /\ exit \in {None, 0, 2} /\ (exit # None <=> pc = "exited")
    /\ pc \in {"tls", "running"} => endpoint # None
    /\ steady \subseteq reachable
    /\ sinks \subseteq {"syslog", "webhook", "kafka"}

WordsBefore(i) == {j \in ConfigWords : j < i}

\* What argument i makes of the parse: an answer, an error or nothing.
Faulty(i) ==
    \/ given[i].option = "unknown"
    \/ given[i].option = "word" /\ WordsBefore(i) # {}
    \/ Valued(given[i]) /\ i = Len(given)
    \/ /\ given[i].option \in DOMAIN ValuesOf
       /\ LET value == IF Valued(given[i]) THEN given[i + 1].text ELSE given[i].value
          IN  value \notin ValuesOf[given[i].option]

Ending == {i \in Options : given[i].option \in {"help", "version"} \/ Faulty(i)}

\* The file is there, has what it needs, and every file it names is what it should be.
Sound(content) ==
    /\ content # None
    /\ LET file == content.sections
       IN  /\ \A section \in {"Certs", "Brokers"} : FindCi(file, section) # None
           /\ \E i \in DOMAIN FindCi(file, "Brokers") :
                ParseBrokerLine(FindCi(file, "Brokers")[i].value) # None
           /\ Pem(Entry(file, "Certs", "CertFile")) = "certificates"
           /\ Pem(Entry(file, "Certs", "PrivateKey")) = "key"
           /\ \/ Pem(Entry(file, "Certs", "BrokerCertChain")) = "certificates"
              \/ /\ Pem(Entry(file, "Certs", "BrokerCertChain")) = "unparsable certificates"
                 /\ Load(file).verifyHostname
           /\ Entry(file, "General", "TlsMinVersion") \in {None} \cup KnownVersions

DocumentedExit ==
    IF Ending = {} THEN IF Sound(At(DocumentedConfig)) THEN None ELSE 2
    ELSE LET first == CHOOSE i \in Ending : \A j \in Ending : i <= j
         IN  IF Faulty(first) THEN 2 ELSE 0

\* README, exit codes: 0 for help and version, 2 for arguments that cannot be read
\* and for a configuration that is missing or cannot be used, whichever comes first;
\* and nothing else keeps the sensor from running.
ExitCodesTellWhy == pc \in {"running", "exited"} => exit = DocumentedExit

\* The sensor connects to an endpoint of the configuration, or to this host when
\* no accepted broker line names any (a line such as "8883;;" is accepted).
EndpointIsConfigured ==
    endpoint # None =>
        LET named == {e \in UNION {EndpointsOf(config.brokers[i]) : i \in DOMAIN config.brokers} :
                        e[1] # ""}
        IN  IF named = {} THEN endpoint = LocalBroker ELSE endpoint \in named

\* With several candidates, no endpoint that answers throughout is passed over for
\* one that comes after it or that does not answer, whatever the others do meanwhile.
SteadyEndpointIsTaken ==
    (endpoint # None /\ Len(candidates) > 1) =>
        \A i \in DOMAIN candidates :
            candidates[i] \in steady =>
                /\ endpoint \in reachable
                /\ \E j \in 1 .. i : endpoint = candidates[j]

\* Started with whatever and however the hosts behave, the sensor comes to run or to exit.
StartupEnds == <>(pc \in {"running", "exited"})
=============================================================================
