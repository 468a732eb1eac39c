# Verification of the OpenDXL SIEM sensor

TLA+ models of the sensor in `src/`, the TLC configurations that check them and
the theorems TLAPS proves about them. Line numbers are those of `src/src/*.rs`.

## 1. The system

The sensor is one process. It connects to one DXL broker over MQTT, listens to
the events of the fabric, normalises them to OCSF records, runs a detection
engine over them, and writes records and detections to stdout and to up to
three sinks. Nothing is persisted: a restart begins with an empty engine.

| Component | State | Operations | Where |
|---|---|---|---|
| Detection engine (`detections.rs`) | services with TTL, known brokers, two rate maps | `process_event_with_cert`, `poll_timeouts`, `process_sync_response`, `process_broker_sync_response` | `DetectionEngine`, `RateWindow`, `Identity` |
| Rate tracking (`track_rate`) | a map from keys to queues of times | count a message, prune, evict, alarm | `RateWindow`, `RateTracking`, `RateAlarm` |
| Main loop (`main.rs` 118-286) | two query ids, time of the last poll | ConnAck, event, reply, idle turn, periodic poll | `Sensor` |
| `subscribe_and_sync` (`main.rs` 327-394) | rumqttc's request queue | subscribe, query, in order, each may wait or be refused | `SubscribeSync` |
| Dispatch (`main.rs` 396-450) and sinks (`syslog.rs`, `http.rs`, `kafka.rs`) | three bounded channels, a TCP stream | write to stdout, offer to each sink; receive, send, retry, give up | `Dispatch` |
| Startup (`main.rs` 30-117, `cli.rs`, `config.rs`, `mqtt.rs`) | what has been parsed, loaded and probed so far | parse an argument, load the file, probe an endpoint, build the TLS options, start the sinks, or exit | `CommandLine`, `Configuration`, `Startup` |
| DXL codec (`dxl.rs`) | none | encode and parse a message | `Texts`, `DxlCodec`, `MessagePath` |
| Topic filters (`detections.rs` 702-728) | none | does a topic fall under a sensitive topic | `TopicFilter`, `MessagePath` |
| Record normalisation (`main.rs` 528-688, `ocsf.rs`) | none | the record of a message | `Texts`, `Records`, `MessagePath`; in `Sensor` as far as state matters |
| Record formats (`cef.rs`, `main.rs` 452-473) | none | the CEF and the plain line of a record | `Texts`, `Records`, `MessagePath` |
| TLS (`tls.rs`) | root certificates | verify a broker's certificate | only its refusal of an empty root store |

How they interact: the main loop is one task. It owns the engine and is the only
one to run rumqttc's event loop, so events, replies, the poll and the ConnAck
handler never overlap. It hands records to the sinks with `try_send`. Each sink
is a task of its own behind a channel of 1000 records. The client handle used by
`subscribe_and_sync` shares a queue of 100 requests with the event loop, which
the main loop drains and the handler, called from the main loop, fills.

What is hard:

- *Two reporters of one fact.* An expired service is reported by the poll
  (`>`, line 534) or by the unregister event of the broker's reaper (`>=`, line
  360), with renewals, refused registrations and registry replies in between.
- *A mirror of someone else's state.* The engine's services follow a broker's
  registry through a snapshot and events, across outages and late replies.
- *Trust decided twice.* The guard of the brokers' topics stands in `main.rs`
  (486-526) and in the engine (142-212), and depends on state that the same
  events change.
- *Bounds.* Rate maps, request queue and sink channels each behave differently
  when they are full: evict and ignore, wait, drop.
- *Time.* Seconds and milliseconds, inclusive and exclusive limits, a poll whose
  timeout each message restarts.
- *A start with many ways to end.* Arguments whose meaning depends on those
  before them, files with faults in each place, hosts that go down between probes.
- *Texts from anyone.* Other peers spell the same message differently; what a
  message contains ends up in lines with a syntax of their own.
- *Sinks that fail.* A failed TCP connect costs the record, a failed write is
  retried without a limit; a task may end while its sender is still used.
- *Waiting in the only task.* The ConnAck handler waits for a queue that its own
  caller empties, and every record is written to stdout before the loop goes on.

`PROJECT.json` lists every hazard with its line and the properties that watch it.

What makes each component correct:

- engine: an expiry is reported once and at the right time; no event moves a
  service to another owner; only a broker list changes who is a known broker;
- rate tracking: exactly the promised alarms, in bounded memory;
- main loop: in sync, the engine equals the broker's registry; no client becomes
  a broker; the poll comes due under any traffic;
- `subscribe_and_sync`: it ends, and asks for the state only after subscribing,
  whenever its requests fit into the queue;
- dispatch: no sink stalls the loop, reorders, duplicates or silently loses;
- startup: the documented configuration is read, the exit code tells what was
  wrong, an endpoint that answers is not passed over;
- message path: the message meant is the message read, the record read from a
  line is the record written, sensitive topics match as a broker delivers.

## 2. Modules

`Identity` — how names are read. A text is a record of the features that the
normalisations tell apart: braces, case, what stands before the first colon and
after it. Trimming white space is left out. Pure; parameters `Chars`,
`HexDigits`, `ThumbprintLength`.

`RateWindow` — `track_rate` and the pruning of the poll as operators on a
function from keys to queues. Pure, no recursion: the `while` that pops stale
times is the removal of the stale prefix.

`RateAlarm` — the abstract specification of rate tracking: counts by age, no
queues, no entries. A key with a message of the window is busy; while
`MaxRateKeys` keys are busy, and only then, another key may go uncounted.
`Total` counts messages as numbered pairs, so that it can be proved about.
`RateTracking` — one rate map over time, with the poll's clock in whole seconds.
`Abstract == INSTANCE RateAlarm WITH recent <- ...` counts by age the messages
that should count (`heard`, an auxiliary variable no action reads); poll and
eviction are stutters. Entries without a fresh message take places in the map,
but not in the promise: that the code evicts them in time is what the refinement
shows.

`DetectionEngine` — the engine. One action per call: `ProcessEvent(m)` (guard
`Spoofed`, then all detections, the service table, the brokers and the rate maps
in the order and with the early returns of the code), `PollTimeouts`,
`ProcessSyncResponse(s)`, `ProcessBrokerSyncResponse(l)`, and `Tick` for the
wall clock. `alerts` is the set of alerts of the last call; an alert is its title
and the party it names. `ttlAlerts` counts the TTL alerts since a registration
was stored; no action reads it. A topic is a name of its class (`"connect"`,
`"otherBrokerTopic"`, ...), a field that is absent or of the wrong type is
`None`, and a sensitive-topic filter is the set of topics it matches.

`Sensor` — the main loop around the engine, and the fabric. The loop's `pc` is
`"await"` or `"check"`: every turn handles one packet or nothing, then looks at
the poll timer. `EnvelopeSpoofed` is the guard of `main.rs`, in front of the
engine's own. A query id is modelled by the session that created it, 0 when
empty. The fabric is external, modelled from how `main.rs` uses it: the home
broker's `registry`, its events, its replies, connections that break and take
what is in flight with them, impostors. The whole ConnAck handler is one action
here and taken apart in `SubscribeSync`.

`SubscribeSync` — `subscribe_and_sync` request by request. `Plan` is what it
asks for, in order, for `topics` chosen from `TopicLists`: lists whose requests fit
into the queue and lists whose do not (`PlanFits`). rumqttc is external: `poll()`
moves one request at a time to the broker; requests left over by a broken connection
leave the queue, to be sent first in the next or lost, so that the queue is empty
whenever the handler starts. A full queue disables `Request`, and nothing drains the
queue while `pc = "handler"`, since the handler runs inside the loop.

`Dispatch` — `dispatch_record` stage by stage, and the tasks of the sinks beside it.
Records are numbers. stdout is a pipe of `PipeSize` records (a record goes in and
out as a whole): `Emit` has no step while the pipe is full, and `ReadStdout` is the
reader, who may stop reading or, by `CloseStdout`, go away. `Forward(s)` is
`try_send`; `Attempt(s)` is the single attempt of HTTP, Kafka and UDP syslog; the
`Tcp...` actions are the retry loop of TCP syslog. Serialising a record cannot fail
for these types and is left out. A write over TCP that returned without an error
counts as sent, whether or not the peer received it, and fragments of failed writes
are left out.

`CommandLine` — `Cli::parse`, one action per kind of argument. An argument is
what it reads as where an option is expected, its text, and the value joined to
it; `SetOption` takes whatever comes next for a value. `DocumentedConfig` is the
other view of a command line, as a whole: which positions are values, which
options, which of them counts by the README and the comment in the code;
`HelpIsFollowed` is the order that the printed help gives.

`Configuration` — `DxlConfig::load` and the broker lines, pure. A file is a
sequence of sections and the state of the PEM data in it, a broker line the
sequence of its parts.

`Startup` — `main` up to the loop, around the two. `pc` is where `main` is
(`"args"` 32-65, `"load"` 66-81, `"probe"` 82-83 and 289-325, `"tls"` 85-109).
`Probe` is one connection attempt with its timeout; `Change` lets a host go down
or come up between two of them. `Nameable` picks the candidates, each once, out of
the endpoints the lines name. `steady`, which no action reads, holds the
endpoints that were reachable all along.

`Texts` — a text is a sequence of characters; `Words` are those the sensor writes
or looks for, `Letters` all others. The functions of `str` that codec and records
use: trim, replace, filter, split.

`DxlCodec` — a frame is a sequence of cells: integers, array headers, text
headers with a kind and a length, characters. `Encode` writes the headers
the code writes, with the bits of the length they keep; `Parse` reads from a
cursor, a place in the frame, what `Layout` asks for and fails at the first cell
that is not what it should be. `IsMessage` says what a message of a version and
type has; `Completed` gives the defaults (`unwrap_or`) of the optional fields a message
lacks, as the sensor's own queries lack two, and `IsSendable` is a message that is
one when completed.

`TopicFilter` — `topic_matches` over levels, and `Delivers`, the rules of MQTT, the
one for topics that begin with `$` included.

`Records` — the record of a message and its lines, over texts that are sequences
of characters; `ReadCef` is how a collector reads a CEF extension, character by
character.

`MessagePath` composes the three: one message from its sender over the wire to
the lines (`stage`), with the headers of other peers (`PeerSpells`) and lost ends
(`CutShort`). `EnvelopeSpoofed` is the whole guard of `main.rs` (486-526) over texts:
a message it stops makes no record but the one `SpoofAlert`. Of the engine only the
alerts about sensitive topics are in it: like the guard they depend on nothing but
the message, the configuration and the known brokers. `HandleMessage` makes the
record first, then the alerts, as the loop does.

`MCDetectionEngine`, `MCSensor`, `MCSubscribeSync`, `MCStartup` and
`MCMessagePath` give TLC small inputs. `RateWindowProofs`, `RateTrackingProofs`,
`DetectionEngineProofs`, `SensorProofs`, `SubscribeSyncProofs`, `DispatchProofs`,
`StartupProofs` and `MessagePathProofs` hold theorems about the module each is
named for.

In every module a definition named `Mutant of X` in its comment is a plausible
bug in `X`; no specification uses it. `PROJECT.json` says which property each
one breaks, and `map` ties every definition to its source lines.

## 3. Runs

| Run | Checks | Bounds |
|---|---|---|
| `rate` | TypeOK, MemoryBounded, ExcessIsAlarmed, FreshTimesAreKept, ImplementsRateAlarm | 3 keys, 2 places, threshold 2, window 2 ms, "second" of 2 ms, 6 ms |
| `engine` | TypeOK, NoRepeatedTtlAlert, ReportedIsOverdue, NoThumbprintBroker, OwnerNeverMoves, RemovalReportsExpiry, BrokersChangeOnlyBySync | 2 services, 2 owners (one spelled two ways) and none, TTLs up to one that does not fit, 2 brokers, a thumbprint, every broker list over them, clock to 6; the rate maps have no place (run `rate` is about them) |
| `mirror` | MirrorsRegistry, KnownBrokersAreGenuine, UnregisterIsNamed | a fabric of 1 broker, 1 service, 2 sessions, 2 packets in flight, 1 late reply, 3 impostor events |
| `expiry` | LoopTypeOK, TtlAlarmJustified, ExpiryIsReported | 1 service, 2 sessions, TTL 1 and grace 2, clock to 6, poll after more than 1 |
| `genuine` | OnlyImpostorsFlagged, *violated* | 2 brokers, no impostor |
| `outage` | TtlAlarmMeansExpired, *violated* | 1 service, 1 session |
| `sync` | QueriesFollowSubscriptions, AwaitedIsAsked, HandlerReturns, StateIsQueried | 5 places, 4 to 9 requests, one of which may be refused, 3 sessions |
| `sync_full` | AnyListIsQueried, *violated* | 6 requests, 5 places |
| `dispatch` | TypeOK, OrderIsKept, EveryRecordIsAccountedFor, StreamHasNoGap, DispatchReturns, RecordsAreDealtWith, OnlyWritesHoldUp | syslog over each transport and HTTP, channels of 1, a pipe of 1, 3 records, every `--only` |
| `startup` | TypeOK, ConfigFollowsPrecedence, ExitCodesTellWhy, EndpointIsConfigured, SteadyEndpointIsTaken, StartupEnds | command lines of 3 arguments out of 10, broker lines of 4 parts out of 4, one fault per file, a key of another certificate among them, 3 hosts that change at any time |
| `help` | HelpIsFollowed, *violated* | command lines of 3 arguments |
| `message_path` | FrameCarriesMessage, CutFrameIsRefused, SensitiveIsDelivered, CollectorReadsRecord, OneLineEach | every type and version, the sensor's own query with what it lacks, texts across every scaled limit, 2 changes on the wire, filters and topics of 3 levels and a "#", reserved topics, every branch of the guard of the brokers' topics, texts of 3 out of 7 characters in every place of a record |

Why these bounds are enough to be interesting. A rate map needs as many keys as
places plus one for eviction and refusal, a threshold that two messages of one key
pass, and a window longer than a "second" so that the poll's rounding shows. The
engine needs two services so that one may be polled while the other is removed, and
a clock that reaches the second of the expiry, the one after it and a renewal's
expiry. The sensor needs two sessions for stale replies, and two packets in flight
for an event between snapshot and reply. A dispatch needs a channel and a pipe
shorter than the number of records, the ConnAck handler one request more than places
and a refused filter on either side of the last place. A command line needs three
arguments for an option, the argument it swallows and one more; hosts need three
endpoints so that the first, a later and no endpoint may be the one that stays up.
The limits of the codec are scaled down (32, 256 and 65536 to 2, 4 and 5, 2^31 to
2): what matters is which header a length needs and what that header can hold, and
texts of up to 6 characters cross each limit. A CEF value needs three characters for
an escape and what it may be mistaken for on either side. Deadlock is not checked in
any run: each model stops at the end of its bounded clock, sessions, records or
message, and a start ends.

Bounds in guards: `MaxTime`, `MaxClock` (clock), `MaxSessions`, `MaxNet`,
`MaxLate` (fabric), `MaxRecords`, `changes` (edits of a frame on the wire), and in
`RateTracking.Publish` the length of the auxiliary `heard`, which would grow for
ever if an alarm failed to come.

### What the violated runs show

1. `genuine`: once some broker is known, events of a genuine broker that is not
   known yet are reported as spoofed, its brokerstate is rejected, and it stays
   unknown until the next connection (`main.rs:522`, `detections.rs:181`). The
   README of the program says the alert is for clients that are no brokers. The
   unknown one may be the home broker itself, when another's brokerstate arrives
   before the broker list: its registry events are then rejected, and
   `MirrorsRegistry` fails. That is why `mirror` has a fabric of one broker.
2. `outage`: the poll goes on while the connection is down and reports services
   whose renewals the sensor could not see (`main.rs:272`).
3. `sync_full`: with more than 100 subscriptions and queries the ConnAck handler
   waits for a place that only its own caller could free (`main.rs:340`).
   `HandlerReturns` in the run `sync` states the exact condition.
4. `help`: the help (`cli.rs:24-26`) lists CONFIG, `-c` and `DXL_CONFIG` "in that
   order of precedence"; with CONFIG and `-c` both given, the code reads the file of
   `-c` (`cli.rs:155`), as the README of the program (`src/README.md:161`) and the
   comment above that line say. `ConfigFollowsPrecedence` checks what those two say,
   `HelpIsFollowed` what the help says.

### Where documents and code differ without a run

- `cli.rs:43-44` says that `--quiet` raises the log's floor to warnings
  regardless of `RUST_LOG`; `main.rs:49-55` looks at it only when `RUST_LOG` is
  not set. The log's level is not modelled.
- `ocsf.rs:50` calls `client_instance_guid` the full value; `main.rs:550-556`
  puts in only what stands between the first two colons. The actor of a
  registration keeps the full value (`main.rs:636-642`), so the two kinds of
  records name the same client differently.
- The README promises a rate alert for every client and topic above the threshold
  (`src/README.md:109` and `:113`); with 10 000 busy keys others go uncounted
  (`detections.rs:571`). `RateAlarm` states exactly when.
- A broker line such as `8883;;` is accepted (`config.rs:100-112`) and makes the
  sensor connect to 127.0.0.1. `EndpointIsConfigured` says so.
- `topic_matches` (`detections.rs:702`) lets a wildcard in the first level stand for a
  level that begins with `$`; MQTT 3.1.1 (section 4.7.2) delivers no such topic by it.
  Only a message that another filter brings in can raise that extra alert.

## 4. Fairness

`Sensor`: weak fairness of the loop (the main task is always scheduled, its only
unbounded wait has a timeout of 10 s) and of the clock. Nothing is assumed of the
fabric: `ExpiryIsReported` holds also if every packet is lost. The clock is
bounded, so the property speaks of expiries within a horizon that leaves room
for one more poll. Two things can hold the loop for good, and this fairness
leaves them out: the ConnAck handler with too many requests (run `sync_full`) and a
full stdout (`DispatchReturns`). `ExpiryIsReported` speaks of a sensor that meets
neither.

`SubscribeSync`: weak fairness of the loop's steps. `StateIsQueried` allows the
connection to break instead, and `HandlerReturns` needs nothing of the broker: the
handler ends if its requests fit into the queue, and never if they do not.

`Dispatch`: weak fairness for the steps of `dispatch_record`, when they are
possible. The write to stdout (`main.rs:444-445`) is synchronous and not possible
while the pipe is full. The reader owes no step, so `DispatchReturns` says that the
loop goes on unless the pipe stays full for good. stderr, where the log goes, is
taken to be drained; logging is left out. Weak fairness also for each sink's task as
a whole: the runtime schedules it, and what it awaits ends (5 s for a TCP connect
and a write, 10 s for an HTTP request, 5 s for a Kafka message). Which way it ends
is open, so a task may fail for ever: `DispatchReturns` and `RecordsAreDealtWith`
hold while the syslog task connects and fails to write without end, and
`OnlyWritesHoldUp` names such writes as the only way a record is held up there.

`Startup`: weak fairness of `main`. Each of its steps ends: files are read
synchronously, a probe has a timeout of 1.5 s. Nothing is assumed of the hosts,
which may come and go without end: the list of candidates is finite.

## 5. Assumptions

- The clocks of broker and sensor agree and never go back.
- Within a session the broker sends events and replies in the order in which it
  handled the changes and queries. If it took the snapshot and sent it behind
  newer events, the reply would overwrite them; the code has no defence.
- Replies that arrive late do so in a later session, possibly twice.
- Genuine events have a JSON payload and no client certificate; brokers put the
  certificate of the publishing client into the envelope of what it publishes.
- Alerts of one call are a set: their order and repetitions are left out, and so
  is the certificates' separator-only edge (`dxl.certs` of `";"`).
- Times are unbounded integers.
- In `Sensor` one client registers every service, so that engine and registry never
  differ about an owner. What the engine does with a registration that names another
  owner (it keeps the first and raises an alert, `detections.rs:319-333`, while the
  registry takes the second) is in the run `engine` only: of such a service the
  engine is no mirror, by design.
- In `MessagePath` no engine alert but the sensitive-topic one is raised. JSON fields
  have distinct names, and characters are those that mean something to CEF, to the
  code or to a terminal, and two that do not.
- A sensitive topic with a "#" that is not its last level is no valid filter:
  `topic_matches` ends at that "#", a client library refuses to subscribe to it.
  `SensitiveIsDelivered` and the theorem are about valid filters, and not about a
  wildcard in front that meets a topic beginning with `$` (section 3).
- A CEF collector reads a value up to the blank before the next key, as the
  format prescribes; blanks at the end of a line's last value are lost.
- Files do not change while the sensor starts.

The constants' assumptions, which the proofs use and TLC evaluates: a broker's guid
is a name, not a thumbprint; an impostor is a client, so that the envelope of what
it publishes on a broker's topic names its certificate; a service type and a TTL are
what a registration has; an empty text is no port; what is on the disk is a
configuration, PEM data or nothing readable; capacities are positive, bounds are
natural numbers, and `None` is none of the values it stands beside. In `MessagePath`
a sent message has no fields but those of its version and type, of which it may lack
the optional ones (`IsSendable`), numbers of the width of their Rust types, and a
topic without wildcards; its texts, and the texts of JSON fields, are any sequences
of characters. The limits of the headers are positive and in no order.

## 6. Proofs

All are for every value of the constants under the modules' `ASSUME`s; three
theorems about `Sensor` have hypotheses of their own, named below. Every safety
invariant of the runs, and every action property, is a theorem. The bounds of
clock, sessions and records are constants as well: the proofs hold for every one
of them.

*Rate tracking* (`RateWindowProofs`, `RateTrackingProofs`). Lemmas say what
pruning and counting return: `DropStale` cuts a queue at its first fresh time
(`CutOfDropStale`), pruning by any earlier time does not touch what is fresh,
making room never costs a fresh message, and there is room unless the map is
`Crowded`. From them:
- `TypeCorrect`, `MemoryIsBounded`: a key is added only to a map with fewer than
  `MaxRateKeys` keys, whose domain stays finite.
- `NoExcessGoesBy`, `EvictionForgetsNothing`: `ExcessIsAlarmed` speaks of `heard`,
  `track_rate` decides on `rates`. The inductive invariant that ties them,
  `HeardIsKept`, says that the fresh times of a key are the same in both, whether
  or not the key has an entry.
- `KeepsThePromise`: the refinement of `RateAlarm`, every step a step of the promise
  or a stutter. Besides `HeardIsKept` it needs `HeardInOrder`: a queue is sorted,
  so that dropping its stale prefix drops every stale time, and counts by age
  (`AgesOf`) add up to the length of what is left (`TotalIsLength`, by a bijection
  between numbered ages and indices).

*Engine* (`DetectionEngineProofs`). `TypeCorrect` from the lemmas above, one step
per action. `ExpiryReportedOnce` and `MarkedOnlyWhenOverdue` come from `TtlInv`: a
recorded service has been reported exactly once if it is marked (and is then
overdue) and not at all if it is not, and a service that is not recorded at most
once. `NoRepeatedTtlAlert` alone is not inductive: it says nothing of the mark, on
which both reporters decide. `NoThumbprintIsBroker` is inductive: events pass the
guard, lists are filtered. `OnlySyncChangesBrokers`, `EventsKeepOwners` and
`NoSilentExpiry` are action properties that follow from one step each.

*Main loop and fabric* (`SensorProofs`).
- `LoopTypeCorrect`, for any fabric: `LoopTypeOK` types the loop's state and its
  record, every packet in flight, every late reply and the registry. The step it
  needs is `RecordTyped`: of a typed packet the handlers make a typed record.
- `OnlyGenuineBrokers`, for any fabric: `FabricTyped` says that
  whatever is in flight or late carries guids of brokers, and that known brokers
  are brokers. It is inductive since `EnvelopeSpoofed` stops an impostor's
  brokerstate by its certificate before the engine sees it. `SessionInv` says which
  packets and requests there can be at each stage of a session, and that a
  snapshot is in flight only while its query is unanswered.
- `EngineMirrorsRegistry`: `MirrorsRegistry` speaks of moments when nothing is in
  flight. The inductive `Mirrored(g)` speaks of all: let the engine handle what is
  in flight, and it ends with the registry's entry (`Leads`). An event changes
  what is in flight at its end, the loop at its beginning, and a snapshot that
  was taken before newer events is followed by them.
- `UnregisterRecordsAreNamed`, `PollsAlarmJustly`: action properties, from the same
  invariant at a poll and at an unregister event.
- The last three assume `Brokers = {HomeBroker}`: with a second broker the home
  broker's own events may be rejected (run `genuine`, section 3), and the engine is
  no mirror. `PollsAlarmJustly` also assumes `TtlMins < TtlModulus`, a TTL that fits
  32 bits: one that does not is stored as a shorter one (`detections.rs:342`, `:656`).

*`subscribe_and_sync`* (`SubscribeSyncProofs`): `SubscribedBeforeAsked`,
`NothingAwaitedUnasked`, `ReturnsOnlyIfItFits`, for any lists of topics. `SyncInv`
says where the requests of the current session are: the broker got requests of
earlier sessions and then the first n of the plan, what the handler has asked for
since is queued, in order, and nothing of earlier sessions is left as soon as n > 0
(`InPlanOrder`). Each property looks at one place and needs all of them: what is
sent next was queued or kept before. `ReturnsOnlyIfItFits` is the safety half of
`HandlerReturns`; its invariant `HandlerInv` counts: while the handler runs the
queue holds exactly the requests asked for so far, which are no more than its
places, and none of their filters was refused.

*Dispatch* (`DispatchProofs`): `TypeCorrect`, `OrderHolds`, `NoRecordVanishes`,
`StreamIsComplete`, for any set of sinks and capacity. `SinkInv` says that what a
sink has handed on, holds and has waiting is one increasing sequence, which with
the lost ones makes up what was offered; order on the wire alone says nothing of
what is still to come. `StreamInv` relates stdout to the records dispatched and
the stage of the last one, `PipeInv` bounds what nobody has read yet.

*Startup* (`StartupProofs`): `TypeCorrect`, `ConfiguredIsTaken`, `SteadyIsTaken`,
`PrecedenceIsKept`, `ExitIsExplained`, for command lines, broker lines and files of
any length, and hosts that come and go in any way.
- `StartInv`: the candidates probed in vain have not been reachable throughout.
- `ParseInv`: after k arguments the configuration read so far is the documented one
  of the first k, and none of them ends the parse; which positions are values is
  fixed by the arguments before them alone.
- `ExitInv`: from "load" on the arguments were sound, from "probe" on the file was.
- Recursive functions (the positions of values, the lines of a section) are
  reasoned about by least numbers: of all n for which a claim fails there is a
  least one, and its predecessor contradicts it (`LeastExists`, `Induct`,
  `LoopRuns`, `LoopInvariant`).

*Message path* (`MessagePathProofs`): `Invariance`, and from it `Carried`,
`CutRefused`, `SensitiveDelivered`, `RecordRead` and `OneLine`, for any message,
texts of any length, any limits of the headers and any number of changes on the
wire.
- The invariants of the run speak of what was parsed, recorded and written. They are
  not inductive: what is parsed depends on the frame, and the frame on what peers
  did to it. `IInv` adds that what is on the wire spells the message meant, whole
  unless cut (`Wired`), that a parsed message is the one sent (`AsMeant`), that
  there is one alert for each filter that matches, or one of the guard (`Recorded`),
  and that each line is that of its record (`Lined`).
- Codec. A message is encoded as its completion is (`EncodeFills`). `Spells` says
  which cells stand for the same thing: texts under any header, codes with and
  without sign. `Lays(frame, at, piece)` says that the frame spells a piece from a
  place on, as far as it goes. Each reader of the parser has a lemma: where its
  piece is laid out in full it takes the value and goes on behind it, otherwise it
  fails (`TakesBytes`, `TakesTexts`, `TakesItem`). One induction over the layout
  (`ParsesFields`) makes `ParseIs` of them: `Parse` returns the message exactly if
  all of it is there and its texts are UTF-8. Both theorems about frames are its two
  cases. `FieldsOfFlat` is the round trip of the other fields through the flat list
  of keys and values.
- CEF. `EscapeOne` computes the four replacements and the filter on one character
  and `EscapeConcat` distributes them over a text: so an escaped value is a
  sequence of escapes and harmless characters, in which the reader never meets a
  bare "=" (`ReadEscaped`). `ReadAllWritten` adds field after field: the reader
  holds the last value until the next key, which its last blank precedes.
  `TrimEscaped` is the end of the line, where blanks are lost and nothing else.
- Topic filters. `MatchesLikeABroker`: without a "#" the loop of `topic_matches`
  compares all levels (`ClosedFilter`), with one those before it, and neither the
  shortcut for equal texts nor the one for the parent level adds a topic
  (`OpenFilter`).
- Induction over texts, lists and loops is by least numbers, over sets rather than
  operators (`Induct`, `SeqInduct`, `LoopRuns`, `LoopInvariant`).

Only model-checked: the liveness properties (`ExpiryIsReported`, `HandlerReturns`,
`StateIsQueried`, `DispatchReturns`, `RecordsAreDealtWith`, `OnlyWritesHoldUp`,
`StartupEnds`). Liveness under fairness is out of the prover's reach, as is ENABLED.

## 7. Plan and order

1. Done: the engine with rate tracking; the main loop and its fabric; the
   ConnAck handler; dispatch and sinks; startup; the message path; the theorems
   above.
2. Left: a clock that is set back; the numeric edges of the expiry; reports around
   registry replies after an outage; a fabric of two clients that claim one service.

## 8. Not modelled

- The verification of a broker's certificate (`tls.rs` 24-62) is a call of
  `webpki` without a name; what a certificate is stays with the library.
- The level of the log and every log message.
- The header of a CEF line and the JSON line: constants, and the escaping of
  serde_json. The layout of the plain line but for whom it names.
- Severity, metadata and names in OCSF records: constants of a class.
- Byte order and widths of MessagePack integers: the library's.
- How a sink is addressed (port, protocol, topic), the client's id, relative paths.
- A clock that is set back, and sums of times that overflow 64 bits.
