------------------------------- MODULE Dispatch -------------------------------
(***************************************************************************)
(* What becomes of a record: dispatch_record and emit (src/src/main.rs)    *)
(* write it to stdout and offer it to the sinks, each a task of its own    *)
(* behind a bounded channel (syslog.rs, http.rs, kafka.rs).                *)
(*                                                                         *)
(* A record is its number; dispatched keeps its kind.  The tasks run       *)
(* beside the main loop, so they may take records out between two of its   *)
(* steps.  handed[s] are the records whose sending returned without an     *)
(* error; lost[s] is auxiliary and read by no action.                      *)
(***************************************************************************)
EXTENDS Integers, Sequences, FiniteSets
LOCAL INSTANCE SequencesExt

CONSTANTS Sinks,      \* the sinks that are configured and were started
          Capacity,   \* places in a sink's channel: 1000
          PipeSize,   \* records that fit into the pipe at stdout: 64 KiB on Linux
          MaxRecords  \* bound on the records dispatched

ASSUME DispatchAssumption == /\ Sinks \subseteq {"syslog", "http", "kafka"}
                             /\ Capacity \in Nat \ {0}
                             /\ PipeSize \in Nat \ {0}
                             /\ MaxRecords \in Nat

Kinds == {"event", "detection"}
Stages == <<"emit", "syslog", "http", "kafka">>

VARIABLES settings,    \* --only, and the syslog protocol
          pc,          \* "loop", a stage of dispatch_record, or "exited"
          dispatched,  \* kinds of the records dispatched so far
          open,        \* does anybody still hold the reading end of stdout?
          stdout,      \* records written there
          read,        \* how many of them have been read out of the pipe
          task,        \* of each sink: "start", "recv", "send" or "ended"
          channel,     \* records waiting for each sink
          inHand,      \* the record each task is sending, or 0
          stream,      \* has the syslog task a TCP connection?
          handed,      \* records each sink has sent
          lost         \* auxiliary: records each sink never sent

sinkVars == <<task, channel, inHand, stream, handed, lost>>
mainVars == <<settings, pc, dispatched, open, stdout, read>>
vars == <<mainVars, sinkVars>>

Init ==
    /\ settings \in [only : {"all", "events", "detections"}, protocol : {"udp", "tcp", "other"}]
    /\ pc = "loop"
    /\ dispatched = <<>>
    /\ open = TRUE /\ stdout = <<>> /\ read = 0
    /\ task = [s \in Sinks |-> IF s = "syslog" THEN "start" ELSE "recv"]
    /\ channel = [s \in Sinks |-> <<>>]
    /\ inHand = [s \in Sinks |-> 0]
    /\ stream = FALSE
    /\ handed = [s \in Sinks |-> <<>>]
    /\ lost = [s \in Sinks |-> {}]

Running == pc # "exited"

-----------------------------------------------------------------------------
(* The main loop *)

\* dispatch_record is called.
Dispatch(kind) ==
    /\ pc = "loop" /\ Len(dispatched) < MaxRecords
    /\ dispatched' = Append(dispatched, kind)
    /\ pc' = "emit"
    /\ UNCHANGED <<settings, open, stdout, read, sinkVars>>

\* Cli::wants
Wants(kind) == \/ settings.only = "all"
               \/ settings.only = "events" /\ kind = "event"
               \/ settings.only = "detections" /\ kind = "detection"

Wanted == Wants(dispatched[Len(dispatched)])

\* Somebody holds the reading end and leaves the pipe full: a write waits.
PipeIsFull == open /\ Len(stdout) - read >= PipeSize

\* Mutants of Emit: a closed stdout is passed over; what is filtered out goes nowhere.
EmitRegardless ==
    /\ pc = "emit" /\ ~(Wanted /\ PipeIsFull)
    /\ stdout' = IF Wanted /\ open THEN Append(stdout, Len(dispatched)) ELSE stdout
    /\ pc' = "syslog"
    /\ UNCHANGED <<settings, dispatched, open, read, sinkVars>>

EmitOrForget ==
    /\ pc = "emit" /\ ~(Wanted /\ PipeIsFull)
    /\ IF Wanted /\ ~open THEN pc' = "exited" /\ UNCHANGED stdout
       ELSE /\ pc' = IF Wanted THEN "syslog" ELSE "loop"
            /\ stdout' = IF Wanted THEN Append(stdout, Len(dispatched)) ELSE stdout
    /\ UNCHANGED <<settings, dispatched, open, read, sinkVars>>

\* emit: a closed stdout ends the process, noticed when a wanted record is written.
\* The write is synchronous: it holds the main task while the pipe is full.
Emit ==
    /\ pc = "emit" /\ ~(Wanted /\ PipeIsFull)
    /\ IF Wanted /\ ~open THEN pc' = "exited" /\ UNCHANGED stdout
       ELSE /\ pc' = "syslog"
            /\ stdout' = IF Wanted THEN Append(stdout, Len(dispatched)) ELSE stdout
    /\ UNCHANGED <<settings, dispatched, open, read, sinkVars>>

After(s) == IF s = "syslog" THEN "http" ELSE IF s = "http" THEN "kafka" ELSE "loop"

Accepts(s) == task[s] # "ended" /\ Len(channel[s]) < Capacity

\* Mutants of Forward: no limit; wait for a place; make a place.
ForwardUnbounded(s) ==
    /\ pc = s /\ pc' = After(s)
    /\ IF s \in Sinks /\ task[s] # "ended"
       THEN channel' = [channel EXCEPT ![s] = Append(@, Len(dispatched))] /\ UNCHANGED lost
       ELSE UNCHANGED <<channel, lost>>
    /\ UNCHANGED <<settings, dispatched, open, stdout, read, task, inHand, stream, handed>>

ForwardOrWait(s) ==
    /\ pc = s /\ pc' = After(s)
    /\ s \in Sinks => Accepts(s)
    /\ channel' = IF s \in Sinks THEN [channel EXCEPT ![s] = Append(@, Len(dispatched))]
                  ELSE channel
    /\ UNCHANGED <<settings, dispatched, open, stdout, read, task, inHand, stream, handed, lost>>

\* try_send: the newest record is dropped when the channel is full or closed.
Forward(s) ==
    /\ pc = s /\ pc' = After(s)
    /\ IF s \notin Sinks THEN UNCHANGED <<channel, lost>>
       ELSE IF Accepts(s)
       THEN channel' = [channel EXCEPT ![s] = Append(@, Len(dispatched))] /\ UNCHANGED lost
       ELSE lost' = [lost EXCEPT ![s] = @ \cup {Len(dispatched)}] /\ UNCHANGED channel
    /\ UNCHANGED <<settings, dispatched, open, stdout, read, task, inHand, stream, handed>>

Main == Emit \/ \E s \in {"syslog", "http", "kafka"} : Forward(s)

\* The reader of the pipe takes a record out, or goes away (external).
ReadStdout == /\ Running /\ open /\ read < Len(stdout)
              /\ read' = read + 1
              /\ UNCHANGED <<settings, pc, dispatched, open, stdout, sinkVars>>

CloseStdout == /\ Running /\ open
               /\ open' = FALSE
               /\ UNCHANGED <<settings, pc, dispatched, stdout, read, sinkVars>>

-----------------------------------------------------------------------------
(* The tasks of the sinks *)

\* The syslog task cannot bind its socket, or knows no such protocol: it ends,
\* and what waits in its channel is dropped.
SyslogEnds ==
    /\ Running /\ "syslog" \in Sinks /\ task["syslog"] = "start"
    /\ settings.protocol # "tcp"
    /\ task' = [task EXCEPT !["syslog"] = "ended"]
    /\ lost' = [lost EXCEPT !["syslog"] = @ \cup ToSet(channel["syslog"])]
    /\ channel' = [channel EXCEPT !["syslog"] = <<>>]
    /\ UNCHANGED <<mainVars, inHand, stream, handed>>

SyslogStarts ==
    /\ Running /\ "syslog" \in Sinks /\ task["syslog"] = "start"
    /\ settings.protocol # "other"
    /\ task' = [task EXCEPT !["syslog"] = "recv"]
    /\ UNCHANGED <<mainVars, channel, inHand, stream, handed, lost>>

Receive(s) ==
    /\ Running /\ task[s] = "recv" /\ channel[s] # <<>>
    /\ inHand' = [inHand EXCEPT ![s] = Head(channel[s])]
    /\ channel' = [channel EXCEPT ![s] = Tail(@)]
    /\ task' = [task EXCEPT ![s] = "send"]
    /\ UNCHANGED <<mainVars, stream, handed, lost>>

\* The record is sent, or given up; either way the task waits for the next one.
Sent(s) == /\ handed' = [handed EXCEPT ![s] = Append(@, inHand[s])]
           /\ inHand' = [inHand EXCEPT ![s] = 0]
           /\ task' = [task EXCEPT ![s] = "recv"]
           /\ UNCHANGED <<mainVars, channel, lost>>

GivenUp(s) == /\ lost' = [lost EXCEPT ![s] = @ \cup {inHand[s]}]
              /\ inHand' = [inHand EXCEPT ![s] = 0]
              /\ task' = [task EXCEPT ![s] = "recv"]
              /\ UNCHANGED <<mainVars, channel, handed>>

Sending(s) == Running /\ task[s] = "send"

OverTcp(s) == s = "syslog" /\ settings.protocol = "tcp"

\* Mutant of Attempt: what could not be sent goes back into the channel.
AttemptOrRequeue(s) ==
    /\ Sending(s) /\ ~OverTcp(s)
    /\ \/ Sent(s)
       \/ /\ channel' = [channel EXCEPT ![s] = Append(@, inHand[s])]
          /\ inHand' = [inHand EXCEPT ![s] = 0]
          /\ task' = [task EXCEPT ![s] = "recv"]
          /\ UNCHANGED <<mainVars, handed, lost>>
    /\ UNCHANGED stream

\* HTTP, Kafka, syslog over UDP: one attempt.
Attempt(s) == /\ Sending(s) /\ ~OverTcp(s)
              /\ Sent(s) \/ GivenUp(s)
              /\ UNCHANGED stream

\* Syslog over TCP: a connection is made when there is none.
TcpConnect == /\ Sending("syslog") /\ OverTcp("syslog") /\ ~stream
              /\ stream' = TRUE
              /\ UNCHANGED <<mainVars, task, channel, inHand, handed, lost>>

\* Mutant of TcpConnectFails: the task ends.
TcpConnectEnds == /\ Sending("syslog") /\ OverTcp("syslog") /\ ~stream
                  /\ task' = [task EXCEPT !["syslog"] = "ended"]
                  /\ UNCHANGED <<mainVars, channel, inHand, stream, handed, lost>>

\* A failed connect (refused, or 5 s) costs the record ...
TcpConnectFails == /\ Sending("syslog") /\ OverTcp("syslog") /\ ~stream
                   /\ GivenUp("syslog")
                   /\ UNCHANGED stream

TcpWrite == /\ Sending("syslog") /\ OverTcp("syslog") /\ stream
            /\ Sent("syslog")
            /\ UNCHANGED stream

\* Mutant of TcpWriteFails: the record goes back to the end of the channel.
TcpWriteRequeues ==
    /\ Sending("syslog") /\ OverTcp("syslog") /\ stream
    /\ stream' = FALSE
    /\ channel' = [channel EXCEPT !["syslog"] = Append(@, inHand["syslog"])]
    /\ inHand' = [inHand EXCEPT !["syslog"] = 0]
    /\ task' = [task EXCEPT !["syslog"] = "recv"]
    /\ UNCHANGED <<mainVars, handed, lost>>

\* ... a failed write does not: the same record is sent on a new connection.
TcpWriteFails == /\ Sending("syslog") /\ OverTcp("syslog") /\ stream
                 /\ stream' = FALSE
                 /\ UNCHANGED <<mainVars, task, channel, inHand, handed, lost>>

Task(s) == \/ Receive(s)
           \/ Attempt(s)
           \/ /\ s = "syslog"
              /\ \/ SyslogEnds \/ SyslogStarts
                 \/ TcpConnect \/ TcpConnectFails \/ TcpWrite \/ TcpWriteFails

-----------------------------------------------------------------------------
Next == \/ \E kind \in Kinds : Dispatch(kind)
        \/ Main
        \/ ReadStdout \/ CloseStdout
        \/ \E s \in Sinks : Task(s)

\* The runtime schedules every task, each on a thread of its own if need be, and
\* every operation a task awaits ends; which way it ends is left open, for ever.
\* A write to stdout ends only if the reader lets it, who owes nobody a step.
Spec == /\ Init /\ [][Next]_vars
        /\ WF_vars(Main)
        /\ \A s \in Sinks : WF_vars(Task(s))

-----------------------------------------------------------------------------
(* Properties *)

\* The records that have been offered to a sink.
Offered(s) ==
    1 .. (IF \/ pc \in {"emit", "exited"} \/ pc = s
             \/ pc = "syslog" \/ (pc = "http" /\ s = "kafka")
          THEN Len(dispatched) - 1 ELSE Len(dispatched))

\* What a sink has, in the order in which it got it: sent, in hand, waiting.
Course(s) == handed[s] \o (IF inHand[s] = 0 THEN <<>> ELSE <<inHand[s]>>) \o channel[s]

\* Type correctness: no channel and no pipe holds more than its capacity.
TypeOK ==
    /\ pc \in ToSet(Stages) \cup {"loop", "exited"}
    /\ dispatched \in Seq(Kinds)
    /\ read \in 0 .. Len(stdout) /\ Len(stdout) - read <= PipeSize
    /\ \A s \in Sinks :
          /\ task[s] \in {"start", "recv", "send", "ended"}
          /\ inHand[s] \in 0 .. Len(dispatched)
          /\ (inHand[s] # 0) = (task[s] = "send")
          /\ Len(channel[s]) <= Capacity

Increasing(records) ==
    \A i, j \in DOMAIN records : i < j => records[i] < records[j]

\* A sink sends the records in the order of their dispatch and none twice,
\* whatever overflows, fails and is sent again.
OrderIsKept == \A s \in Sinks : Increasing(Course(s))

\* README, Usage: --only shapes the terminal stream alone.  Every record that
\* has been offered to a sink is sent, in hand, waiting or lost, and one of these.
EveryRecordIsAccountedFor ==
    \A s \in Sinks : /\ ToSet(Course(s)) \cup lost[s] = Offered(s)
                     /\ ToSet(Course(s)) \cap lost[s] = {}

\* The records of the wanted kind up to the one being dispatched.
Shown == {r \in 1 .. Len(dispatched) : /\ r < Len(dispatched) \/ pc # "emit"
                                       /\ Wants(dispatched[r])}

\* While the sensor runs, its terminal stream has no gap: it holds every record
\* of the wanted kind, once and in order, up to the one being dispatched.
StreamHasNoGap == Running => ToSet(stdout) = Shown /\ Increasing(stdout)

\* No sink, however slow, stalls the main loop, which alone reads the fabric: only
\* a reader that keeps the pipe of stdout and leaves it full for good does.
DispatchReturns ==
    \/ <>[](pc = "emit" /\ PipeIsFull)
    \/ (pc = "emit") ~> (pc \in {"loop", "exited"})

\* What waits for a sink that makes one attempt per record is dealt with,
\* whatever the other sinks do.
RecordsAreDealtWith ==
    \A s \in Sinks \ {"syslog"} : \A r \in 1 .. MaxRecords :
        (r \in ToSet(channel[s])) ~> (~Running \/ r \in ToSet(handed[s]) \cup lost[s])

\* Only writes that keep failing hold a record up in the syslog task, and all
\* the records behind it.
OnlyWritesHoldUp ==
    \/ []<><<TcpWriteFails>>_vars
    \/ (Running /\ inHand["syslog"] # 0) ~> (~Running \/ inHand["syslog"] = 0)
=============================================================================
