------------------------------ MODULE RateAlarm ------------------------------
(***************************************************************************)
(* What rate tracking promises, without queues, entries or pruning: the    *)
(* message of a key that is more than Threshold-th within one Window since *)
(* the key's last alarm raises an alarm, and no other message does.  Only  *)
(* while MaxRateKeys other keys are busy may a key that is not pass        *)
(* uncounted.                                                              *)
(*                                                                         *)
(* recent[key][age] is the number of the key's messages of that age, since *)
(* its last alarm.  A message older than Window is forgotten at once.      *)
(***************************************************************************)
EXTENDS Integers, FiniteSets

CONSTANTS Keys, MaxRateKeys, Threshold, Window

VARIABLES recent, alarms

vars == <<recent, alarms>>

Ages == 0 .. Window

NoMessages == [age \in Ages |-> 0]

\* The sum of the counts: the messages of every age, numbered.
Total(counts) == Cardinality(UNION {{age} \X (1 .. counts[age]) : age \in Ages})

Init == recent = [key \in Keys |-> NoMessages] /\ alarms = {}

Busy == {key \in Keys : Total(recent[key]) > 0}

Counts(key) == key \in Busy \/ Cardinality(Busy) < MaxRateKeys

Normal(key) ==
    /\ Counts(key)
    /\ Total(recent[key]) + 1 <= Threshold
    /\ recent' = [recent EXCEPT ![key][0] = @ + 1]
    /\ alarms' = {}

Excessive(key) ==
    /\ Counts(key)
    /\ Total(recent[key]) + 1 > Threshold
    /\ recent' = [recent EXCEPT ![key] = NoMessages]
    /\ alarms' = {key}

\* Time passes: everything ages, the oldest messages are forgotten.
Elapse ==
    /\ recent' = [key \in Keys |->
                    [age \in Ages |-> IF age = 0 THEN 0 ELSE recent[key][age - 1]]]
    /\ UNCHANGED alarms

\* The sensor does something that is no message, or none that counts.
OtherWork == alarms' = {} /\ UNCHANGED recent

Next == \/ \E key \in Keys : Normal(key) \/ Excessive(key)
        \/ Elapse
        \/ OtherWork

Spec == Init /\ [][Next]_vars
=============================================================================
