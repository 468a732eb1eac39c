---------------------------- MODULE TopicFilter ----------------------------
(***************************************************************************)
(* topic_matches (src/src/detections.rs): does a topic fall under a filter *)
(* of SensitiveTopics?  A topic and a filter are the sequences of their    *)
(* levels.  Pure.                                                          *)
(***************************************************************************)
EXTENDS Integers, Sequences

CONSTANT ReservedLevels  \* first levels that begin with "$"

LevelPasses(filter, topic, i) == filter[i] = "+" \/ filter[i] = topic[i]

\* The first n levels of the filter admit the topic, which has as many.
Passes(filter, topic, n) ==
    n <= Len(topic) /\ \A i \in 1 .. n : LevelPasses(filter, topic, i)

\* Mutant of TopicMatches: a level in front of the final "#" is passed over.
TopicMatchesParent(filter, topic) ==
    \/ filter = <<"#">> \/ filter = topic
    \/ \E i \in DOMAIN filter : filter[i] = "#" /\ Passes(filter, topic, i - 1)
    \/ Len(filter) > 2 /\ filter[Len(filter)] = "#" /\ topic = SubSeq(filter, 1, Len(filter) - 2)
    \/ Len(filter) = Len(topic) /\ Passes(filter, topic, Len(filter))

\* Level by level, until a "#" is met: the code does not ask whether it is the last.
TopicMatches(filter, topic) ==
    \/ filter = <<"#">> \/ filter = topic
    \/ \E i \in DOMAIN filter : filter[i] = "#" /\ Passes(filter, topic, i - 1)
    \/ Len(filter) = Len(topic) /\ Passes(filter, topic, Len(filter))

-----------------------------------------------------------------------------
(* How a broker matches (MQTT 3.1.1, section 4.7) *)

ValidFilter(filter) == filter # <<>> /\ \A i \in DOMAIN filter : filter[i] = "#" => i = Len(filter)

\* A topic that can be published: it has no wildcards.
ValidTopic(topic) == topic # <<>> /\ \A i \in DOMAIN topic : topic[i] \notin {"+", "#"}

\* A wildcard in front stands for no topic of the broker's own (section 4.7.2).
WildcardOnReserved(filter, topic) == filter[1] \in {"+", "#"} /\ topic[1] \in ReservedLevels

\* "a/#" stands for a and for everything below it.
Delivers(filter, topic) ==
    LET last == Len(filter)
        open == filter[last] = "#"
        named == IF open THEN last - 1 ELSE last
    IN  /\ ~WildcardOnReserved(filter, topic)
        /\ IF open THEN Len(topic) >= named ELSE Len(topic) = named
        /\ \A i \in 1 .. named : filter[i] \in {"+", topic[i]}
=============================================================================
