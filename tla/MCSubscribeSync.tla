-------------------------- MODULE MCSubscribeSync --------------------------
EXTENDS SubscribeSync
FiveTopics == <<"t1", "t2", "t3", "t4", "t5">>
UpToFive == {SubSeq(FiveTopics, 1, n) : n \in 0 .. 5}
TwoTopics == {SubSeq(FiveTopics, 1, 2)}
NoneOrOne == {{}} \cup {{t} : t \in {"t2", "t4", "t5"}}
OnlyValid == {{}}
=============================================================================
