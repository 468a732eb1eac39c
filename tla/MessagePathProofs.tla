------------------------- MODULE MessagePathProofs -------------------------
(***************************************************************************)
(* What is proved about the way of a message (module MessagePath), for     *)
(* every message, every text, every limit of a header: the five invariants *)
(* that the run checks on small ones.                                      *)
(*                                                                         *)
(* The parts: induction and texts; the escapes of CEF; the reader of a     *)
(* collector; the lines of records; the records of a message; the codec,   *)
(* from one cell to the whole message; topic filters; what happens on the  *)
(* wire; the inductive invariant and the theorems.                         *)
(*                                                                         *)
(* The induction theorems of the library take an operator, so induction    *)
(* is over sets here (Induct, SeqInduct), and so are the loops.            *)
(***************************************************************************)
EXTENDS MessagePath, SequenceTheorems, FiniteSetTheorems, WellFoundedInduction, TLAPS

-----------------------------------------------------------------------------
(* Induction and loops *)

\* A set of natural numbers that is not empty has a least element.
LEMMA LeastExists ==
    ASSUME NEW T \in SUBSET Nat, T # {} PROVE \E n \in T : \A m \in T : n <= m
<1>1. PICK n \in T : \A m \in T : <<m, n>> \notin OpToRel(<, Nat)
  BY WFMin, NatLessThanWellFounded, Zenon
<1>2. \A m \in T : ~(m < n)
  BY <1>1, Zenon DEF OpToRel
<1> QED BY <1>2

\* Induction over the natural numbers, for a set of numbers.
LEMMA Induct ==
    ASSUME NEW T, 0 \in T, \A n \in Nat : n \in T => n + 1 \in T PROVE Nat \subseteq T
<1> SUFFICES ASSUME Nat \ T # {} PROVE FALSE
  OBVIOUS
<1>1. PICK n \in Nat \ T : \A m \in Nat \ T : n <= m
  BY LeastExists, Nat \ T \in SUBSET Nat
<1>2. n # 0 /\ n - 1 \in Nat /\ n - 1 \in T
  BY <1>1
<1> QED BY <1>1, <1>2

\* f[i] is the state of a loop after i rounds: it starts with base, round i is step[i].
IsRun(f, S, base, n, step) ==
    f \in [0 .. n -> S] /\ f[0] = base /\ \A i \in 1 .. n : f[i] = step[i][f[i - 1]]

\* A loop of n rounds over a state of S has a run: what a recursive function of the
\* number of rounds denotes exists.
LEMMA LoopRuns ==
    ASSUME NEW S, NEW base \in S, NEW n \in Nat, NEW step \in [1 .. n -> [S -> S]]
    PROVE  \E f : IsRun(f, S, base, n, step)
<1> DEFINE Good(m, f) == f[0] = base /\ \A i \in 1 .. m : f[i] = step[i][f[i - 1]]
           Runs(m) == \E f \in [0 .. m -> S] : Good(m, f)
           T == {m \in Nat : m <= n => Runs(m)}
<1>1. Runs(0)
  <2> DEFINE f == [i \in 0 .. 0 |-> base]
  <2>1. f \in [0 .. 0 -> S]
    OBVIOUS
  <2>2. f[0] = base
    OBVIOUS
  <2> HIDE DEF f
  <2>3. Good(0, f)
    BY <2>2
  <2> QED BY <2>1, <2>3
<1>2. ASSUME NEW m \in Nat, Runs(m), m + 1 <= n PROVE Runs(m + 1)
  <2>1. PICK f \in [0 .. m -> S] : Good(m, f)
    BY <1>2
  <2> DEFINE next == step[m + 1][f[m]]
             g == [i \in 0 .. m + 1 |-> IF i <= m THEN f[i] ELSE next]
  <2>2. next \in S
    BY <1>2
  <2> HIDE DEF next
  <2>3. g \in [0 .. m + 1 -> S]
    BY <2>2
  <2>4. g[0] = base
    BY <2>1
  <2>5. ASSUME NEW i \in 1 .. m + 1 PROVE g[i] = step[i][g[i - 1]]
    <3>1. CASE i <= m
      BY <2>1, <3>1
    <3>2. CASE i = m + 1
      BY <3>2 DEF next
    <3> QED BY <3>1, <3>2
  <2> HIDE DEF g
  <2>6. Good(m + 1, g)
    BY <2>4, <2>5
  <2> QED BY <2>3, <2>6
<1> HIDE DEF Runs
<1>3. 0 \in T /\ \A m \in Nat : m \in T => m + 1 \in T
  BY <1>1, <1>2
<1>4. n \in T
  <2> HIDE DEF T
  <2> QED BY <1>3, Induct
<1>5. Runs(n)
  BY <1>4
<1> QED BY <1>5 DEF Runs, IsRun

\* What holds of the first state of a loop and is preserved by every round holds of all:
\* the states i in T.
LEMMA LoopInvariant ==
    ASSUME NEW n \in Nat, NEW T, 0 \in T, \A i \in 1 .. n : i - 1 \in T => i \in T
    PROVE  0 .. n \subseteq T
<1> DEFINE U == {m \in Nat : m <= n => m \in T}
<1>1. 0 \in U
  OBVIOUS
<1>2. ASSUME NEW m \in Nat, m \in U PROVE m + 1 \in U
  <2> SUFFICES ASSUME m + 1 <= n PROVE m + 1 \in T
    OBVIOUS
  <2>1. m + 1 \in 1 .. n /\ (m + 1) - 1 \in T
    BY <1>2
  <2> QED BY <2>1
<1>3. Nat \subseteq U
  <2> HIDE DEF U
  <2> QED BY <1>1, <1>2, Induct
<1> QED BY <1>3

\* Induction over the sequences of a set, for a set of sequences.
LEMMA SeqInduct ==
    ASSUME NEW S, NEW T, <<>> \in T,
           \A s \in Seq(S), x \in S : s \in T => Append(s, x) \in T
    PROVE  Seq(S) \subseteq T
<1> DEFINE U == {n \in Nat : \A s \in Seq(S) : Len(s) = n => s \in T}
<1>1. 0 \in U
  <2>1. ASSUME NEW s \in Seq(S), Len(s) = 0 PROVE s = <<>>
    BY <2>1
  <2> QED BY <2>1
<1>2. ASSUME NEW n \in Nat, n \in U PROVE n + 1 \in U
  <2> SUFFICES ASSUME NEW s \in Seq(S), Len(s) = n + 1 PROVE s \in T
    OBVIOUS
  <2>1. s # <<>>
    OBVIOUS
  <2>2. PICK r \in Seq(S), x \in S : s = Append(r, x)
    BY <2>1, SequenceEmptyOrAppend
  <2>3. Len(r) = n
    BY <2>2, AppendProperties
  <2> QED BY <1>2, <2>2, <2>3
<1>3. Nat \subseteq U
  <2> HIDE DEF U
  <2> QED BY <1>1, <1>2, Induct
<1> QED BY <1>3

-----------------------------------------------------------------------------
(* Texts that are put together from pieces *)

\* How a text grows, piece by piece.
Grows(f, S, seqs, n) ==
    f \in [0 .. n -> Seq(S)] /\ f[0] = <<>> /\ \A i \in 1 .. n : f[i] = f[i - 1] \o seqs[i]

\* FlattenSeq is computed by growing a text.
LEMMA FlattenGrows ==
    ASSUME NEW S, NEW seqs \in Seq(Seq(S))
    PROVE  \E f : Grows(f, S, seqs, Len(seqs)) /\ FlattenSeq(seqs) = f[Len(seqs)]
<1> DEFINE n == Len(seqs)
           step == [i \in 1 .. n |-> [t \in Seq(S) |-> t \o seqs[i]]]
           body(g) == [i \in 1 .. n |-> IF i = 1 THEN seqs[i] ELSE g[i - 1] \o seqs[i]]
           flatten == CHOOSE g : g = body(g)
<1>1. n \in Nat /\ \A i \in 1 .. n : seqs[i] \in Seq(S)
  BY ElementOfSeq
<1>2. PICK f : Grows(f, S, seqs, n)
  <2>1. step \in [1 .. n -> [Seq(S) -> Seq(S)]]
    BY <1>1, ConcatProperties
  <2> DEFINE A == Seq(S)
             base == <<>>
  <2>2. base \in A /\ step \in [1 .. n -> [A -> A]]
    BY <2>1
  <2> HIDE DEF step, A, base, n
  <2>3. PICK f : IsRun(f, A, base, n, step)
    BY <1>1, <2>2, LoopRuns
  <2>4. \A i \in 1 .. n : f[i - 1] \in A
    BY <1>1, <2>3 DEF IsRun
  <2>5. \A i \in 1 .. n : f[i] = f[i - 1] \o seqs[i]
    BY <2>3, <2>4 DEF IsRun, step, A
  <2> QED BY <2>3, <2>5 DEF IsRun, Grows, A, base
<1>0. \A t \in Seq(S) : <<>> \o t = t
  BY ConcatEmptySeq
<1> HIDE DEF n
<1> DEFINE g == [i \in 1 .. n |-> f[i]]
<1>3. ASSUME NEW i \in 1 .. n PROVE g[i] = IF i = 1 THEN seqs[i] ELSE g[i - 1] \o seqs[i]
  <2>1. f[i] = f[i - 1] \o seqs[i]
    BY <1>2 DEF Grows
  <2>2. CASE i = 1
    <3>0. f[0] = <<>> /\ i - 1 = 0
      BY <1>2, <2>2 DEF Grows
    <3>1. f[i] = <<>> \o seqs[i]
      BY <2>1, <3>0
    <3> QED BY <1>0, <1>1, <2>2, <3>1
  <2>3. CASE i # 1
    <3>1. i - 1 \in 1 .. n
      BY <1>1, <2>3
    <3>2. g[i] = f[i] /\ g[i - 1] = f[i - 1]
      BY <3>1
    <3> HIDE DEF g
    <3> QED BY <2>1, <2>3, <3>2
  <2> QED BY <2>2, <2>3
<1>4. g = body(g)
  <2> HIDE DEF g
  <2>1. g = [i \in 1 .. n |-> g[i]]
    BY DEF g
  <2> QED BY <1>3, <2>1
<1>5. flatten = body(flatten)
  <2> HIDE DEF body, g
  <2> QED BY <1>4
<1>6. \A i \in 1 .. n : flatten[i] = IF i = 1 THEN seqs[i] ELSE flatten[i - 1] \o seqs[i]
  <2> HIDE DEF flatten
  <2> QED BY <1>5
<1>7. FlattenSeq(seqs) = IF n = 0 THEN seqs ELSE flatten[n]
  BY DEF FlattenSeq, n
<1>8. CASE n = 0
  <2>1. seqs = <<>>
    BY <1>8 DEF n
  <2> QED BY <1>2, <1>7, <1>8, <2>1 DEF Grows, n
<1>9. CASE n # 0
  <2> HIDE DEF flatten
  <2> DEFINE T == {i \in 0 .. n : i # 0 => flatten[i] = f[i]}
  <2>1. ASSUME NEW i \in 1 .. n, i - 1 \in T PROVE i \in T
    <3>1. f[i] = f[i - 1] \o seqs[i]
      BY <1>2 DEF Grows
    <3>2. flatten[i] = f[i]
      <4>1. CASE i = 1
        <5>0. f[0] = <<>> /\ i - 1 = 0
          BY <1>2, <4>1 DEF Grows
        <5>1. f[i] = <<>> \o seqs[i]
          BY <3>1, <5>0
        <5> QED BY <1>0, <1>1, <1>6, <4>1, <5>1
      <4>2. CASE i # 1
        <5>1. i - 1 # 0 /\ flatten[i - 1] = f[i - 1]
          BY <2>1, <4>2
        <5> QED BY <1>6, <3>1, <4>2, <5>1
      <4> QED BY <4>1, <4>2
    <3> QED BY <1>1, <3>2
  <2>2. 0 .. n \subseteq T
    <3>1. 0 \in T
      BY <1>1
    <3> HIDE DEF T
    <3> QED BY <1>1, <2>1, <3>1, LoopInvariant
  <2>3. flatten[n] = f[n]
    BY <1>1, <1>9, <2>2
  <2> QED BY <1>2, <1>7, <1>9, <2>3 DEF n
<1> QED BY <1>8, <1>9

\* FlattenSeq: its type, and what one piece more adds.
LEMMA FlattenType ==
    ASSUME NEW S, NEW seqs \in Seq(Seq(S)) PROVE FlattenSeq(seqs) \in Seq(S)
<1>1. PICK f : Grows(f, S, seqs, Len(seqs)) /\ FlattenSeq(seqs) = f[Len(seqs)]
  BY FlattenGrows
<1> QED BY <1>1 DEF Grows

\* One piece more makes the text longer by that piece.
LEMMA FlattenAppend ==
    ASSUME NEW S, NEW seqs \in Seq(Seq(S)), NEW piece \in Seq(S)
    PROVE  FlattenSeq(Append(seqs, piece)) = FlattenSeq(seqs) \o piece
<1> DEFINE n == Len(seqs)
           all == Append(seqs, piece)
<1>1. all \in Seq(Seq(S)) /\ Len(all) = n + 1 /\ all[n + 1] = piece
  OBVIOUS
<1>2. \A i \in 1 .. n : all[i] = seqs[i]
  OBVIOUS
<1>3. PICK f : Grows(f, S, seqs, n) /\ FlattenSeq(seqs) = f[n]
  BY FlattenGrows
<1> HIDE DEF all
<1>4. PICK g : Grows(g, S, all, n + 1) /\ FlattenSeq(all) = g[n + 1]
  BY <1>1, FlattenGrows
<1>5. n \in Nat
  OBVIOUS
<1> HIDE DEF n
<1> DEFINE T == {i \in 0 .. n : g[i] = f[i]}
<1>6. ASSUME NEW i \in 1 .. n, i - 1 \in T PROVE i \in T
  <2>1. i \in 1 .. n + 1 /\ i \in 0 .. n
    BY <1>5
  <2> QED BY <1>2, <1>3, <1>4, <1>6, <2>1 DEF Grows
<1>7. 0 \in T
  BY <1>3, <1>4, <1>5 DEF Grows
<1>8. 0 .. n \subseteq T
  <2> HIDE DEF T
  <2> QED BY <1>5, <1>6, <1>7, LoopInvariant
<1>9. g[n] = f[n]
  BY <1>5, <1>8
<1>10. g[n + 1] = g[n] \o piece
  <2>1. n + 1 \in 1 .. n + 1 /\ (n + 1) - 1 = n
    BY <1>5
  <2>2. g[n + 1] = g[(n + 1) - 1] \o all[n + 1]
    BY <1>4, <2>1 DEF Grows
  <2> QED BY <1>1, <2>1, <2>2
<1> QED BY <1>3, <1>4, <1>9, <1>10 DEF all

\* No pieces make no text.
LEMMA FlattenEmpty == FlattenSeq(<<>>) = <<>>
BY DEF FlattenSeq

\* One piece is the text.
LEMMA FlattenOne ==
    ASSUME NEW S, NEW piece \in Seq(S) PROVE FlattenSeq(<<piece>>) = piece
<1>1. <<piece>> = Append(<<>>, piece)
  OBVIOUS
<1>2. <<>> \in Seq(Seq(S))
  OBVIOUS
<1>3. FlattenSeq(Append(<<>>, piece)) = FlattenSeq(<<>>) \o piece
  BY <1>2, FlattenAppend
<1>4. <<>> \o piece = piece
  BY ConcatEmptySeq
<1> QED BY <1>1, <1>3, <1>4, FlattenEmpty

\* The pieces of two texts make the one and then the other.
LEMMA FlattenConcat ==
    ASSUME NEW S, NEW s \in Seq(Seq(S)), NEW t \in Seq(Seq(S))
    PROVE  FlattenSeq(s \o t) = FlattenSeq(s) \o FlattenSeq(t)
<1> DEFINE R == Seq(S)
           T == {r \in Seq(R) : FlattenSeq(s \o r) = FlattenSeq(s) \o FlattenSeq(r)}
<1>1. <<>> \in T
  BY FlattenEmpty, FlattenType, ConcatEmptySeq
<1>2. ASSUME NEW r \in Seq(R), NEW piece \in R, r \in T PROVE Append(r, piece) \in T
  <2>1. s \o Append(r, piece) = Append(s \o r, piece) /\ s \o r \in Seq(R)
    OBVIOUS
  <2>2. FlattenSeq(s \o Append(r, piece)) = FlattenSeq(s \o r) \o piece
    BY <2>1, FlattenAppend
  <2>3. FlattenSeq(Append(r, piece)) = FlattenSeq(r) \o piece
    BY FlattenAppend
  <2>4. FlattenSeq(s) \in R /\ FlattenSeq(r) \in R
    BY FlattenType
  <2>5. (FlattenSeq(s) \o FlattenSeq(r)) \o piece = FlattenSeq(s) \o (FlattenSeq(r) \o piece)
    BY <2>4, ConcatAssociative
  <2>6. FlattenSeq(s \o r) = FlattenSeq(s) \o FlattenSeq(r)
    BY <1>2
  <2>7. FlattenSeq(s \o Append(r, piece)) = FlattenSeq(s) \o FlattenSeq(Append(r, piece))
    BY <2>2, <2>3, <2>5, <2>6
  <2>8. Append(r, piece) \in Seq(R)
    OBVIOUS
  <2> QED BY <2>7, <2>8
<1>3. Seq(R) \subseteq T
  <2> HIDE DEF T, R
  <2> QED BY <1>1, <1>2, SeqInduct
<1> QED BY <1>3

\* Every element of a sequence replaced by the text h has for it.
Each(text, h) == FlattenSeq([i \in DOMAIN text |-> h[text[i]]])

\* The texts that h has for the elements of a sequence are a sequence of texts.
LEMMA EachPieces ==
    ASSUME NEW S, NEW R, NEW h \in [S -> Seq(R)], NEW text \in Seq(S)
    PROVE  [i \in DOMAIN text |-> h[text[i]]] \in Seq(Seq(R))
<1>1. DOMAIN text = 1 .. Len(text) /\ Len(text) \in Nat
  OBVIOUS
<1>2. \A i \in 1 .. Len(text) : h[text[i]] \in Seq(R)
  BY ElementOfSeq
<1> DEFINE A == Seq(R)
           n == Len(text)
           e(i) == h[text[i]]
<1>3. n \in Nat /\ \A i \in 1 .. n : e(i) \in A
  BY <1>1, <1>2
<1> HIDE DEF A, n, e
<1>4. [i \in 1 .. n |-> e(i)] \in Seq(A)
  BY <1>3
<1> QED BY <1>1, <1>4 DEF A, n, e

\* Each: its type, and what it makes of one element, of none and of two texts joined.
LEMMA EachType ==
    ASSUME NEW S, NEW R, NEW h \in [S -> Seq(R)], NEW text \in Seq(S)
    PROVE  Each(text, h) \in Seq(R)
<1> DEFINE pieces == [i \in DOMAIN text |-> h[text[i]]]
<1>1. pieces \in Seq(Seq(R))
  BY EachPieces
<1>2. Each(text, h) = FlattenSeq(pieces)
  BY DEF Each
<1> HIDE DEF pieces
<1> QED BY <1>1, <1>2, FlattenType

\* Nothing is replaced in the empty sequence.
LEMMA EachEmpty ==
    ASSUME NEW h PROVE Each(<<>>, h) = <<>>
<1>1. [i \in DOMAIN <<>> |-> h[<<>>[i]]] = <<>>
  OBVIOUS
<1> QED BY <1>1, FlattenEmpty DEF Each

\* A sequence of one element becomes the text of that element.
LEMMA EachOne ==
    ASSUME NEW S, NEW R, NEW h \in [S -> Seq(R)], NEW x \in S
    PROVE  Each(<<x>>, h) = h[x]
<1>1. [i \in DOMAIN <<x>> |-> h[<<x>>[i]]] = <<h[x]>>
  OBVIOUS
<1> QED BY <1>1, FlattenOne DEF Each

\* Two sequences can be replaced one after the other.
LEMMA EachConcat ==
    ASSUME NEW S, NEW R, NEW h \in [S -> Seq(R)], NEW text \in Seq(S), NEW more \in Seq(S)
    PROVE  Each(text \o more, h) = Each(text, h) \o Each(more, h)
<1> DEFINE p(s) == [i \in DOMAIN s |-> h[s[i]]]
<1>1. p(text) \in Seq(Seq(R)) /\ p(more) \in Seq(Seq(R))
  BY EachPieces
<1>2. text \o more \in Seq(S) /\ p(text \o more) \in Seq(Seq(R))
  BY EachPieces
<1>3. Len(p(text \o more)) = Len(p(text) \o p(more))
  <2>1. /\ Len(p(text \o more)) = Len(text \o more)
        /\ Len(p(text)) = Len(text) /\ Len(p(more)) = Len(more)
    BY <1>2
  <2>2. Len(p(text) \o p(more)) = Len(p(text)) + Len(p(more))
    <3> HIDE DEF p
    <3> QED BY <1>1, ConcatProperties
  <2> HIDE DEF p
  <2> QED BY <2>1, <2>2, ConcatProperties
<1>4. ASSUME NEW i \in 1 .. Len(p(text \o more))
      PROVE  p(text \o more)[i] = (p(text) \o p(more))[i]
  <2>1. CASE i <= Len(text)
    BY <2>1
  <2>2. CASE i > Len(text)
    BY <2>2
  <2> QED BY <2>1, <2>2
<1>5. p(text \o more) = p(text) \o p(more)
  <2>1. p(text) \o p(more) \in Seq(Seq(R))
    BY <1>1, ConcatProperties
  <2> HIDE DEF p
  <2> QED BY <1>2, <1>3, <1>4, <2>1, SeqEqual
<1> QED BY <1>1, <1>5, FlattenConcat DEF Each

\* A pair is what its parts are joined.
LEMMA PairIsConcat ==
    ASSUME NEW S, NEW c \in S, NEW d \in S PROVE <<c, d>> = <<c>> \o <<d>>
<1> DEFINE x == <<c, d>>
           y == <<c>> \o <<d>>
<1>1. \A i \in 1 .. 2 : x[i] = y[i]
  <2>1. y[1] = c /\ y[2] = d
    OBVIOUS
  <2> QED BY <2>1
<1>2. x \in Seq(S) /\ Len(x) = 2
  OBVIOUS
<1>3. y \in Seq(S) /\ Len(y) = 2
  OBVIOUS
<1> HIDE DEF x, y
<1>4. x = y
  BY <1>1, <1>2, <1>3, SeqEqual
<1> QED BY <1>4 DEF x, y

-----------------------------------------------------------------------------
(* The functions of str *)

\* The characters that mean something to CEF or to the collector.
LEMMA CharsOfCef ==
    /\ {Backslash, "=", " ", "n", "r", "LF", "CR", "TAB", "ESC"} \subseteq Char
    /\ Control \subseteq Char /\ "LF" \in Control /\ "CR" \in Control
    /\ {Backslash, "=", "n", "r", " "} \cap Control = {}
    /\ Backslash \notin {"=", " ", "LF", "CR", "n", "r"}
<1>1. {Backslash, "=", " ", "n", "r", "LF", "CR", "TAB", "ESC"} \subseteq Char
  BY DEF Char, Words, Backslash
<1>2. Control \subseteq Char /\ "LF" \in Control /\ "CR" \in Control
  BY <1>1 DEF Control
<1>3. {Backslash, "=", "n", "r", " "} \cap Control = {}
  BY DEF Control, Backslash
<1>4. Backslash \notin {"=", " ", "LF", "CR", "n", "r"}
  BY DEF Backslash
<1> QED BY <1>1, <1>2, <1>3, <1>4

\* The greatest element of a set of numbers that has an upper bound.
LEMMA MaxIs ==
    ASSUME NEW S \in SUBSET Int, NEW m \in S, \A x \in S : x <= m PROVE Max(S) = m
<1> DEFINE G(x) == \A y \in S : x >= y
<1>1. G(m)
  OBVIOUS
<1>2. \A x \in S : G(x) => x = m
  OBVIOUS
<1>3. Max(S) = CHOOSE x \in S : G(x)
  BY DEF Max
<1> HIDE DEF G
<1> QED BY <1>1, <1>2, <1>3

\* A bounded set of numbers that is not empty has a maximum.
LEMMA MaxExists ==
    ASSUME NEW n \in Nat, NEW S \in SUBSET (0 .. n), S # {}
    PROVE  Max(S) \in S /\ \A x \in S : x <= Max(S)
<1> DEFINE T == {n - x : x \in S}
<1>0. \A x \in S : x \in Int /\ n - x \in Nat
  OBVIOUS
<1>1. T \in SUBSET Nat /\ T # {}
  BY <1>0
<1>2. PICK k \in T : \A j \in T : k <= j
  <2> HIDE DEF T
  <2> QED BY <1>1, LeastExists
<1>3. PICK m \in S : k = n - m
  BY <1>2
<1>4. \A x \in S : x <= m
  BY <1>2, <1>3
<1>5. S \in SUBSET Int
  OBVIOUS
<1> QED BY <1>3, <1>4, <1>5, MaxIs

\* WithoutLast drops the characters at the end, one by one.
LEMMA WithoutLastText ==
    ASSUME NEW text \in Text, NEW chars
    PROVE  /\ WithoutLast(text, chars) \in Text
           /\ WithoutLast(<<>>, chars) = <<>>
           /\ \A c \in Char : WithoutLast(Append(text, c), chars)
                                  = IF c \in chars THEN WithoutLast(text, chars) ELSE Append(text, c)
<1> DEFINE left(t) == {i \in DOMAIN t : t[i] \notin chars} \cup {0}
           n == Len(text)
<1>1. n \in Nat /\ DOMAIN text = 1 .. n
  BY DEF Text
<1>2. Max(left(text)) \in 0 .. n /\ \A i \in left(text) : i <= Max(left(text))
  <2>1. left(text) \in SUBSET (0 .. n) /\ left(text) # {}
    BY <1>1
  <2> HIDE DEF left, n
  <2> QED BY <1>1, <2>1, MaxExists
<1>3. WithoutLast(text, chars) \in Text
  <2>1. \A i \in 1 .. Max(left(text)) : text[i] \in Char
    BY <1>1, <1>2 DEF Text
  <2> HIDE DEF left
  <2> DEFINE m == Max(left(text))
  <2>2. SubSeq(text, 1, m) \in Seq(Char)
    <3> HIDE DEF m
    <3>1. m \in Int /\ \A i \in 1 .. m : text[i] \in Char
      BY <1>2, <2>1 DEF m
    <3> QED BY <3>1, SubSeqProperties
  <2> QED BY <2>2 DEF WithoutLast, left, Text
<1>4. WithoutLast(<<>>, chars) = <<>>
  <2>1. left(<<>>) = {0}
    OBVIOUS
  <2>2. Max({0}) = 0
    BY MaxIs
  <2> QED BY <2>1, <2>2, SubSeqEmpty DEF WithoutLast
<1>5. ASSUME NEW c \in Char, c \in chars
      PROVE  WithoutLast(Append(text, c), chars) = WithoutLast(text, chars)
  <2> DEFINE longer == Append(text, c)
             m == Max(left(text))
  <2>1. /\ DOMAIN longer = 1 .. n + 1 /\ longer[n + 1] = c
        /\ \A i \in 1 .. n : longer[i] = text[i]
    BY <1>1, AppendProperties DEF Text
  <2> HIDE DEF longer, n
  <2>2. left(longer) = left(text)
    BY <1>1, <1>5, <2>1
  <2>3. SubSeq(longer, 1, m) = SubSeq(text, 1, m)
    <3>1. m \in 0 .. n
      BY <1>2
    <3> HIDE DEF m
    <3>2. \A i \in 1 .. m : longer[i] = text[i] /\ text[i] \in Char
      BY <1>1, <2>1, <3>1 DEF Text
    <3> QED BY <3>1, <3>2, <1>1
  <2> QED BY <2>2, <2>3 DEF WithoutLast, longer
<1>6. ASSUME NEW c \in Char, c \notin chars
      PROVE  WithoutLast(Append(text, c), chars) = Append(text, c)
  <2> DEFINE longer == Append(text, c)
  <2>1. /\ DOMAIN longer = 1 .. n + 1 /\ longer[n + 1] = c
        /\ longer \in Seq(Char) /\ Len(longer) = n + 1
    BY <1>1, AppendProperties DEF Text
  <2> HIDE DEF longer, n
  <2>2. n + 1 \in left(longer) /\ left(longer) \in SUBSET Int /\ \A i \in left(longer) : i <= n + 1
    BY <1>1, <1>6, <2>1
  <2>3. Max(left(longer)) = n + 1
    <3> HIDE DEF left
    <3> QED BY <2>2, MaxIs
  <2>4. SubSeq(longer, 1, n + 1) = longer
    BY <2>1, SubSeqFull
  <2> QED BY <2>3, <2>4 DEF WithoutLast, longer
<1> QED BY <1>3, <1>4, <1>5, <1>6

\* str::replace and the filter are done character by character.
LEMMA ReplaceIsEach ==
    ASSUME NEW char, NEW by \in Text
    PROVE  \E h \in [Char -> Text] :
             /\ \A c \in Char : h[c] = IF c = char THEN by ELSE <<c>>
             /\ \A t \in Text : Replace(t, char, by) = Each(t, h)
<1> DEFINE h == [c \in Char |-> IF c = char THEN by ELSE <<c>>]
<1>1. h \in [Char -> Text] /\ \A c \in Char : h[c] = IF c = char THEN by ELSE <<c>>
  BY DEF Text
<1>2. ASSUME NEW t \in Text PROVE Replace(t, char, by) = Each(t, h)
  <2>1. \A i \in DOMAIN t : h[t[i]] = IF t[i] = char THEN by ELSE <<t[i]>>
    BY DEF Text
  <2> HIDE DEF h
  <2>2. [i \in DOMAIN t |-> IF t[i] = char THEN by ELSE <<t[i]>>] = [i \in DOMAIN t |-> h[t[i]]]
    BY <2>1
  <2> QED BY <2>2 DEF Replace, Each
<1> HIDE DEF h
<1> QED BY <1>1, <1>2

\* Replacing a character in a text (str::replace) gives a text.
LEMMA ReplaceText ==
    ASSUME NEW char, NEW by \in Text, NEW text \in Text
    PROVE  Replace(text, char, by) \in Text
<1>1. PICK h \in [Char -> Text] : Replace(text, char, by) = Each(text, h)
  BY ReplaceIsEach
<1>2. text \in Seq(Char) /\ h \in [Char -> Seq(Char)]
  BY <1>1 DEF Text
<1>3. Each(text, h) \in Seq(Char)
  BY <1>2, EachType
<1> QED BY <1>1, <1>3 DEF Text

\* There is nothing to replace in the empty text.
LEMMA ReplaceEmpty ==
    ASSUME NEW char, NEW by \in Text PROVE Replace(<<>>, char, by) = <<>>
<1>1. <<>> \in Text
  BY DEF Text
<1>2. PICK h \in [Char -> Text] : Replace(<<>>, char, by) = Each(<<>>, h)
  BY <1>1, ReplaceIsEach
<1> QED BY <1>2, EachEmpty

\* What replacing makes of one character.
LEMMA ReplaceOne ==
    ASSUME NEW char, NEW by \in Text, NEW c \in Char
    PROVE  Replace(<<c>>, char, by) = IF c = char THEN by ELSE <<c>>
<1>1. <<c>> \in Text
  BY DEF Text
<1>2. PICK h \in [Char -> Text] :
        h[c] = (IF c = char THEN by ELSE <<c>>) /\ Replace(<<c>>, char, by) = Each(<<c>>, h)
  BY <1>1, ReplaceIsEach
<1>3. Each(<<c>>, h) = h[c]
  BY EachOne DEF Text
<1> QED BY <1>2, <1>3

\* Replacing works character by character: on two texts one after the other.
LEMMA ReplaceConcat ==
    ASSUME NEW char, NEW by \in Text, NEW s \in Text, NEW t \in Text
    PROVE  Replace(s \o t, char, by) = Replace(s, char, by) \o Replace(t, char, by)
<1>1. s \o t \in Text
  BY ConcatProperties DEF Text
<1>2. PICK h \in [Char -> Text] :
        /\ Replace(s, char, by) = Each(s, h) /\ Replace(t, char, by) = Each(t, h)
        /\ Replace(s \o t, char, by) = Each(s \o t, h)
  BY <1>1, ReplaceIsEach
<1>3. Each(s \o t, h) = Each(s, h) \o Each(t, h)
  BY EachConcat DEF Text
<1> QED BY <1>2, <1>3

\* Of two characters of which none is replaced, nothing is.
LEMMA ReplacePair ==
    ASSUME NEW char, NEW by \in Text, NEW c \in Char, NEW d \in Char, c # char, d # char
    PROVE  Replace(<<c, d>>, char, by) = <<c, d>>
<1>1. <<c>> \in Text /\ <<d>> \in Text
  BY DEF Text
<1>2. <<c, d>> = <<c>> \o <<d>>
  BY PairIsConcat
<1>3. Replace(<<c>>, char, by) = <<c>> /\ Replace(<<d>>, char, by) = <<d>>
  BY ReplaceOne
<1>4. Replace(<<c>> \o <<d>>, char, by) = Replace(<<c>>, char, by) \o Replace(<<d>>, char, by)
  BY <1>1, ReplaceConcat
<1> QED BY <1>2, <1>3, <1>4

\* Leaving out characters is a replacement of each character.
LEMMA WithoutIsEach ==
    ASSUME NEW chars
    PROVE  \E h \in [Char -> Seq(Char \ chars)] :
             /\ \A c \in Char : h[c] = IF c \in chars THEN <<>> ELSE <<c>>
             /\ \A t \in Text : Without(t, chars) = Each(t, h)
<1> DEFINE S == Char \ chars
           h == [c \in Char |-> IF c \in chars THEN <<>> ELSE <<c>>]
<1>1. /\ h \in [Char -> Seq(S)]
      /\ \A c \in Char : h[c] = IF c \in chars THEN <<>> ELSE <<c>>
  <2>1. \A c \in Char : c \notin chars => c \in S
    OBVIOUS
  <2> HIDE DEF S
  <2>2. \A c \in Char : (IF c \in chars THEN <<>> ELSE <<c>>) \in Seq(S)
    BY <2>1
  <2> QED BY <2>2
<1>2. ASSUME NEW t \in Text PROVE Without(t, chars) = Each(t, h)
  <2>1. \A i \in DOMAIN t : h[t[i]] = IF t[i] \in chars THEN <<>> ELSE <<t[i]>>
    BY DEF Text
  <2> HIDE DEF h
  <2>2. [i \in DOMAIN t |-> IF t[i] \in chars THEN <<>> ELSE <<t[i]>>] = [i \in DOMAIN t |-> h[t[i]]]
    BY <2>1
  <2> QED BY <2>2 DEF Without, Each
<1> HIDE DEF h
<1> QED BY <1>1, <1>2

\* No character that is left out remains.
LEMMA WithoutText ==
    ASSUME NEW chars, NEW text \in Text PROVE Without(text, chars) \in Seq(Char \ chars)
<1>1. PICK h \in [Char -> Seq(Char \ chars)] : Without(text, chars) = Each(text, h)
  BY WithoutIsEach
<1> QED BY <1>1, EachType DEF Text

\* The empty text loses nothing.
LEMMA WithoutEmpty ==
    ASSUME NEW chars PROVE Without(<<>>, chars) = <<>>
<1>1. <<>> \in Text
  BY DEF Text
<1>2. PICK h \in [Char -> Seq(Char \ chars)] : Without(<<>>, chars) = Each(<<>>, h)
  BY <1>1, WithoutIsEach
<1> QED BY <1>2, EachEmpty

\* What remains of one character.
LEMMA WithoutOne ==
    ASSUME NEW chars, NEW c \in Char
    PROVE  Without(<<c>>, chars) = IF c \in chars THEN <<>> ELSE <<c>>
<1>1. <<c>> \in Text
  BY DEF Text
<1>2. PICK h \in [Char -> Seq(Char \ chars)] :
        /\ \A x \in Char : h[x] = IF x \in chars THEN <<>> ELSE <<x>>
        /\ \A t \in Text : Without(t, chars) = Each(t, h)
  BY WithoutIsEach, Zenon
<1>3. Each(<<c>>, h) = h[c]
  BY EachOne
<1> QED BY <1>1, <1>2, <1>3

\* Characters can be left out of two texts one after the other.
LEMMA WithoutConcat ==
    ASSUME NEW chars, NEW s \in Text, NEW t \in Text
    PROVE  Without(s \o t, chars) = Without(s, chars) \o Without(t, chars)
<1>1. s \o t \in Text
  BY ConcatProperties DEF Text
<1>2. PICK h \in [Char -> Seq(Char \ chars)] : \A x \in Text : Without(x, chars) = Each(x, h)
  BY WithoutIsEach, Zenon
<1>3. Each(s \o t, h) = Each(s, h) \o Each(t, h)
  BY EachConcat DEF Text
<1> QED BY <1>1, <1>2, <1>3

\* Two characters that are not left out remain.
LEMMA WithoutPair ==
    ASSUME NEW chars, NEW c \in Char, NEW d \in Char, c \notin chars, d \notin chars
    PROVE  Without(<<c, d>>, chars) = <<c, d>>
<1>1. <<c>> \in Text /\ <<d>> \in Text
  BY DEF Text
<1>2. <<c, d>> = <<c>> \o <<d>>
  BY PairIsConcat
<1>3. Without(<<c>>, chars) = <<c>> /\ Without(<<d>>, chars) = <<d>>
  BY WithoutOne
<1>4. Without(<<c>> \o <<d>>, chars) = Without(<<c>>, chars) \o Without(<<d>>, chars)
  BY <1>1, WithoutConcat
<1> QED BY <1>2, <1>3, <1>4

-----------------------------------------------------------------------------
(* What is escaped *)

Escaped(c) == <<Backslash, c>>

EscapeChar(c) == IF c = Backslash THEN Escaped(Backslash)
                 ELSE IF c = "=" THEN Escaped("=")
                 ELSE IF c = "LF" THEN Escaped("n")
                 ELSE IF c = "CR" THEN Escaped("r")
                 ELSE IF c \in Control THEN <<>> ELSE <<c>>

\* A character behind a backslash is a text.
LEMMA EscapedText ==
    ASSUME NEW c \in Char PROVE Escaped(c) \in Text
<1>1. Backslash \in Char
  BY CharsOfCef
<1> QED BY <1>1 DEF Escaped, Text

\* The passes of escape_cef_extension.
Pass1(text) == Replace(text, Backslash, Escaped(Backslash))
Pass2(text) == Replace(Pass1(text), "=", Escaped("="))
Pass3(text) == Replace(Pass2(text), "LF", Escaped("n"))
Pass4(text) == Replace(Pass3(text), "CR", Escaped("r"))

\* escape_cef_extension is four replacements, and control characters left out at the end.
LEMMA EscapePasses ==
    ASSUME NEW text \in Text
    PROVE  /\ Escape(text) = Without(Pass4(text), Control)
           /\ Pass1(text) \in Text /\ Pass2(text) \in Text
           /\ Pass3(text) \in Text /\ Pass4(text) \in Text
<1>1. Backslash \in Char /\ "n" \in Char /\ "r" \in Char /\ "=" \in Char
  BY CharsOfCef
<1>2. /\ Escaped(Backslash) \in Text /\ Escaped("=") \in Text
      /\ Escaped("n") \in Text /\ Escaped("r") \in Text
  BY <1>1, EscapedText
<1>3. Escape(text) = Without(Pass4(text), Control)
  BY DEF Escape, Escaped, Pass1, Pass2, Pass3, Pass4
<1>4. Pass1(text) \in Text
  BY <1>2, ReplaceText DEF Pass1
<1>5. Pass2(text) \in Text
  BY <1>2, <1>4, ReplaceText DEF Pass2
<1>6. Pass3(text) \in Text
  BY <1>2, <1>5, ReplaceText DEF Pass3
<1>7. Pass4(text) \in Text
  BY <1>2, <1>6, ReplaceText DEF Pass4
<1> QED BY <1>3, <1>4, <1>5, <1>6, <1>7

\* Escaping works character by character, although it is done in passes over the text.
LEMMA EscapeConcat ==
    ASSUME NEW s \in Text, NEW t \in Text PROVE Escape(s \o t) = Escape(s) \o Escape(t)
<1>1. Backslash \in Char /\ "n" \in Char /\ "r" \in Char /\ "=" \in Char
  BY CharsOfCef
<1>2. /\ Escaped(Backslash) \in Text /\ Escaped("=") \in Text
      /\ Escaped("n") \in Text /\ Escaped("r") \in Text
  BY <1>1, EscapedText
<1>3. s \o t \in Text
  BY ConcatProperties DEF Text
<1>4. /\ Pass1(s) \in Text /\ Pass2(s) \in Text /\ Pass3(s) \in Text /\ Pass4(s) \in Text
      /\ Pass1(t) \in Text /\ Pass2(t) \in Text /\ Pass3(t) \in Text /\ Pass4(t) \in Text
  BY EscapePasses
<1>5. Pass1(s \o t) = Pass1(s) \o Pass1(t)
  <2>1. \A u \in Text, v \in Text :
          Replace(u \o v, Backslash, Escaped(Backslash))
            = Replace(u, Backslash, Escaped(Backslash)) \o Replace(v, Backslash, Escaped(Backslash))
    BY <1>2, ReplaceConcat
  <2> QED BY <2>1, Zenon DEF Pass1
<1>6. Pass2(s \o t) = Pass2(s) \o Pass2(t)
  <2>1. \A u \in Text, v \in Text :
          Replace(u \o v, "=", Escaped("="))
            = Replace(u, "=", Escaped("=")) \o Replace(v, "=", Escaped("="))
    BY <1>2, ReplaceConcat
  <2>2. Replace(Pass1(s) \o Pass1(t), "=", Escaped("="))
          = Replace(Pass1(s), "=", Escaped("=")) \o Replace(Pass1(t), "=", Escaped("="))
    BY <1>4, <2>1, Zenon
  <2> QED BY <1>5, <2>2, Zenon DEF Pass2
<1>7. Pass3(s \o t) = Pass3(s) \o Pass3(t)
  <2>1. \A u \in Text, v \in Text :
          Replace(u \o v, "LF", Escaped("n"))
            = Replace(u, "LF", Escaped("n")) \o Replace(v, "LF", Escaped("n"))
    BY <1>2, ReplaceConcat
  <2>2. Replace(Pass2(s) \o Pass2(t), "LF", Escaped("n"))
          = Replace(Pass2(s), "LF", Escaped("n")) \o Replace(Pass2(t), "LF", Escaped("n"))
    BY <1>4, <2>1, Zenon
  <2> QED BY <1>6, <2>2, Zenon DEF Pass3
<1>8. Pass4(s \o t) = Pass4(s) \o Pass4(t)
  <2>1. \A u \in Text, v \in Text :
          Replace(u \o v, "CR", Escaped("r"))
            = Replace(u, "CR", Escaped("r")) \o Replace(v, "CR", Escaped("r"))
    BY <1>2, ReplaceConcat
  <2>2. Replace(Pass3(s) \o Pass3(t), "CR", Escaped("r"))
          = Replace(Pass3(s), "CR", Escaped("r")) \o Replace(Pass3(t), "CR", Escaped("r"))
    BY <1>4, <2>1, Zenon
  <2> QED BY <1>7, <2>2, Zenon DEF Pass4
<1>9. Without(Pass4(s) \o Pass4(t), Control) = Without(Pass4(s), Control) \o Without(Pass4(t), Control)
  BY <1>4, WithoutConcat
<1> QED BY <1>3, <1>8, <1>9, EscapePasses

\* What escaping makes of one character.
LEMMA EscapeOne ==
    ASSUME NEW c \in Char PROVE Escape(<<c>>) = EscapeChar(c)
<1>1. Backslash \in Char /\ "n" \in Char /\ "r" \in Char /\ "=" \in Char
  BY CharsOfCef
<1>2. /\ Escaped(Backslash) \in Text /\ Escaped("=") \in Text
      /\ Escaped("n") \in Text /\ Escaped("r") \in Text
  BY <1>1, EscapedText
<1>3. /\ "LF" \in Control /\ "CR" \in Control
      /\ Backslash \notin Control /\ "=" \notin Control
      /\ "n" \notin Control /\ "r" \notin Control
      /\ Backslash \notin {"=", "LF", "CR", "n", "r"}
  BY CharsOfCef
<1>4. <<c>> \in Text /\ Escape(<<c>>) = Without(Pass4(<<c>>), Control)
  <2>1. <<c>> \in Text
    BY DEF Text
  <2> QED BY <2>1, EscapePasses
<1>5. \A char \in {"=", "LF", "CR"}, by \in Text, d \in {Backslash, "=", "n", "r"} :
        d # char => Replace(Escaped(d), char, by) = Escaped(d)
  BY <1>1, <1>3, ReplacePair DEF Escaped
<1>6. \A d \in {Backslash, "=", "n", "r"} : Without(Escaped(d), Control) = Escaped(d)
  BY <1>1, <1>3, WithoutPair DEF Escaped
<1>7. \A by \in Text : \A char : Replace(<<c>>, char, by) = IF c = char THEN by ELSE <<c>>
  BY ReplaceOne
<1>8. CASE c = Backslash
  <2>1. Pass1(<<c>>) = Escaped(Backslash)
    BY <1>2, <1>7, <1>8 DEF Pass1
  <2>2. Pass2(<<c>>) = Escaped(Backslash)
    BY <1>2, <1>3, <1>5, <2>1 DEF Pass2
  <2>3. Pass3(<<c>>) = Escaped(Backslash)
    BY <1>2, <1>3, <1>5, <2>2 DEF Pass3
  <2>4. Pass4(<<c>>) = Escaped(Backslash)
    BY <1>2, <1>3, <1>5, <2>3 DEF Pass4
  <2> QED BY <1>4, <1>6, <1>8, <2>4 DEF EscapeChar
<1>9. CASE c = "="
  <2>1. Pass1(<<c>>) = <<c>>
    BY <1>2, <1>3, <1>7, <1>9 DEF Pass1
  <2>2. Pass2(<<c>>) = Escaped("=")
    BY <1>2, <1>7, <1>9, <2>1 DEF Pass2
  <2>3. Pass3(<<c>>) = Escaped("=")
    BY <1>2, <1>5, <2>2 DEF Pass3
  <2>4. Pass4(<<c>>) = Escaped("=")
    BY <1>2, <1>5, <2>3 DEF Pass4
  <2> QED BY <1>3, <1>4, <1>6, <1>9, <2>4 DEF EscapeChar
<1>10. CASE c = "LF"
  <2>1. Pass1(<<c>>) = <<c>>
    BY <1>2, <1>3, <1>7, <1>10 DEF Pass1
  <2>2. Pass2(<<c>>) = <<c>>
    BY <1>2, <1>7, <1>10, <2>1 DEF Pass2
  <2>3. Pass3(<<c>>) = Escaped("n")
    BY <1>2, <1>7, <1>10, <2>2 DEF Pass3
  <2>4. Pass4(<<c>>) = Escaped("n")
    BY <1>2, <1>5, <2>3 DEF Pass4
  <2> QED BY <1>3, <1>4, <1>6, <1>10, <2>4 DEF EscapeChar
<1>11. CASE c = "CR"
  <2>1. Pass1(<<c>>) = <<c>>
    BY <1>2, <1>3, <1>7, <1>11 DEF Pass1
  <2>2. Pass2(<<c>>) = <<c>>
    BY <1>2, <1>7, <1>11, <2>1 DEF Pass2
  <2>3. Pass3(<<c>>) = <<c>>
    BY <1>2, <1>7, <1>11, <2>2 DEF Pass3
  <2>4. Pass4(<<c>>) = Escaped("r")
    BY <1>2, <1>7, <1>11, <2>3 DEF Pass4
  <2> QED BY <1>3, <1>4, <1>6, <1>11, <2>4 DEF EscapeChar
<1>12. CASE c \notin {Backslash, "=", "LF", "CR"}
  <2>1. Pass1(<<c>>) = <<c>>
    BY <1>2, <1>7, <1>12 DEF Pass1
  <2>2. Pass2(<<c>>) = <<c>>
    BY <1>2, <1>7, <1>12, <2>1 DEF Pass2
  <2>3. Pass3(<<c>>) = <<c>>
    BY <1>2, <1>7, <1>12, <2>2 DEF Pass3
  <2>4. Pass4(<<c>>) = <<c>>
    BY <1>2, <1>7, <1>12, <2>3 DEF Pass4
  <2>5. Without(<<c>>, Control) = IF c \in Control THEN <<>> ELSE <<c>>
    BY WithoutOne
  <2> QED BY <1>4, <1>12, <2>4, <2>5 DEF EscapeChar
<1> QED BY <1>8, <1>9, <1>10, <1>11, <1>12

\* The five passes of escape_cef_extension do to each character what one pass would do.
LEMMA EscapeText ==
    ASSUME NEW value \in Text
    PROVE  /\ Escape(value) \in Seq(Char \ Control)
           /\ Escape(<<>>) = <<>>
           /\ \A c \in Char : Escape(Append(value, c)) = Escape(value) \o EscapeChar(c)
<1>1. Escape(value) \in Seq(Char \ Control)
  BY EscapePasses, WithoutText
<1>2. Escape(<<>>) = <<>>
  <2>1. Backslash \in Char /\ "n" \in Char /\ "r" \in Char /\ "=" \in Char
    BY CharsOfCef
  <2>2. /\ Escaped(Backslash) \in Text /\ Escaped("=") \in Text
        /\ Escaped("n") \in Text /\ Escaped("r") \in Text
    BY <2>1, EscapedText
  <2>3. \A by \in Text : \A char : Replace(<<>>, char, by) = <<>>
    BY ReplaceEmpty
  <2>4. Pass1(<<>>) = <<>> /\ <<>> \in Text
    BY <2>2, <2>3 DEF Pass1, Text
  <2>5. Pass2(<<>>) = <<>>
    BY <2>2, <2>3, <2>4 DEF Pass2
  <2>6. Pass3(<<>>) = <<>>
    BY <2>2, <2>3, <2>5 DEF Pass3
  <2>7. Pass4(<<>>) = <<>>
    BY <2>2, <2>3, <2>6 DEF Pass4
  <2>8. Without(<<>>, Control) = <<>>
    BY WithoutEmpty
  <2> QED BY <2>4, <2>7, <2>8, EscapePasses
<1>3. ASSUME NEW c \in Char PROVE Escape(Append(value, c)) = Escape(value) \o EscapeChar(c)
  <2>1. Append(value, c) = value \o <<c>> /\ <<c>> \in Text
    BY AppendIsConcat DEF Text
  <2> QED BY <2>1, EscapeConcat, EscapeOne
<1> QED BY <1>1, <1>2, <1>3

-----------------------------------------------------------------------------
(* The collector's reader *)

Readers == [escaped : BOOLEAN, keys : Seq(Text), values : Seq(Text), seen : Text]

\* A part of a text is a text.
LEMMA SubText ==
    ASSUME NEW text \in Text, NEW m \in Int, NEW n \in Int, m >= 1, n <= Len(text)
    PROVE  SubSeq(text, m, n) \in Text
<1>1. \A i \in m .. n : text[i] \in Char
  BY DEF Text
<1> QED BY <1>1, SubSeqProperties DEF Text

\* A reader that meets an equals sign is a reader.
LEMMA MeetSignType ==
    ASSUME NEW r \in Readers PROVE MeetSign(r) \in Readers
<1> DEFINE seen == r.seen
           blanks == {i \in DOMAIN seen : seen[i] = " "} \cup {0}
           blank == Max(blanks)
<1>1. seen \in Text /\ r.keys \in Seq(Text) /\ r.values \in Seq(Text)
  BY DEF Readers
<1>2. Len(seen) \in Nat /\ DOMAIN seen = 1 .. Len(seen)
  BY <1>1 DEF Text
<1>3. blank \in 0 .. Len(seen)
  <2>0. 0 \in blanks
    OBVIOUS
  <2>1. blanks \in SUBSET (0 .. Len(seen)) /\ blanks # {}
    <3> HIDE DEF seen
    <3>1. ASSUME NEW i \in blanks PROVE i \in 0 .. Len(seen)
      <4>1. i \in DOMAIN seen \/ i = 0
        OBVIOUS
      <4> HIDE DEF blanks
      <4> QED BY <1>2, <4>1
    <3> HIDE DEF blanks
    <3> QED BY <2>0, <3>1
  <2> HIDE DEF blanks, seen
  <2> QED BY <1>2, <2>1, MaxExists
<1>4. MeetSign(r) = [escaped |-> FALSE,
                     keys |-> Append(r.keys, SubSeq(seen, blank + 1, Len(seen))),
                     values |-> Append(r.values, SubSeq(seen, 1, blank - 1)),
                     seen |-> <<>>]
  BY DEF MeetSign
<1> HIDE DEF blank, seen
<1>5. SubSeq(seen, blank + 1, Len(seen)) \in Text /\ SubSeq(seen, 1, blank - 1) \in Text
  BY <1>1, <1>2, <1>3, SubText
<1>6. <<>> \in Text
  BY DEF Text
<1>7. /\ Append(r.keys, SubSeq(seen, blank + 1, Len(seen))) \in Seq(Text)
      /\ Append(r.values, SubSeq(seen, 1, blank - 1)) \in Seq(Text)
  BY <1>1, <1>5, AppendProperties
<1> QED BY <1>4, <1>6, <1>7 DEF Readers

\* A reader that has read a character is a reader.
LEMMA ReadCharType ==
    ASSUME NEW r \in Readers, NEW c \in Char PROVE ReadChar(r, c) \in Readers
<1>1. Meant(c) \in Char
  BY CharsOfCef DEF Meant
<1>2. ASSUME NEW d \in Char PROVE See(r, d) \in Readers
  <2>1. Append(r.seen, d) \in Text
    BY AppendProperties DEF Readers, Text
  <2> QED BY <2>1 DEF See, Readers
<1>3. [r EXCEPT !.escaped = TRUE] \in Readers
  BY DEF Readers
<1> QED BY <1>1, <1>2, <1>3, MeetSignType DEF ReadChar

IsReading(f, r, line) ==
    /\ f \in [0 .. Len(line) -> Readers] /\ f[0] = r
    /\ \A i \in 1 .. Len(line) : f[i] = ReadChar(f[i - 1], line[i])

\* ReadFrom is computed character by character.
LEMMA ReadRuns ==
    ASSUME NEW r \in Readers, NEW line \in Text
    PROVE  \E f : IsReading(f, r, line) /\ ReadFrom(r, line) = f[Len(line)]
<1> DEFINE n == Len(line)
           step == [i \in 1 .. n |-> [s \in Readers |-> ReadChar(s, line[i])]]
           body(g) == [i \in 0 .. n |-> IF i = 0 THEN r ELSE ReadChar(g[i - 1], line[i])]
           read == CHOOSE g : g = body(g)
<1>1. n \in Nat /\ \A i \in 1 .. n : line[i] \in Char
  BY DEF Text
<1> HIDE DEF n
<1>2. step \in [1 .. n -> [Readers -> Readers]]
  BY <1>1, ReadCharType
<1>3. PICK f : IsRun(f, Readers, r, n, step)
  <2> HIDE DEF step
  <2> QED BY <1>1, <1>2, LoopRuns
<1>4. \A i \in 1 .. n : f[i] = ReadChar(f[i - 1], line[i])
  <2>1. \A i \in 1 .. n : f[i - 1] \in Readers
    BY <1>1, <1>3 DEF IsRun
  <2> QED BY <1>3, <2>1 DEF IsRun
<1>5. f \in [0 .. n -> Readers] /\ f[0] = r
  BY <1>3 DEF IsRun
<1>6. f = body(f)
  BY <1>1, <1>4, <1>5
<1>7. read = body(read)
  <2> HIDE DEF body
  <2> QED BY <1>6
<1>8. ReadFrom(r, line) = read[n]
  BY DEF ReadFrom, n
<1> HIDE DEF read
<1>9. read[0] = r /\ \A i \in 1 .. n : read[i] = ReadChar(read[i - 1], line[i])
  BY <1>1, <1>7
<1> DEFINE T == {i \in 0 .. n : read[i] \in Readers}
<1>10. 0 .. n \subseteq T
  <2>1. 0 \in T
    BY <1>1, <1>9
  <2>2. ASSUME NEW i \in 1 .. n, i - 1 \in T PROVE i \in T
    <3>1. read[i - 1] \in Readers /\ line[i] \in Char
      BY <1>1, <2>2
    <3> QED BY <1>1, <1>9, <3>1, ReadCharType
  <2> HIDE DEF T
  <2> QED BY <1>1, <2>1, <2>2, LoopInvariant
<1>11. read = [i \in 0 .. n |-> read[i]]
  BY <1>7
<1>12. read \in [0 .. n -> Readers]
  BY <1>10, <1>11
<1> QED BY <1>8, <1>9, <1>12 DEF IsReading, n

\* A reader that has read a text is a reader.
LEMMA ReadType ==
    ASSUME NEW r \in Readers, NEW line \in Text PROVE ReadFrom(r, line) \in Readers
<1>1. PICK f : IsReading(f, r, line) /\ ReadFrom(r, line) = f[Len(line)]
  BY ReadRuns
<1>2. Len(line) \in Nat
  BY DEF Text
<1> QED BY <1>1, <1>2 DEF IsReading

\* Reading nothing changes nothing.
LEMMA ReadEmpty ==
    ASSUME NEW r \in Readers PROVE ReadFrom(r, <<>>) = r
<1>1. <<>> \in Text /\ Len(<<>>) = 0
  BY DEF Text
<1>2. PICK f : IsReading(f, r, <<>>) /\ ReadFrom(r, <<>>) = f[Len(<<>>)]
  BY <1>1, ReadRuns
<1> QED BY <1>1, <1>2 DEF IsReading

\* One character more is read after those before it.
LEMMA ReadAppend ==
    ASSUME NEW r \in Readers, NEW line \in Text, NEW c \in Char
    PROVE  ReadFrom(r, Append(line, c)) = ReadChar(ReadFrom(r, line), c)
<1> DEFINE n == Len(line)
           longer == Append(line, c)
<1>1. /\ longer \in Text /\ Len(longer) = n + 1 /\ longer[n + 1] = c
      /\ n \in Nat /\ \A i \in 1 .. n : longer[i] = line[i]
  BY AppendProperties DEF Text
<1>2. PICK f : IsReading(f, r, line) /\ ReadFrom(r, line) = f[n]
  BY ReadRuns
<1> HIDE DEF longer
<1>3. PICK g : IsReading(g, r, longer) /\ ReadFrom(r, longer) = g[n + 1]
  BY <1>1, ReadRuns
<1> DEFINE T == {i \in 0 .. n : g[i] = f[i]}
<1>4. 0 \in T
  BY <1>1, <1>2, <1>3 DEF IsReading
<1>5. ASSUME NEW i \in 1 .. n, i - 1 \in T PROVE i \in T
  <2>1. i \in 1 .. n + 1
    BY <1>1
  <2>2. g[i] = ReadChar(g[i - 1], longer[i])
    BY <1>1, <1>3, <2>1 DEF IsReading
  <2>3. f[i] = ReadChar(f[i - 1], line[i])
    BY <1>2 DEF IsReading
  <2> QED BY <1>1, <1>5, <2>2, <2>3
<1>6. 0 .. n \subseteq T
  <2> HIDE DEF T, n
  <2> QED BY <1>1, <1>4, <1>5, LoopInvariant
<1>7. g[n] = f[n]
  BY <1>1, <1>6
<1>8. g[n + 1] = ReadChar(g[n], c)
  <2>1. n + 1 \in 1 .. n + 1 /\ (n + 1) - 1 = n
    BY <1>1
  <2>2. g[n + 1] = ReadChar(g[(n + 1) - 1], longer[n + 1])
    BY <1>1, <1>3, <2>1 DEF IsReading
  <2> QED BY <1>1, <2>1, <2>2
<1> QED BY <1>2, <1>3, <1>7, <1>8 DEF longer

\* Two texts are read one after the other.
LEMMA ReadConcat ==
    ASSUME NEW r \in Readers, NEW line \in Text, NEW more \in Text
    PROVE  ReadFrom(r, line \o more) = ReadFrom(ReadFrom(r, line), more)
<1> DEFINE T == {t \in Text : ReadFrom(r, line \o t) = ReadFrom(ReadFrom(r, line), t)}
           here == ReadFrom(r, line)
<1>1. here \in Readers
  BY ReadType
<1>2. <<>> \in T
  <2>1. line \o <<>> = line /\ <<>> \in Text
    BY ConcatEmptySeq DEF Text
  <2> QED BY <1>1, <2>1, ReadEmpty
<1>3. ASSUME NEW t \in Seq(Char), NEW c \in Char, t \in T PROVE Append(t, c) \in T
  <2>1. /\ line \o Append(t, c) = Append(line \o t, c)
        /\ line \o t \in Text /\ t \in Text /\ Append(t, c) \in Text
    BY DEF Text
  <2>2. ReadFrom(r, line \o Append(t, c)) = ReadChar(ReadFrom(r, line \o t), c)
    BY <2>1, ReadAppend
  <2> HIDE DEF here
  <2>3. ReadFrom(here, Append(t, c)) = ReadChar(ReadFrom(here, t), c)
    BY <1>1, <2>1, ReadAppend
  <2> QED BY <1>3, <2>1, <2>2, <2>3 DEF here
<1>4. Seq(Char) \subseteq T
  <2> HIDE DEF T
  <2> QED BY <1>2, <1>3, SeqInduct
<1> QED BY <1>4 DEF Text

\* One character is read as such.
LEMMA ReadOne ==
    ASSUME NEW r \in Readers, NEW c \in Char PROVE ReadFrom(r, <<c>>) = ReadChar(r, c)
<1>1. <<c>> = Append(<<>>, c) /\ <<>> \in Text
  BY DEF Text
<1> QED BY <1>1, ReadAppend, ReadEmpty

\* What a reader has seen, and a text more.
Seen(r, text) == [r EXCEPT !.seen = @ \o text]

\* What a reader keeps while it only sees characters.
LEMMA SeenMore ==
    ASSUME NEW r \in Readers, NEW s \in Text
    PROVE  /\ Seen(r, s) \in Readers
           /\ Seen(r, <<>>) = r
           /\ Seen(r, s).escaped = r.escaped
           /\ Seen(r, s).keys = r.keys /\ Seen(r, s).values = r.values
           /\ Seen(r, s).seen = r.seen \o s
           /\ ~r.escaped => \A c \in Char : See(Seen(r, s), c) = Seen(r, Append(s, c))
<1>1. r.seen \in Text
  BY DEF Readers
<1>2. r.seen \o s \in Text /\ r.seen \o <<>> = r.seen
  BY <1>1, ConcatProperties, ConcatEmptySeq DEF Text
<1>3. Seen(r, s) \in Readers
  BY <1>2 DEF Seen, Readers
<1>4. Seen(r, <<>>) = r
  BY <1>2 DEF Seen, Readers
<1>5. /\ Seen(r, s).escaped = r.escaped
      /\ Seen(r, s).keys = r.keys /\ Seen(r, s).values = r.values
      /\ Seen(r, s).seen = r.seen \o s
  BY DEF Seen, Readers
<1>6. ASSUME ~r.escaped, NEW c \in Char PROVE See(Seen(r, s), c) = Seen(r, Append(s, c))
  <2>0. \A x \in Text, y \in Text, d \in Char : Append(x \o y, d) = x \o Append(y, d)
    BY DEF Text
  <2>1. Append(r.seen \o s, c) = r.seen \o Append(s, c)
    BY <1>1, <2>0
  <2> QED BY <1>6, <2>1 DEF See, Seen, Readers
<1> QED BY <1>3, <1>4, <1>5, <1>6

\* Characters without a meaning of their own are seen as they are.
LEMMA ReadPlain ==
    ASSUME NEW r \in Readers, ~r.escaped, NEW word \in Seq(Char \ {Backslash, "="})
    PROVE  ReadFrom(r, word) = Seen(r, word)
<1> DEFINE S == Char \ {Backslash, "="}
           T == {t \in Seq(S) : ReadFrom(r, t) = Seen(r, t)}
<1>1. <<>> \in T
  BY ReadEmpty, SeenMore DEF Text
<1>2. ASSUME NEW t \in Seq(S), NEW c \in S, t \in T PROVE Append(t, c) \in T
  <2>1. t \in Text /\ c \in Char
    BY DEF Text
  <2>2. ReadFrom(r, Append(t, c)) = ReadChar(Seen(r, t), c)
    BY <1>2, <2>1, ReadAppend
  <2>3. ReadChar(Seen(r, t), c) = See(Seen(r, t), c)
    <3>1. c # Backslash /\ c # "=" /\ ~Seen(r, t).escaped
      BY <2>1, SeenMore
    <3> QED BY <3>1 DEF ReadChar
  <2>4. See(Seen(r, t), c) = Seen(r, Append(t, c))
    BY <2>1, SeenMore
  <2>5. Append(t, c) \in Seq(S)
    OBVIOUS
  <2> QED BY <2>2, <2>3, <2>4, <2>5
<1>3. Seq(S) \subseteq T
  <2> HIDE DEF T, S
  <2> QED BY <1>1, <1>2, SeqInduct
<1> QED BY <1>3

-----------------------------------------------------------------------------
(* What an escaped value and a written field are to the collector's reader *)

\* What is kept of a value, one character after the other.
LEMMA PrintableText ==
    ASSUME NEW value \in Text
    PROVE  /\ Printable(value) \in Text
           /\ Printable(<<>>) = <<>>
           /\ \A c \in Char : Printable(Append(value, c))
                = IF c \in Control \ {"LF", "CR"} THEN Printable(value) ELSE Append(Printable(value), c)
<1> DEFINE lost == Control \ {"LF", "CR"}
<1>1. \A t \in Text : Printable(t) = Without(t, lost)
  BY DEF Printable
<1>2. <<>> \in Text
  BY DEF Text
<1> HIDE DEF lost
<1>3. \A t \in Text : Without(t, lost) \in Text
  <2> TAKE t \in Text
  <2>1. Without(t, lost) \in Seq(Char \ lost)
    BY WithoutText
  <2> QED BY <2>1 DEF Text
<1>4. ASSUME NEW c \in Char
      PROVE  Without(Append(value, c), lost)
               = IF c \in lost THEN Without(value, lost) ELSE Append(Without(value, lost), c)
  <2>1. Append(value, c) = value \o <<c>> /\ <<c>> \in Text
    BY DEF Text
  <2>2. Without(value \o <<c>>, lost) = Without(value, lost) \o Without(<<c>>, lost)
    BY <2>1, WithoutConcat
  <2>3. Without(<<c>>, lost) = IF c \in lost THEN <<>> ELSE <<c>>
    BY WithoutOne
  <2>4. \A t \in Text : t \o <<>> = t /\ t \o <<c>> = Append(t, c)
    BY DEF Text
  <2>5. Without(value, lost) \in Text
    BY <1>3
  <2> QED BY <2>1, <2>2, <2>3, <2>4, <2>5
<1>5. \A c \in Char : Append(value, c) \in Text
  BY DEF Text
<1>6. Without(<<>>, lost) = <<>>
  BY WithoutEmpty
<1>7. ASSUME NEW c \in Char
      PROVE  Printable(Append(value, c))
               = IF c \in lost THEN Printable(value) ELSE Append(Printable(value), c)
  BY <1>1, <1>4, <1>5
<1> QED BY <1>1, <1>2, <1>3, <1>6, <1>7 DEF lost

\* An escape is read as the character it stands for.
LEMMA ReadEscape ==
    ASSUME NEW r \in Readers, ~r.escaped, NEW c \in Char
    PROVE  ReadFrom(r, Escaped(c)) = See(r, Meant(c))
<1> DEFINE q == [r EXCEPT !.escaped = TRUE]
<1>0. Backslash \in Char
  BY CharsOfCef
<1>1. Backslash \in Char /\ <<Backslash>> \in Text /\ <<c>> \in Text
  BY <1>0 DEF Text
<1>2. Escaped(c) = <<Backslash>> \o <<c>>
  BY <1>1, PairIsConcat DEF Escaped
<1>3. ReadFrom(r, <<Backslash>> \o <<c>>) = ReadFrom(ReadFrom(r, <<Backslash>>), <<c>>)
  BY <1>1, ReadConcat
<1>4. ReadFrom(r, <<Backslash>>) = q
  BY <1>1, ReadOne DEF ReadChar
<1>5. q \in Readers
  BY DEF Readers
<1>6. ReadFrom(q, <<c>>) = ReadChar(q, c)
  <2> HIDE DEF q
  <2> QED BY <1>5, ReadOne
<1>7. ReadChar(q, c) = See(q, Meant(c))
  <2>1. q.escaped
    BY DEF Readers
  <2> HIDE DEF q
  <2> QED BY <2>1 DEF ReadChar
<1>8. \A d : See(q, d) = See(r, d)
  BY DEF See, Readers
<1> QED BY <1>2, <1>3, <1>4, <1>6, <1>7, <1>8

\* So is every character that escape_cef_extension leaves.
LEMMA ReadEscapedChar ==
    ASSUME NEW r \in Readers, ~r.escaped, NEW c \in Char
    PROVE  ReadFrom(r, EscapeChar(c)) = IF c \in Control \ {"LF", "CR"} THEN r ELSE See(r, c)
<1>1. /\ Backslash \in Char /\ "=" \in Char /\ "n" \in Char /\ "r" \in Char
      /\ Backslash \notin Control /\ "=" \notin Control
  BY CharsOfCef
<1>2. /\ Meant("n") = "LF" /\ Meant("r") = "CR" /\ Meant("=") = "="
      /\ Meant(Backslash) = Backslash
  BY DEF Meant, Backslash
<1>3. CASE c = Backslash
  BY <1>1, <1>2, <1>3, ReadEscape DEF EscapeChar
<1>4. CASE c = "="
  BY <1>1, <1>2, <1>4, ReadEscape DEF EscapeChar, Backslash
<1>5. CASE c = "LF"
  BY <1>1, <1>2, <1>5, ReadEscape DEF EscapeChar, Backslash
<1>6. CASE c = "CR"
  BY <1>1, <1>2, <1>6, ReadEscape DEF EscapeChar, Backslash
<1>7. CASE c \in Control \ {"LF", "CR"}
  <2>1. EscapeChar(c) = <<>>
    BY <1>1, <1>7 DEF EscapeChar
  <2> QED BY <1>7, <2>1, ReadEmpty
<1>8. CASE c \notin Control \cup {Backslash, "="}
  <2>1. c # "LF" /\ c # "CR"
    BY <1>8, CharsOfCef
  <2>2. EscapeChar(c) = <<c>>
    BY <1>8, <2>1 DEF EscapeChar
  <2>3. ReadFrom(r, <<c>>) = See(r, c)
    BY <1>8, ReadOne DEF ReadChar
  <2> QED BY <1>8, <2>2, <2>3
<1> QED BY <1>3, <1>4, <1>5, <1>6, <1>7, <1>8

\* An escaped value is read as what is to arrive of it.
LEMMA ReadEscaped ==
    ASSUME NEW r \in Readers, ~r.escaped, NEW value \in Text
    PROVE  ReadFrom(r, Escape(value)) = Seen(r, Printable(value))
<1> DEFINE T == {v \in Text : ReadFrom(r, Escape(v)) = Seen(r, Printable(v))}
<1>1. <<>> \in Text
  BY DEF Text
<1>2. <<>> \in T
  <2>1. Escape(<<>>) = <<>> /\ Printable(<<>>) = <<>>
    BY <1>1, EscapeText, PrintableText
  <2> QED BY <1>1, <2>1, ReadEmpty, SeenMore
<1>3. ASSUME NEW v \in Seq(Char), NEW c \in Char, v \in T PROVE Append(v, c) \in T
  <2>1. v \in Text /\ Append(v, c) \in Text
    BY DEF Text
  <2> DEFINE q == Seen(r, Printable(v))
  <2>2. Escape(v) \in Text /\ EscapeChar(c) \in Text /\ Printable(v) \in Text
    <3>1. Escape(v) \in Seq(Char \ Control)
      BY <2>1, EscapeText
    <3>2. Backslash \in Char /\ "n" \in Char /\ "r" \in Char /\ "=" \in Char
      BY CharsOfCef
    <3>3. EscapeChar(c) \in Text
      BY <3>2 DEF EscapeChar, Escaped, Text
    <3> QED BY <2>1, <3>1, <3>3, PrintableText DEF Text
  <2>3. q \in Readers /\ ~q.escaped
    BY <2>2, SeenMore
  <2>4. Escape(Append(v, c)) = Escape(v) \o EscapeChar(c)
    BY <2>1, EscapeText
  <2>5. ReadFrom(r, Escape(v) \o EscapeChar(c)) = ReadFrom(ReadFrom(r, Escape(v)), EscapeChar(c))
    BY <2>2, ReadConcat
  <2>6. ReadFrom(r, Escape(v)) = q
    BY <1>3
  <2>8. See(q, c) = Seen(r, Append(Printable(v), c))
    BY <2>2, SeenMore
  <2> HIDE DEF q
  <2>7. ReadFrom(q, EscapeChar(c)) = IF c \in Control \ {"LF", "CR"} THEN q ELSE See(q, c)
    BY <2>3, ReadEscapedChar
  <2>9. Printable(Append(v, c))
          = IF c \in Control \ {"LF", "CR"} THEN Printable(v) ELSE Append(Printable(v), c)
    BY <2>1, PrintableText
  <2>10. ReadFrom(r, Escape(Append(v, c))) = Seen(r, Printable(Append(v, c)))
    BY <2>4, <2>5, <2>6, <2>7, <2>8, <2>9 DEF q
  <2> QED BY <2>1, <2>10
<1>4. Seq(Char) \subseteq T
  <2> HIDE DEF T
  <2> QED BY <1>2, <1>3, SeqInduct
<1> QED BY <1>4 DEF Text

-----------------------------------------------------------------------------
(* The extension of a line *)

Gap == " "

\* The keys of an extension.
Keys == Seq(Char \ ({Backslash, "=", Gap} \cup Control))

\* After the last blank of what was seen stands the key.
LEMMA LastBlank ==
    ASSUME NEW before \in Text, NEW key \in Keys,
           before = <<>> \/ before[Len(before)] = Gap
    PROVE  LET seen == before \o key
               blank == Max({i \in DOMAIN seen : seen[i] = Gap} \cup {0})
           IN  /\ blank = Len(before)
               /\ SubSeq(seen, blank + 1, Len(seen)) = key
               /\ SubSeq(seen, 1, blank - 1) = SubSeq(before, 1, Len(before) - 1)
<1> DEFINE seen == before \o key
           blanks == {i \in DOMAIN seen : seen[i] = Gap} \cup {0}
<1>a. PICK m \in Nat : m = Len(before)
  BY DEF Text
<1>b. PICK n \in Nat : n = Len(key)
  BY DEF Keys
<1>1. /\ m \in Nat /\ n \in Nat /\ key \in Text
      /\ \A i \in 1 .. n : key[i] # Gap
  <2>1. \A i \in 1 .. n : key[i] \in Char \ ({Backslash, "=", Gap} \cup Control)
    BY <1>b, ElementOfSeq DEF Keys
  <2>2. key \in Text
    BY DEF Text, Keys
  <2> QED BY <2>1, <2>2
<1>2. /\ Len(seen) = m + n /\ DOMAIN seen = 1 .. m + n /\ seen \in Text
      /\ \A i \in 1 .. m : seen[i] = before[i]
      /\ \A i \in m + 1 .. m + n : seen[i] = key[i - m]
  <2>1. before \in Seq(Char) /\ key \in Seq(Char)
    BY <1>1 DEF Text
  <2>2. /\ Len(seen) = m + n /\ seen \in Seq(Char)
        /\ \A i \in 1 .. m + n : seen[i] = IF i <= m THEN before[i] ELSE key[i - m]
    BY <1>a, <1>b, <2>1, ConcatProperties
  <2> HIDE DEF seen
  <2> QED BY <1>1, <2>2 DEF Text
<1>3. before = <<>> => m = 0
  BY <1>a
<1>4. m \in blanks
  <2>1. CASE before = <<>>
    BY <1>3, <2>1
  <2>2. CASE before # <<>>
    <3>1. m \in 1 .. m /\ before[m] = Gap
      BY <1>1, <1>a, <2>2 DEF Text
    <3>2. m \in DOMAIN seen /\ seen[m] = Gap
      <4> HIDE DEF seen
      <4> QED BY <1>1, <1>2, <3>1
    <3> HIDE DEF seen
    <3> QED BY <3>2
  <2> QED BY <2>1, <2>2
<1>5. ASSUME NEW i \in blanks PROVE i \in Int /\ i <= m
  <2>1. i = 0 \/ (i \in DOMAIN seen /\ seen[i] = Gap)
    OBVIOUS
  <2> HIDE DEF blanks, seen
  <2>2. CASE i \in m + 1 .. m + n
    BY <1>1, <1>2, <2>1, <2>2
  <2> QED BY <1>1, <1>2, <2>1, <2>2
<1>6. Max(blanks) = m
  <2> HIDE DEF blanks
  <2>1. blanks \in SUBSET Int
    BY <1>5
  <2> QED BY <1>4, <1>5, <2>1, MaxIs
<1>7. SubSeq(seen, m + 1, Len(seen)) = key
  <2> DEFINE part == SubSeq(seen, m + 1, m + n)
  <2>1. \A i \in m + 1 .. m + n : seen[i] \in Char
    <3> HIDE DEF seen
    <3> QED BY <1>1, <1>2 DEF Text
  <2>2. Len(part) = n /\ part \in Seq(Char) /\ \A i \in 1 .. n : part[i] = seen[m + i]
    <3> HIDE DEF seen
    <3> QED BY <1>1, <2>1, SubSeqProperties
  <2> HIDE DEF part, seen
  <2>3. \A i \in 1 .. n : m + i \in m + 1 .. m + n /\ (m + i) - m = i
    BY <1>1
  <2>4. \A i \in 1 .. n : part[i] = key[i]
    BY <1>2, <2>2, <2>3
  <2>5. key \in Seq(Char) /\ Len(key) = n
    BY <1>1, <1>b DEF Text
  <2>6. part = key
    BY <2>2, <2>4, <2>5, SeqEqual
  <2> QED BY <1>2, <2>6 DEF part
<1>8. SubSeq(seen, 1, m - 1) = SubSeq(before, 1, m - 1)
  <2>1. \A i \in 1 .. m - 1 : seen[i] = before[i]
    <3> HIDE DEF seen
    <3> QED BY <1>1, <1>2
  <2>2. \A i \in 1 .. m - 1 : before[i] \in Char /\ seen[i] \in Char
    <3>1. \A i \in 1 .. m - 1 : i \in 1 .. m /\ i \in 1 .. m + n
      BY <1>1
    <3> HIDE DEF seen
    <3> QED BY <1>1, <1>2, <1>a, <3>1, ElementOfSeq DEF Text
  <2> DEFINE x == SubSeq(seen, 1, m - 1)
             y == SubSeq(before, 1, m - 1)
  <2>3. /\ x \in Seq(Char) /\ y \in Seq(Char) /\ Len(x) = Len(y)
        /\ \A i \in 1 .. m - 1 : x[i] = seen[i] /\ y[i] = before[i]
        /\ Len(x) = IF 1 <= m - 1 THEN m - 1 ELSE 0
    <3> HIDE DEF seen
    <3> QED BY <1>1, <2>2, SubSeqProperties
  <2>4. \A i \in 1 .. Len(x) : x[i] = y[i]
    <3>1. Len(x) = IF 1 <= m - 1 THEN m - 1 ELSE 0
      BY <2>3
    <3> HIDE DEF x, y, seen
    <3> QED BY <1>1, <2>1, <2>3, <3>1
  <2> HIDE DEF x, y
  <2>5. x = y
    BY <2>3, <2>4, SeqEqual
  <2> QED BY <2>5 DEF x, y
<1> QED BY <1>6, <1>7, <1>8, <1>a

\* What a sign makes of a key and of what stands before it.
LEMMA MeetKey ==
    ASSUME NEW r \in Readers, ~r.escaped, NEW key \in Keys,
           r.seen = <<>> \/ r.seen[Len(r.seen)] = Gap
    PROVE  ReadChar(Seen(r, key), "=")
             = [escaped |-> FALSE, keys |-> Append(r.keys, key),
                values |-> Append(r.values, SubSeq(r.seen, 1, Len(r.seen) - 1)), seen |-> <<>>]
<1> DEFINE before == r.seen
           seen == before \o key
           blank == Max({i \in DOMAIN seen : seen[i] = Gap} \cup {0})
           q == Seen(r, key)
<1>1. before \in Text /\ key \in Text
  BY DEF Readers, Keys, Text
<1>2. ~q.escaped /\ q.keys = r.keys /\ q.values = r.values /\ q.seen = seen
  BY <1>1, SeenMore
<1>3. \A s : MeetSign(s) =
        [escaped |-> FALSE,
         keys |-> Append(s.keys, SubSeq(s.seen,
           Max({i \in DOMAIN s.seen : s.seen[i] = Gap} \cup {0}) + 1, Len(s.seen))),
         values |-> Append(s.values, SubSeq(s.seen, 1,
           Max({i \in DOMAIN s.seen : s.seen[i] = Gap} \cup {0}) - 1)),
         seen |-> <<>>]
  BY Zenon DEF MeetSign, Gap
<1>4. /\ SubSeq(seen, blank + 1, Len(seen)) = key
      /\ SubSeq(seen, 1, blank - 1) = SubSeq(before, 1, Len(before) - 1)
  <2>1. before = <<>> \/ before[Len(before)] = Gap
    OBVIOUS
  <2> HIDE DEF before
  <2> QED BY <1>1, <2>1, LastBlank
<1> HIDE DEF q
<1>5. ReadChar(q, "=") = MeetSign(q)
  BY <1>2 DEF ReadChar, Backslash
<1>6. MeetSign(q) = [escaped |-> FALSE,
                     keys |-> Append(q.keys, SubSeq(seen, blank + 1, Len(seen))),
                     values |-> Append(q.values, SubSeq(seen, 1, blank - 1)), seen |-> <<>>]
  BY <1>2, <1>3, Zenon
<1> HIDE DEF seen, blank
<1>7. MeetSign(q) = [escaped |-> FALSE, keys |-> Append(q.keys, key),
                     values |-> Append(q.values, SubSeq(before, 1, Len(before) - 1)), seen |-> <<>>]
  BY <1>4, <1>6, Zenon
<1> QED BY <1>2, <1>5, <1>7 DEF q

\* Readers are what their fields are.
LEMMA SameReader ==
    ASSUME NEW x \in Readers, NEW y \in Readers, x.escaped = y.escaped,
           x.keys = y.keys, x.values = y.values, x.seen = y.seen
    PROVE  x = y
BY DEF Readers

\* What a reader knows after a field whose value may go on.
Told(r, key, seen) ==
    [escaped |-> FALSE, keys |-> Append(r.keys, key),
     values |-> Append(r.values, SubSeq(r.seen, 1, Len(r.seen) - 1)), seen |-> seen]

\* A key, the sign and an escaped value.
LEMMA ReadField ==
    ASSUME NEW r \in Readers, ~r.escaped, NEW key \in Keys, NEW value \in Text,
           r.seen = <<>> \/ r.seen[Len(r.seen)] = Gap
    PROVE  /\ Told(r, key, Printable(value)) \in Readers
           /\ ReadFrom(r, key \o <<"=">> \o Escape(value)) = Told(r, key, Printable(value))
<1> DEFINE q == ReadChar(Seen(r, key), "=")
<1>1. /\ key \in Text /\ <<"=">> \in Text /\ Escape(value) \in Text
      /\ key \in Seq(Char \ {Backslash, "="}) /\ "=" \in Char
  <2>1. "=" \in Char
    BY CharsOfCef
  <2>2. Escape(value) \in Seq(Char \ Control)
    BY EscapeText
  <2>3. key \in Text /\ key \in Seq(Char \ {Backslash, "="})
    BY DEF Keys, Text
  <2> QED BY <2>1, <2>2, <2>3 DEF Text
<1>2. key \o <<"=">> \in Text
  BY <1>1, ConcatProperties DEF Text
<1>3. ReadFrom(r, key \o <<"=">> \o Escape(value))
        = ReadFrom(ReadFrom(r, key \o <<"=">>), Escape(value))
  BY <1>1, <1>2, ReadConcat
<1>4. ReadFrom(r, key \o <<"=">>) = ReadFrom(ReadFrom(r, key), <<"=">>)
  BY <1>1, ReadConcat
<1>5. ReadFrom(r, key) = Seen(r, key)
  BY <1>1, ReadPlain
<1>6. Seen(r, key) \in Readers
  BY <1>1, SeenMore
<1>7. ReadFrom(Seen(r, key), <<"=">>) = q /\ q \in Readers
  BY <1>1, <1>6, ReadOne, ReadCharType
<1>8. q = Told(r, key, <<>>)
  BY MeetKey DEF Told
<1>9. ~q.escaped /\ q.seen = <<>>
  BY <1>8 DEF Told
<1>10. Printable(value) \in Text
  BY PrintableText
<1> HIDE DEF q
<1>11. ReadFrom(q, Escape(value)) = Seen(q, Printable(value)) /\ Seen(q, Printable(value)) \in Readers
  BY <1>7, <1>9, <1>10, ReadEscaped, SeenMore
<1>12. \A t \in Text : <<>> \o t = t
  BY DEF Text
<1>13. Seen(q, Printable(value)) = Told(r, key, Printable(value))
  <2> DEFINE x == Seen(q, Printable(value))
             y == Told(r, key, Printable(value))
  <2>1. /\ x \in Readers /\ x.escaped = q.escaped /\ x.keys = q.keys /\ x.values = q.values
        /\ x.seen = q.seen \o Printable(value)
    BY <1>7, <1>10, <1>11, SeenMore
  <2>2. x.escaped = y.escaped /\ x.keys = y.keys /\ x.values = y.values /\ x.seen = y.seen
    BY <1>8, <1>10, <1>12, <2>1 DEF Told
  <2>3. y \in Readers
    BY <1>10, <1>7, <1>8 DEF Told, Readers
  <2> HIDE DEF x, y
  <2>4. x = y
    BY <2>1, <2>2, <2>3, SameReader
  <2> QED BY <2>4 DEF x, y
<1> QED BY <1>3, <1>4, <1>5, <1>7, <1>11, <1>13

\* The field as FormatCef writes it: a blank follows.
LEMMA ReadWritten ==
    ASSUME NEW r \in Readers, ~r.escaped, NEW key \in Keys, NEW value \in Text,
           r.seen = <<>> \/ r.seen[Len(r.seen)] = Gap
    PROVE  /\ Written(<<key, value>>) \in Text
           /\ ReadFrom(r, Written(<<key, value>>)) = Told(r, key, Append(Printable(value), Gap))
<1> DEFINE start == key \o <<"=">> \o Escape(value)
           q == Told(r, key, Printable(value))
<1>1. Gap \in Char /\ "=" \in Char /\ Gap # Backslash /\ Gap # "="
  BY CharsOfCef, Zenon DEF Gap, Backslash
<1>2. Written(<<key, value>>) = start \o <<Gap>>
  BY Zenon DEF Written, Gap
<1>3. start \in Text /\ <<Gap>> \in Text
  <2>1. Escape(value) \in Seq(Char \ Control)
    BY EscapeText
  <2>2. key \in Text /\ <<"=">> \in Text /\ Escape(value) \in Text
    BY <1>1, <2>1 DEF Text, Keys
  <2> QED BY <1>1, <2>2, ConcatProperties DEF Text
<1>4. ReadFrom(r, start \o <<Gap>>) = ReadFrom(ReadFrom(r, start), <<Gap>>)
  <2> HIDE DEF start
  <2> QED BY <1>3, ReadConcat
<1>5. ReadFrom(r, start) = q /\ q \in Readers
  BY ReadField
<1>6. ~q.escaped
  BY DEF Told
<1>8. Printable(value) \in Text
  BY PrintableText
<1>7. See(q, Gap) = Told(r, key, Append(Printable(value), Gap))
  <2> DEFINE x == See(q, Gap)
             y == Told(r, key, Append(Printable(value), Gap))
  <2>1. Append(Printable(value), Gap) \in Text
    BY <1>1, <1>8 DEF Text
  <2>2. y \in Readers
    BY <1>5, <2>1 DEF Told, Readers
  <2>3. /\ x \in Readers /\ x.escaped = FALSE /\ x.keys = q.keys /\ x.values = q.values
        /\ x.seen = Append(q.seen, Gap)
    <3> HIDE DEF q
    <3>1. Append(q.seen, Gap) \in Text
      BY <1>1, <1>5 DEF Readers, Text
    <3> QED BY <1>5, <3>1 DEF See, Readers
  <2>4. y.escaped = FALSE /\ y.keys = q.keys /\ y.values = q.values /\ y.seen = Append(q.seen, Gap)
    BY DEF Told
  <2> HIDE DEF x, y
  <2>5. x = y
    BY <2>2, <2>3, <2>4, SameReader
  <2> QED BY <2>5 DEF x, y
<1>9. start \o <<Gap>> \in Text
  BY <1>3, ConcatProperties DEF Text
<1> HIDE DEF q, start
<1>10. ReadFrom(q, <<Gap>>) = See(q, Gap)
  BY <1>1, <1>5, <1>6, ReadOne DEF ReadChar
<1> QED BY <1>2, <1>4, <1>5, <1>7, <1>9, <1>10

CefField == Keys \X Text

\* The extension before its end is trimmed.
AllWritten(fields) == FlattenSeq([i \in DOMAIN fields |-> Written(fields[i])])

\* What is known after these fields.
After(fields) ==
    [escaped |-> FALSE,
     keys |-> [i \in 1 .. Len(fields) |-> fields[i][1]],
     values |-> [i \in 1 .. Len(fields) |-> IF i = 1 THEN <<>> ELSE Printable(fields[i - 1][2])],
     seen |-> IF fields = <<>> THEN <<>> ELSE Append(Printable(fields[Len(fields)][2]), Gap)]

\* Written fields, one after the other.
LEMMA AllWrittenGrows ==
    /\ AllWritten(<<>>) = <<>>
    /\ \A fields \in Seq(CefField), f \in CefField :
         /\ AllWritten(fields) \in Text
         /\ AllWritten(Append(fields, f)) = AllWritten(fields) \o Written(f)
<1> DEFINE h == [f \in CefField |-> Written(f)]
<1>1. ASSUME NEW f \in CefField PROVE Written(f) \in Text
  <2>1. f = <<f[1], f[2]>> /\ f[1] \in Keys /\ f[2] \in Text
    BY DEF CefField
  <2>2. "=" \in Char /\ Gap \in Char
    BY CharsOfCef, Zenon DEF Gap
  <2>3. Escape(f[2]) \in Seq(Char \ Control)
    BY <2>1, EscapeText
  <2>4. f[1] \in Text /\ <<"=">> \in Text /\ Escape(f[2]) \in Text /\ <<Gap>> \in Text
    BY <2>1, <2>2, <2>3 DEF Keys, Text
  <2>5. Written(f) = f[1] \o <<"=">> \o Escape(f[2]) \o <<Gap>>
    BY Zenon DEF Written, Gap
  <2> QED BY <2>4, <2>5, ConcatProperties DEF Text
<1>2. h \in [CefField -> Seq(Char)]
  BY <1>1 DEF Text
<1>3. \A f \in CefField : h[f] = Written(f)
  OBVIOUS
<1> HIDE DEF h
<1>4. ASSUME NEW fields \in Seq(CefField) PROVE AllWritten(fields) = Each(fields, h)
  <2>1. \A i \in DOMAIN fields : Written(fields[i]) = h[fields[i]]
    BY <1>3, ElementOfSeq
  <2>2. [i \in DOMAIN fields |-> Written(fields[i])] = [i \in DOMAIN fields |-> h[fields[i]]]
    BY <2>1
  <2> QED BY <2>2 DEF AllWritten, Each
<1>5. AllWritten(<<>>) = <<>>
  <2>0. <<>> \in Seq(CefField)
    OBVIOUS
  <2>1. AllWritten(<<>>) = Each(<<>>, h)
    BY <1>4, <2>0
  <2> QED BY <2>1, EachEmpty
<1>6. ASSUME NEW fields \in Seq(CefField), NEW f \in CefField
      PROVE  /\ AllWritten(fields) \in Text
             /\ AllWritten(Append(fields, f)) = AllWritten(fields) \o Written(f)
  <2>1. Each(fields, h) \in Text
    BY <1>2, EachType DEF Text
  <2>2. Append(fields, f) = fields \o <<f>> /\ Append(fields, f) \in Seq(CefField) /\
          <<f>> \in Seq(CefField)
    OBVIOUS
  <2>3. Each(fields \o <<f>>, h) = Each(fields, h) \o Each(<<f>>, h)
    BY <1>2, <2>2, EachConcat
  <2>4. Each(<<f>>, h) = Written(f)
    BY <1>2, <1>3, EachOne
  <2> QED BY <1>4, <2>1, <2>2, <2>3, <2>4
<1> QED BY <1>5, <1>6

\* What is known after one field more.
LEMMA AfterGrows ==
    ASSUME NEW fields \in Seq(CefField)
    PROVE  /\ After(<<>>) = Start
           /\ ~After(fields).escaped
           /\ After(fields).seen = <<>> \/ After(fields).seen[Len(After(fields).seen)] = Gap
           /\ \A f \in CefField : After(Append(fields, f))
                = Told(After(fields), f[1], Append(Printable(f[2]), Gap))
<1> DEFINE n == Len(fields)
           before == After(fields).seen
<1>1. n \in Nat /\ \A i \in 1 .. n : fields[i][1] \in Keys /\ fields[i][2] \in Text
  <2>1. \A i \in 1 .. n : fields[i] \in CefField
    OBVIOUS
  <2> QED BY <2>1 DEF CefField
<1>2. After(<<>>) = Start
  BY DEF After, Start
<1>3. CASE fields = <<>>
  <2>1. before = <<>> /\ SubSeq(before, 1, Len(before) - 1) = <<>>
    BY <1>3 DEF After
  <2>2. ASSUME NEW f \in CefField
        PROVE  After(Append(fields, f)) = Told(After(fields), f[1], Append(Printable(f[2]), Gap))
    <3>1. Append(fields, f) = <<f>>
      BY <1>3
    <3>2. After(<<f>>) = [escaped |-> FALSE, keys |-> <<f[1]>>, values |-> << <<>> >>,
                          seen |-> Append(Printable(f[2]), Gap)]
      <4> DEFINE s == <<f>>
      <4>1. Len(s) = 1 /\ s[1] = f /\ s # <<>>
        OBVIOUS
      <4> HIDE DEF s
      <4>2. [i \in 1 .. 1 |-> s[i][1]] = <<f[1]>>
        BY <4>1
      <4>3. [i \in 1 .. 1 |-> IF i = 1 THEN <<>> ELSE Printable(s[i - 1][2])] = << <<>> >>
        OBVIOUS
      <4>4. After(s) = [escaped |-> FALSE, keys |-> <<f[1]>>, values |-> << <<>> >>,
                        seen |-> Append(Printable(f[2]), Gap)]
        BY <4>1, <4>2, <4>3, Zenon DEF After
      <4> QED BY <4>4 DEF s
    <3>3. Append(After(fields).keys, f[1]) = <<f[1]>> /\ Append(After(fields).values, <<>>) = << <<>> >>
      BY <1>3 DEF After
    <3> QED BY <2>1, <3>1, <3>2, <3>3 DEF Told
  <2> QED BY <1>2, <2>1, <2>2 DEF After
<1>4. CASE fields # <<>>
  <2> DEFINE last == Printable(fields[n][2])
  <2>1. n >= 1 /\ last \in Text
    BY <1>1, <1>4, PrintableText
  <2>2. before = Append(last, Gap)
    BY <1>4 DEF After
  <2> HIDE DEF last
  <2>3. Gap \in Char
    BY CharsOfCef, Zenon DEF Gap
  <2>4. Len(before) = Len(last) + 1 /\ before[Len(before)] = Gap /\
          SubSeq(before, 1, Len(before) - 1) = last
    <3>1. \A t \in Text, c \in Char : /\ Len(Append(t, c)) = Len(t) + 1
                                      /\ Append(t, c)[Len(t) + 1] = c
                                      /\ SubSeq(Append(t, c), 1, Len(t)) = t
      BY DEF Text
    <3>2. Len(last) + 1 - 1 = Len(last)
      BY <2>1 DEF Text
    <3> QED BY <2>1, <2>2, <2>3, <3>1, <3>2
  <2>5. ASSUME NEW f \in CefField
        PROVE  After(Append(fields, f)) = Told(After(fields), f[1], Append(Printable(f[2]), Gap))
    <3> DEFINE more == Append(fields, f)
               keys == After(fields).keys
               values == After(fields).values
    <3>1. /\ Len(more) = n + 1 /\ more # <<>> /\ more[n + 1] = f
          /\ \A i \in 1 .. n : more[i] = fields[i]
      OBVIOUS
    <3> HIDE DEF more
    <3>2. [i \in 1 .. n + 1 |-> more[i][1]] = Append([i \in 1 .. n |-> fields[i][1]], f[1])
      BY <1>1, <3>1
    <3>3. [i \in 1 .. n + 1 |-> IF i = 1 THEN <<>> ELSE Printable(more[i - 1][2])]
            = Append([i \in 1 .. n |-> IF i = 1 THEN <<>> ELSE Printable(fields[i - 1][2])], last)
      <4> DEFINE x == [i \in 1 .. n + 1 |-> IF i = 1 THEN <<>> ELSE Printable(more[i - 1][2])]
                 y == [i \in 1 .. n |-> IF i = 1 THEN <<>> ELSE Printable(fields[i - 1][2])]
      <4>1. \A i \in 1 .. n : x[i] = y[i]
        <5>1. \A i \in 1 .. n : i # 1 => i - 1 \in 1 .. n
          BY <1>1
        <5> QED BY <1>1, <3>1, <5>1
      <4>2. x[n + 1] = last
        <5>1. n + 1 # 1 /\ (n + 1) - 1 = n /\ n \in 1 .. n
          BY <2>1
        <5> QED BY <2>1, <3>1, <5>1 DEF last
      <4>3. /\ x \in [1 .. n + 1 -> Text] /\ y \in Seq(Text) /\ Len(y) = n
        <5>1. \A i \in 1 .. n : i # 1 => Printable(fields[i - 1][2]) \in Text
          <6>1. \A i \in 1 .. n : i # 1 => i - 1 \in 1 .. n
            BY <1>1
          <6> QED BY <1>1, <6>1, PrintableText
        <5>2. <<>> \in Text
          BY DEF Text
        <5>3. y \in [1 .. n -> Text]
          BY <5>1, <5>2
        <5>4. \A i \in 1 .. n + 1 : x[i] \in Text
          <6>1. \A i \in 1 .. n + 1 : i \in 1 .. n \/ i = n + 1
            BY <1>1
          <6> HIDE DEF x, y
          <6> QED BY <2>1, <4>1, <4>2, <5>3, <6>1
        <5>5. DOMAIN x = 1 .. n + 1 /\ x = [i \in 1 .. n + 1 |-> x[i]]
          OBVIOUS
        <5>6. y \in Seq(Text) /\ Len(y) = n
          <6> HIDE DEF y
          <6> QED BY <1>1, <5>3
        <5> HIDE DEF x, y
        <5> QED BY <5>4, <5>5, <5>6
      <4> HIDE DEF x, y
      <4>4. x = Append(y, last)
        BY <1>1, <2>1, <4>1, <4>2, <4>3
      <4> QED BY <4>4 DEF x, y
    <3>4. After(more) = [escaped |-> FALSE, keys |-> Append(keys, f[1]),
                         values |-> Append(values, last), seen |-> Append(Printable(f[2]), Gap)]
      BY <3>1, <3>2, <3>3 DEF After
    <3> QED BY <2>4, <3>4 DEF Told, more
  <2> QED BY <1>2, <2>4, <2>5 DEF After
<1> QED BY <1>3, <1>4

\* A collector has read the fields that are written.
LEMMA ReadAllWritten ==
    ASSUME NEW fields \in Seq(CefField)
    PROVE  After(fields) \in Readers /\ ReadFrom(Start, AllWritten(fields)) = After(fields)
<1> DEFINE T == {fs \in Seq(CefField) : /\ After(fs) \in Readers
                                        /\ ReadFrom(Start, AllWritten(fs)) = After(fs)}
<1>1. <<>> \in Seq(CefField)
  OBVIOUS
<1>2. Start \in Readers
  BY DEF Start, Readers, Text
<1>3. <<>> \in T
  BY <1>1, <1>2, AllWrittenGrows, AfterGrows, ReadEmpty
<1>4. ASSUME NEW fs \in Seq(CefField), NEW f \in CefField, fs \in T PROVE Append(fs, f) \in T
  <2>1. f = <<f[1], f[2]>> /\ f[1] \in Keys /\ f[2] \in Text
    BY DEF CefField
  <2> DEFINE r == After(fs)
             all == Append(fs, f)
  <2>2. r \in Readers /\ ~r.escaped /\ (r.seen = <<>> \/ r.seen[Len(r.seen)] = Gap)
    BY <1>4, AfterGrows
  <2>3. After(all) = Told(r, f[1], Append(Printable(f[2]), Gap))
    BY AfterGrows
  <2>4. AllWritten(all) = AllWritten(fs) \o Written(f) /\ AllWritten(fs) \in Text
    BY AllWrittenGrows
  <2>5. all \in Seq(CefField)
    OBVIOUS
  <2>6. ReadFrom(Start, AllWritten(fs)) = r
    BY <1>4
  <2> HIDE DEF r, all
  <2>7. Written(f) \in Text /\ ReadFrom(r, Written(f)) = Told(r, f[1], Append(Printable(f[2]), Gap))
    <3>1. \A key \in Keys, value \in Text :
             /\ Written(<<key, value>>) \in Text
             /\ ReadFrom(r, Written(<<key, value>>)) = Told(r, key, Append(Printable(value), Gap))
      BY <2>2, ReadWritten
    <3> QED BY <2>1, <3>1
  <2>8. ReadFrom(Start, AllWritten(fs) \o Written(f)) = ReadFrom(r, Written(f))
    BY <1>2, <2>4, <2>6, <2>7, ReadConcat
  <2>9. ReadFrom(r, Written(f)) \in Readers
    BY <2>2, <2>7, ReadType
  <2> QED BY <2>3, <2>4, <2>5, <2>7, <2>8, <2>9 DEF all
<1>5. Seq(CefField) \subseteq T
  <2> HIDE DEF T
  <2> QED BY <1>3, <1>4, SeqInduct
<1> QED BY <1>5

-----------------------------------------------------------------------------
(* The end of the line *)

\* Texts end in the last character appended.
LEMMA LastAppended ==
    ASSUME NEW text \in Text, text # <<>>
    PROVE  \E front \in Text : text = Append(front, text[Len(text)]) /\ text[Len(text)] \in Char
<1> DEFINE n == Len(text)
           front == SubSeq(text, 1, n - 1)
<1>1. n \in Nat /\ n >= 1 /\ \A i \in 1 .. n : text[i] \in Char
  BY DEF Text
<1> HIDE DEF n
<1>2. front \in Seq(Char) /\ Len(front) = n - 1 /\ \A i \in 1 .. n - 1 : front[i] = text[i]
  <2>1. \A i \in 1 .. n - 1 : text[i] \in Char
    BY <1>1
  <2>2. 1 \in Int /\ n - 1 \in Int /\ (n - 1) - 1 + 1 = n - 1
    BY <1>1
  <2> QED BY <1>1, <2>1, <2>2, SubSeqProperties
<1> HIDE DEF front
<1>3. text[n] \in Char
  BY <1>1
<1> DEFINE longer == Append(front, text[n])
<1>4. longer \in Seq(Char) /\ Len(longer) = n /\ \A i \in 1 .. n : longer[i] = text[i]
  <2>1. /\ longer \in Seq(Char) /\ Len(longer) = Len(front) + 1 /\ longer[Len(front) + 1] = text[n]
        /\ \A i \in 1 .. Len(front) : longer[i] = front[i]
    BY <1>2, <1>3, AppendProperties
  <2> HIDE DEF longer
  <2> QED BY <1>1, <1>2, <2>1
<1> HIDE DEF longer
<1>5. longer = text
  <2>1. text \in Seq(Char) /\ Len(text) = n
    BY DEF Text, n
  <2> QED BY <1>4, <2>1, SeqEqual
<1> QED BY <1>2, <1>3, <1>5 DEF longer, n, Text

\* What ends a trimmed text.
LEMMA EndsOfText ==
    /\ {Backslash, "=", "n", "r"} \cap Space = {}
    /\ \A c : c \notin Control \cup {Gap} => c \notin Space
    /\ Gap \in Space /\ Gap \notin Control /\ Gap # Backslash /\ Gap # "="
    /\ Gap \in Char
BY Zenon, CharsOfCef DEF Space, Control, Gap, Backslash

\* Trimming a line takes from its last value the blanks at its end, and nothing from
\* what is escaped.
LEMMA TrimEscaped ==
    ASSUME NEW base \in Text, base # <<>>, base[Len(base)] \notin Space, NEW value \in Text
    PROVE  \E w \in Text : /\ WithoutLast(base \o Escape(value), Space) = base \o Escape(w)
                           /\ Printable(w) = WithoutLast(Printable(value), {Gap})
<1> DEFINE Trims(v) == \E w \in Text : /\ WithoutLast(base \o Escape(v), Space) = base \o Escape(w)
                                       /\ Printable(w) = WithoutLast(Printable(v), {Gap})
           T == {v \in Text : Trims(v)}
<1>0. /\ \A text \in Text, c \in Char :
           /\ WithoutLast(Append(text, c), Space) = IF c \in Space
                THEN WithoutLast(text, Space) ELSE Append(text, c)
           /\ WithoutLast(Append(text, c), {Gap}) = IF c = Gap
                THEN WithoutLast(text, {Gap}) ELSE Append(text, c)
      /\ WithoutLast(<<>>, {Gap}) = <<>>
  <2>1. \A text \in Text, c \in Char : \A chars :
           WithoutLast(Append(text, c), chars) = IF c \in chars
             THEN WithoutLast(text, chars) ELSE Append(text, c)
    BY WithoutLastText
  <2>2. <<>> \in Text
    BY DEF Text
  <2>3. WithoutLast(<<>>, {Gap}) = <<>>
    BY <2>2, WithoutLastText
  <2>4. ASSUME NEW text \in Text, NEW c \in Char
        PROVE  WithoutLast(Append(text, c), {Gap}) = IF c = Gap
                 THEN WithoutLast(text, {Gap}) ELSE Append(text, c)
    <3>1. c \in {Gap} <=> c = Gap
      OBVIOUS
    <3> QED BY <2>1, <3>1, Zenon
  <2> QED BY <2>1, <2>3, <2>4, Zenon
<1>1. <<>> \in Text
  BY DEF Text
<1>2. <<>> \in T
  <2>1. Escape(<<>>) = <<>> /\ Printable(<<>>) = <<>> /\ base \o <<>> = base
    <3>1. \A t \in Text : t \o <<>> = t
      BY DEF Text
    <3> QED BY <1>1, <3>1, EscapeText, PrintableText
  <2>2. WithoutLast(base, Space) = base
    <3>1. PICK front \in Text : base = Append(front, base[Len(base)]) /\ base[Len(base)] \in Char
      BY LastAppended
    <3> QED BY <1>0, <3>1
  <2> QED BY <1>0, <1>1, <2>1, <2>2
<1>3. ASSUME NEW v \in Seq(Char), NEW c \in Char, v \in T PROVE Append(v, c) \in T
  <2>0. v \in Text /\ Append(v, c) \in Text
    <3> HIDE DEF T, Trims
    <3> QED BY DEF Text
  <2>1. v \in Text /\ Append(v, c) \in Text /\ Trims(v)
    BY <1>3, <2>0, Zenon
  <2>2. Escape(v) \in Text /\ Printable(v) \in Text
    <3>1. Escape(v) \in Seq(Char \ Control)
      BY <2>1, EscapeText
    <3> QED BY <2>1, <3>1, PrintableText DEF Text
  <2>3. /\ Escape(Append(v, c)) = Escape(v) \o EscapeChar(c)
        /\ Printable(Append(v, c))
             = IF c \in Control \ {"LF", "CR"} THEN Printable(v) ELSE Append(Printable(v), c)
    BY <2>1, EscapeText, PrintableText
  <2>4. CASE c \in Control \ {"LF", "CR"}
    <3>1. EscapeChar(c) = <<>>
      BY <2>4, CharsOfCef DEF EscapeChar
    <3>2. Escape(v) \o <<>> = Escape(v)
      BY <2>2 DEF Text
    <3> QED BY <2>1, <2>3, <2>4, <3>1, <3>2
  <2>5. CASE c = Gap
    <3>1. c \notin Control /\ c # Backslash /\ c # "=" /\ c \in Space
      BY <2>5, EndsOfText
    <3>2. c # "LF" /\ c # "CR"
      BY <3>1, CharsOfCef
    <3>3. EscapeChar(c) = <<c>> /\ Printable(Append(v, c)) = Append(Printable(v), c)
      BY <2>3, <3>1, <3>2 DEF EscapeChar
    <3>4. base \o Escape(v) \in Text /\ base \o (Escape(v) \o <<c>>) = Append(base \o Escape(v), c)
      <4>1. \A x \in Text, y \in Text, d \in Char : x \o y \in Text /\
              x \o (y \o <<d>>) = Append(x \o y, d)
        BY DEF Text
      <4> QED BY <2>2, <4>1
    <3>5. WithoutLast(Append(base \o Escape(v), c), Space) = WithoutLast(base \o Escape(v), Space)
      BY <1>0, <3>1, <3>4
    <3>6. WithoutLast(Append(Printable(v), c), {Gap}) = WithoutLast(Printable(v), {Gap})
      BY <1>0, <2>2, <2>5
    <3>7. /\ WithoutLast(base \o Escape(Append(v, c)), Space) = WithoutLast(base \o Escape(v), Space)
          /\ WithoutLast(Printable(Append(v, c)), {Gap}) = WithoutLast(Printable(v), {Gap})
      BY <2>3, <3>3, <3>4, <3>5, <3>6, Zenon
    <3>8. Trims(Append(v, c))
      BY <2>1, <3>7, Zenon
    <3> QED BY <2>1, <3>8
  <2>6. CASE c \notin (Control \ {"LF", "CR"}) \cup {Gap}
    <3>1. PICK t \in Text, d \in Char : d \notin Space /\ EscapeChar(c) = Append(t, d)
      <4>1. <<Backslash>> \in Text /\ <<>> \in Text
        <5>1. Backslash \in Char
          BY CharsOfCef
        <5> QED BY <5>1 DEF Text
      <4>2. \A d \in Char : /\ Escaped(d) = Append(<<Backslash>>, d)
                            /\ <<d>> = Append(<<>>, d)
        <5>1. Backslash \in Char
          BY CharsOfCef
        <5>2. \A x \in Char, d \in Char : <<x, d>> = Append(<<x>>, d) /\ <<d>> = Append(<<>>, d)
          OBVIOUS
        <5> QED BY <5>1, <5>2 DEF Escaped
      <4>3. Backslash \in Char /\ "=" \in Char /\ "n" \in Char /\ "r" \in Char
        BY CharsOfCef
      <4>4. Backslash \notin Space /\ "=" \notin Space /\ "n" \notin Space /\ "r" \notin Space
        BY EndsOfText
      <4>5. CASE c \in {Backslash, "=", "LF", "CR"}
        <5>1. PICK d \in {Backslash, "=", "n", "r"} : EscapeChar(c) = Escaped(d)
          BY <4>5 DEF EscapeChar
        <5> QED BY <4>1, <4>2, <4>3, <4>4, <5>1
      <4>6. CASE c \notin {Backslash, "=", "LF", "CR"}
        <5>1. c \notin Control /\ c \notin Space
          BY <2>6, <4>6, EndsOfText
        <5>2. EscapeChar(c) = <<c>>
          BY <4>6, <5>1 DEF EscapeChar
        <5> QED BY <4>1, <4>2, <5>1, <5>2
      <4> QED BY <4>5, <4>6
    <3>2. /\ base \o (Escape(v) \o Append(t, d)) = Append(base \o Escape(v) \o t, d)
          /\ base \o Escape(v) \o t \in Text
      <4>1. \A x \in Text, y \in Text, e \in Char : x \o y \in Text /\
              x \o Append(y, e) = Append(x \o y, e)
        BY DEF Text
      <4>2. base \o (Escape(v) \o t) = base \o Escape(v) \o t
        <5>1. base \in Seq(Char) /\ Escape(v) \in Seq(Char) /\ t \in Seq(Char)
          BY <2>2 DEF Text
        <5> QED BY <5>1, ConcatAssociative
      <4> DEFINE u == Escape(v) \o t
      <4>3. u \in Text /\ Escape(v) \o Append(t, d) = Append(u, d)
        BY <2>2, <4>1
      <4>4. base \o u = base \o Escape(v) \o t
        BY <4>2
      <4>5. base \o u \in Text /\ base \o Append(u, d) = Append(base \o u, d)
        <5> HIDE DEF u
        <5> QED BY <4>1, <4>3
      <4> HIDE DEF u
      <4> QED BY <4>3, <4>4, <4>5
    <3>3. WithoutLast(Append(base \o Escape(v) \o t, d), Space) = Append(base \o Escape(v) \o t, d)
      BY <1>0, <3>1, <3>2
    <3>4. WithoutLast(base \o Escape(Append(v, c)), Space) = base \o Escape(Append(v, c))
      BY <2>3, <3>1, <3>2, <3>3, Zenon
    <3>5. Printable(Append(v, c)) = Append(Printable(v), c) /\ c # Gap
      BY <2>3, <2>6
    <3>6. WithoutLast(Append(Printable(v), c), {Gap}) = Append(Printable(v), c)
      BY <1>0, <2>2, <3>5
    <3>7. Trims(Append(v, c))
      BY <2>1, <3>4, <3>5, <3>6, Zenon
    <3> QED BY <2>1, <3>7
  <2> QED BY <2>4, <2>5, <2>6
<1>4. Seq(Char) \subseteq T
  <2> HIDE DEF T
  <2> QED BY <1>2, <1>3, SeqInduct
<1> QED BY <1>4 DEF Text

\* Concatenations in the other order.
LEMMA TextsConcat ==
    ASSUME NEW x \in Text, NEW y \in Text
    PROVE  /\ x \o y \in Text
           /\ \A z \in Text : (x \o y) \o z = x \o (y \o z)
           /\ \A c \in Char : x \o (y \o <<c>>) = Append(x \o y, c) /\ <<c>> \in Text
<1>1. x \o y \in Text
  BY DEF Text
<1>2. \A z \in Text : (x \o y) \o z = x \o (y \o z)
  BY DEF Text
<1>3. \A c \in Char : x \o (y \o <<c>>) = Append(x \o y, c) /\ <<c>> \in Text
  BY DEF Text
<1> QED BY <1>1, <1>2, <1>3

\* So is a character more.
LEMMA OneMore ==
    ASSUME NEW x \in Text, NEW y \in Text, NEW c \in Char
    PROVE  x \o (y \o <<c>>) = Append(x \o y, c)
BY DEF Text

\* A collector reads the fields of a line, and what is to arrive of their values.
LEMMA ReadLine ==
    ASSUME NEW fields \in Seq(CefField), NEW f \in CefField
    PROVE  LET all == Append(fields, f)
               kept(k) == IF k = Len(all) THEN WithoutLast(Printable(all[k][2]), {Gap})
                          ELSE Printable(all[k][2])
           IN  ReadCef(WithoutLast(AllWritten(all), Space))
             = [k \in DOMAIN all |-> <<all[k][1], kept(k)>>]
<1> DEFINE all == Append(fields, f)
           key == f[1]
           value == f[2]
           base == AllWritten(fields) \o (key \o <<"=">>)
           n == Len(fields)
<1>1. f = <<key, value>> /\ key \in Keys /\ value \in Text
  BY DEF CefField
<1>2. /\ key \in Text /\ AllWritten(fields) \in Text /\ Escape(value) \in Text
      /\ "=" \in Char /\ <<"=">> \in Text /\ "=" \notin Space
  <2>1. Escape(value) \in Seq(Char \ Control)
    BY <1>1, EscapeText
  <2>2. key \in Text /\ Escape(value) \in Text
    BY <1>1, <2>1 DEF Keys, Text
  <2>3. "=" \in Char /\ "=" \notin Space
    BY CharsOfCef, EndsOfText
  <2>4. <<"=">> \in Text
    BY <2>3 DEF Text
  <2> QED BY <2>2, <2>3, <2>4, AllWrittenGrows
<1> HIDE DEF key, value
<1>3. base \in Text /\ base # <<>> /\ base[Len(base)] = "="
  <2> DEFINE before == AllWritten(fields) \o key
  <2>1. before \in Text /\ base = Append(before, "=")
    <3>1. before \in Text
      BY <1>2, TextsConcat
    <3>2. AllWritten(fields) \o (key \o <<"=">>) = Append(AllWritten(fields) \o key, "=")
      BY <1>2, OneMore
    <3> QED BY <3>1, <3>2
  <2>2. /\ Append(before, "=") \in Text /\ Append(before, "=") # <<>>
        /\ Append(before, "=")[Len(Append(before, "="))] = "="
    <3>1. \A t \in Text, c \in Char : Append(t, c) \in Text /\ Append(t, c) # <<>> /\
            Append(t, c)[Len(Append(t, c))] = c
      BY DEF Text
    <3> QED BY <1>2, <2>1, <3>1
  <2> HIDE DEF before, base
  <2> QED BY <2>1, <2>2
<1>4. AllWritten(all) = Append(base \o Escape(value), Gap)
  <2>1. AllWritten(all) = AllWritten(fields) \o Written(f)
    BY AllWrittenGrows
  <2>2. Written(f) = key \o <<"=">> \o Escape(value) \o <<Gap>>
    BY Zenon DEF Written, Gap, key, value
  <2>3. Gap \in Char
    BY EndsOfText
  <2>4. \A x \in Text, y \in Text, z \in Text : x \o ((y \o z) \o <<Gap>>) = Append((x \o y) \o z, Gap)
    <3> TAKE x \in Text, y \in Text, z \in Text
    <3> DEFINE u == y \o z
    <3>1. u \in Text /\ x \o u = (x \o y) \o z
      <4>1. y \o z \in Text
        BY TextsConcat
      <4>2. (x \o y) \o z = x \o (y \o z)
        BY TextsConcat, Zenon
      <4> QED BY <4>1, <4>2
    <3> HIDE DEF u
    <3>2. x \o (u \o <<Gap>>) = Append(x \o u, Gap)
      <4>1. \A a \in Text, b \in Text : a \o (b \o <<Gap>>) = Append(a \o b, Gap)
        BY <2>3, OneMore, Zenon
      <4> QED BY <3>1, <4>1, Zenon
    <3> QED BY <3>1, <3>2 DEF u
  <2>5. key \o <<"=">> \in Text
    BY <1>2, TextsConcat
  <2>6. AllWritten(fields) \o ((key \o <<"=">>) \o Escape(value) \o <<Gap>>)
          = Append(base \o Escape(value), Gap)
    BY <1>2, <2>4, <2>5
  <2> QED BY <2>1, <2>2, <2>6, Zenon
<1>5. PICK w \in Text : /\ WithoutLast(AllWritten(all), Space) = base \o Escape(w)
                        /\ Printable(w) = WithoutLast(Printable(value), {Gap})
  <2>1. PICK w \in Text : /\ WithoutLast(base \o Escape(value), Space) = base \o Escape(w)
                          /\ Printable(w) = WithoutLast(Printable(value), {Gap})
    <3> HIDE DEF base
    <3>1. base[Len(base)] \notin Space
      BY <1>2, <1>3
    <3> QED BY <1>1, <1>3, <3>1, TrimEscaped
  <2>2. WithoutLast(AllWritten(all), Space) = WithoutLast(base \o Escape(value), Space)
    <3>1. Gap \in Char /\ Gap \in Space
      BY EndsOfText
    <3> HIDE DEF base
    <3>2. base \o Escape(value) \in Text
      BY <1>2, <1>3, TextsConcat
    <3>3. WithoutLast(Append(base \o Escape(value), Gap), Space)
            = WithoutLast(base \o Escape(value), Space)
      BY <3>1, <3>2, WithoutLastText
    <3> QED BY <1>4, <3>3
  <2> QED BY <2>1, <2>2
<1> DEFINE r == After(fields)
           end == Told(r, key, Printable(w))
<1>6. ReadFrom(Start, base \o Escape(w)) = end
  <2>1. r \in Readers /\ ReadFrom(Start, AllWritten(fields)) = r
    BY ReadAllWritten
  <2>2. ~r.escaped /\ (r.seen = <<>> \/ r.seen[Len(r.seen)] = Gap)
    BY AfterGrows
  <2> HIDE DEF r
  <2>3. ReadFrom(r, key \o <<"=">> \o Escape(w)) = end
    BY <1>1, <2>1, <2>2, ReadField
  <2>4. Escape(w) \in Text /\ key \o <<"=">> \in Text
    <3>1. Escape(w) \in Seq(Char \ Control)
      BY EscapeText
    <3> QED BY <1>2, <3>1, TextsConcat DEF Text
  <2>5. base \o Escape(w) = AllWritten(fields) \o (key \o <<"=">> \o Escape(w))
    <3> DEFINE u == key \o <<"=">>
    <3>1. u \in Text
      BY <2>4
    <3> HIDE DEF u
    <3>2. (AllWritten(fields) \o u) \o Escape(w) = AllWritten(fields) \o (u \o Escape(w))
      <4>1. \A a \in Text, b \in Text, c \in Text : (a \o b) \o c = a \o (b \o c)
        BY TextsConcat
      <4>2. Escape(w) \in Text /\ AllWritten(fields) \in Text
        BY <1>2, <2>4
      <4> QED BY <3>1, <4>1, <4>2, Zenon
    <3> QED BY <3>2 DEF u
  <2>6. key \o <<"=">> \o Escape(w) \in Text /\ Start \in Readers
    BY <2>4, TextsConcat DEF Start, Readers, Text
  <2>7. ReadFrom(Start, AllWritten(fields) \o (key \o <<"=">> \o Escape(w)))
          = ReadFrom(r, key \o <<"=">> \o Escape(w))
    BY <1>2, <2>1, <2>6, ReadConcat
  <2> HIDE DEF base, end
  <2> QED BY <2>3, <2>5, <2>7, Zenon
<1>7. After(all) = Told(r, key, Append(Printable(value), Gap))
  BY AfterGrows DEF key, value
<1>8. end.keys = After(all).keys /\ end.values = After(all).values /\ end.seen = Printable(w)
  <2> HIDE DEF r, all
  <2> QED BY <1>7 DEF Told
<1>9. /\ all \in Seq(CefField) /\ Len(all) = n + 1 /\ all[n + 1] = f
      /\ DOMAIN all = 1 .. n + 1 /\ n \in Nat
  OBVIOUS
<1> HIDE DEF end, r, base, all, n
<1>10. /\ end.keys = [k \in 1 .. n + 1 |-> all[k][1]]
       /\ end.values = [k \in 1 .. n + 1 |-> IF k = 1 THEN <<>> ELSE Printable(all[k - 1][2])]
  BY <1>8, <1>9 DEF After
<1> DEFINE values == Append(end.values, end.seen)
           kept(k) == IF k = n + 1 THEN WithoutLast(Printable(all[k][2]), {Gap})
                      ELSE Printable(all[k][2])
<1>11. ReadCef(base \o Escape(w)) = [k \in 1 .. n + 1 |-> <<all[k][1], values[k + 1]>>]
  <2>1. ReadCef(base \o Escape(w)) = [k \in DOMAIN end.keys |-> <<end.keys[k], values[k + 1]>>]
    BY <1>6, Zenon DEF ReadCef
  <2> HIDE DEF values
  <2> QED BY <1>10, <2>1
<1>12. ASSUME NEW k \in 1 .. n + 1 PROVE values[k + 1] = kept(k)
  <2>1. \A i \in 1 .. n + 1 : all[i][2] \in Text
    <3>1. \A i \in 1 .. n + 1 : all[i] \in CefField
      BY <1>9, ElementOfSeq
    <3> QED BY <3>1 DEF CefField
  <2>2. end.seen \in Text
    BY <1>8, PrintableText
  <2>3. end.values \in Seq(Text) /\ Len(end.values) = n + 1
    <3>1. \A i \in 1 .. n + 1 : i # 1 => i - 1 \in 1 .. n + 1
      BY <1>9
    <3>2. \A i \in 1 .. n + 1 : (IF i = 1 THEN <<>> ELSE Printable(all[i - 1][2])) \in Text
      <4>1. <<>> \in Text
        BY DEF Text
      <4> QED BY <2>1, <3>1, <4>1, PrintableText
    <3>3. end.values \in [1 .. n + 1 -> Text]
      BY <1>10, <3>2
    <3>4. n + 1 \in Nat
      BY <1>9
    <3> HIDE DEF n
    <3> QED BY <3>3, <3>4
  <2>4. /\ \A i \in 1 .. n + 1 : values[i] = end.values[i]
        /\ values[n + 2] = end.seen
    <3>1. \A s \in Seq(Text), t \in Text :
             /\ \A i \in 1 .. Len(s) : Append(s, t)[i] = s[i]
             /\ Append(s, t)[Len(s) + 1] = t
      BY AppendProperties
    <3>2. n + 2 = (n + 1) + 1
      BY <1>9
    <3> QED BY <2>2, <2>3, <3>1, <3>2
  <2> HIDE DEF values
  <2>5. CASE k = n + 1
    <3>1. k + 1 = n + 2 /\ all[k] = f
      BY <1>9, <2>5
    <3>2. kept(k) = WithoutLast(Printable(value), {Gap})
      BY <2>5, <3>1 DEF value
    <3> QED BY <1>5, <1>8, <2>4, <3>1, <3>2
  <2>6. CASE k # n + 1
    <3>1. k + 1 \in 1 .. n + 1 /\ k + 1 # 1 /\ (k + 1) - 1 = k
      BY <1>9, <2>6
    <3>2. end.values[k + 1] = Printable(all[k][2])
      <4>1. end.values[k + 1] = Printable(all[(k + 1) - 1][2])
        BY <1>10, <3>1
      <4> QED BY <3>1, <4>1
    <3> QED BY <2>4, <2>6, <3>1, <3>2
  <2> QED BY <2>5, <2>6
<1>13. ReadCef(base \o Escape(w)) = [k \in 1 .. n + 1 |-> <<all[k][1], kept(k)>>]
  <2> HIDE DEF values, kept
  <2> QED BY <1>11, <1>12
<1> QED BY <1>5, <1>9, <1>13, Zenon DEF all

-----------------------------------------------------------------------------
(* The records and their fields *)

MaybeText == Text \cup {None}

RecordTypes ==
    [class : {"NetworkActivity"}, type : Text, client_guid : Text, client_instance_guid : MaybeText,
     ip : MaybeText,
     tls : [version : Text, cipher : MaybeText, fingerprint : MaybeText] \cup {None},
     protocol : MaybeText]
    \cup [class : {"ApiActivity"}, type : Text, uid : Text, name : Text, actor : MaybeText]
    \cup [class : {"DetectionFinding"}, type : Text, desc : Text, suser : MaybeText]

KeyWords == {"deviceCustomNumber1", "deviceCustomString1", "deviceCustomString2",
             "deviceCustomString3", "deviceCustomString4", "Label", "app", "src", "msg", "suser"}

LabelWords == {"type_uid", "client_guid", "tls_version", "cipher", "cert_thumbprint", "service_uid",
               "service_name"}

\* The words of the extension.
LEMMA WordsOfCef ==
    /\ \A k \in KeyWords : k \in Char \ ({Backslash, "=", Gap} \cup Control)
    /\ \A l \in LabelWords : l \in Char
<1>1. \A k \in KeyWords : k \in Words
  BY Zenon DEF KeyWords, Words
<1>2. \A k \in KeyWords : k # Backslash /\ k # "=" /\ k # Gap
  BY Zenon DEF KeyWords, Backslash, Gap
<1>3. \A k \in KeyWords : k \notin Control
  BY Zenon DEF KeyWords, Control
<1>4. \A l \in LabelWords : l \in Words
  BY Zenon DEF LabelWords, Words
<1>5. Words \subseteq Char
  BY Zenon DEF Char
<1> QED BY <1>1, <1>2, <1>3, <1>4, <1>5

\* A field with its label.
LEMMA FieldTypes ==
    ASSUME NEW key \in KeyWords, NEW value \in MaybeText
    PROVE  /\ Plainly(key, value) \in Seq(CefField)
           /\ \A label \in LabelWords :
                /\ Labelled(key, label, value) \in Seq(CefField)
                /\ value \in Text => Labelled(key, label, value) # <<>>
<1>1. \A k \in KeyWords : k \in Char \ ({Backslash, "=", Gap} \cup Control)
  BY WordsOfCef
<1>2. "Label" \in KeyWords
  BY DEF KeyWords
<1>3. <<key>> \in Keys /\ <<key, "Label">> \in Keys
  BY <1>1, <1>2 DEF Keys
<1>4. value # None => value \in Text
  BY DEF MaybeText
<1>5. value \in Text => value # None
  BY TextsAssumption
<1>6. Plainly(key, value) \in Seq(CefField)
  <2>1. \A a \in CefField : <<a>> \in Seq(CefField)
    OBVIOUS
  <2>2. value # None => <<<<key>>, value>> \in CefField
    BY <1>3, <1>4 DEF CefField
  <2> QED BY <2>1, <2>2 DEF Plainly
<1>7. ASSUME NEW label \in LabelWords
      PROVE  /\ Labelled(key, label, value) \in Seq(CefField)
             /\ value \in Text => Labelled(key, label, value) # <<>>
  <2>1. <<label>> \in Text
    BY WordsOfCef DEF Text
  <2>2. CASE value = None
    BY <1>5, <2>2 DEF Labelled
  <2>3. CASE value # None
    <3>1. <<<<key>>, value>> \in CefField /\ <<<<key, "Label">>, <<label>>>> \in CefField
      BY <1>3, <1>4, <2>1, <2>3 DEF CefField
    <3>2. Labelled(key, label, value) = <<<<<<key>>, value>>, <<<<key, "Label">>, <<label>>>>>>
      BY <2>3 DEF Labelled
    <3>3. \A a \in CefField, b \in CefField : <<a, b>> \in Seq(CefField) /\ <<a, b>> # <<>>
      OBVIOUS
    <3> QED BY <3>1, <3>2, <3>3
  <2> QED BY <2>2, <2>3
<1> QED BY <1>6, <1>7

\* Joined fields are fields.
LEMMA Joined ==
    ASSUME NEW S, NEW s \in Seq(S), NEW t \in Seq(S)
    PROVE  s \o t \in Seq(S) /\ (s # <<>> \/ t # <<>> => s \o t # <<>>)
<1>1. s \o t \in Seq(S) /\ Len(s \o t) = Len(s) + Len(t)
  OBVIOUS
<1>2. s # <<>> => Len(s) > 0
  OBVIOUS
<1>3. t # <<>> => Len(t) > 0
  OBVIOUS
<1>4. Len(s) \in Nat /\ Len(t) \in Nat
  OBVIOUS
<1>5. s # <<>> \/ t # <<>> => Len(s \o t) > 0
  BY <1>1, <1>2, <1>3, <1>4
<1> QED BY <1>1, <1>5

\* The extension of a record is not empty.
LEMMA CefFieldsType ==
    ASSUME NEW r \in RecordTypes
    PROVE  CefFields(r) \in Seq(CefField) /\ CefFields(r) # <<>>
<1> DEFINE number == Labelled("deviceCustomNumber1", "type_uid", r.type)
           F == Seq(CefField)
<1>1. \A s \in F, t \in F : s \o t \in F /\ (s # <<>> \/ t # <<>> => s \o t # <<>>)
  BY Joined
<1>2. \A key \in KeyWords, value \in MaybeText :
        Plainly(key, value) \in F /\ \A label \in LabelWords : Labelled(key, label, value) \in F
  BY FieldTypes
<1>3. r.type \in Text /\ number \in F /\ number # <<>>
  <2>1. r.type \in Text
    BY DEF RecordTypes
  <2>2. r.type \in MaybeText /\ "deviceCustomNumber1" \in KeyWords /\ "type_uid" \in LabelWords
    BY <2>1 DEF MaybeText, KeyWords, LabelWords
  <2> QED BY <2>1, <2>2, FieldTypes
<1> HIDE DEF number, F
<1>4. CASE r.class = "NetworkActivity"
  <2> DEFINE tls(field) == IF r.tls = None THEN None ELSE r.tls[field]
             version == IF tls("version") = <<>> THEN None ELSE tls("version")
             a == Plainly("app", r.protocol)
             b == Labelled("deviceCustomString1", "client_guid", r.client_guid)
             c == Labelled("deviceCustomString2", "tls_version", version)
             d == Labelled("deviceCustomString3", "cipher", tls("cipher"))
             e == Labelled("deviceCustomString4", "cert_thumbprint", tls("fingerprint"))
             f == Plainly("src", r.ip)
  <2>1. /\ r.protocol \in MaybeText /\ r.client_guid \in MaybeText /\ r.ip \in MaybeText
        /\ r.tls # None => r.tls \in [version : Text, cipher : MaybeText, fingerprint : MaybeText]
    BY <1>4 DEF RecordTypes, MaybeText
  <2>2. version \in MaybeText /\ tls("cipher") \in MaybeText /\ tls("fingerprint") \in MaybeText
    BY <2>1 DEF MaybeText
  <2> HIDE DEF version, tls
  <2>3. /\ {"app", "src", "deviceCustomString1", "deviceCustomString2",
            "deviceCustomString3", "deviceCustomString4"} \subseteq KeyWords
        /\ {"client_guid", "tls_version", "cipher", "cert_thumbprint"} \subseteq LabelWords
    BY DEF KeyWords, LabelWords
  <2>4. a \in F /\ b \in F /\ c \in F /\ d \in F /\ e \in F /\ f \in F
    BY <1>2, <2>1, <2>2, <2>3
  <2>5. CefFields(r) = a \o number \o b \o c \o d \o e \o f
    BY <1>4 DEF CefFields, number, version, tls
  <2> HIDE DEF a, b, c, d, e, f
  <2>6. a \o number \in F /\ a \o number # <<>>
    BY <1>1, <1>3, <2>4
  <2>7. a \o number \o b \in F /\ a \o number \o b # <<>>
    BY <1>1, <2>4, <2>6
  <2>8. a \o number \o b \o c \in F /\ a \o number \o b \o c # <<>>
    BY <1>1, <2>4, <2>7
  <2>9. a \o number \o b \o c \o d \in F /\ a \o number \o b \o c \o d # <<>>
    BY <1>1, <2>4, <2>8
  <2>10. a \o number \o b \o c \o d \o e \in F /\ a \o number \o b \o c \o d \o e # <<>>
    BY <1>1, <2>4, <2>9
  <2> QED BY <1>1, <2>4, <2>5, <2>10 DEF F
<1>5. CASE r.class = "ApiActivity"
  <2> DEFINE a == Labelled("deviceCustomString1", "service_uid", r.uid)
             b == Labelled("deviceCustomString2", "service_name", r.name)
             c == Labelled("deviceCustomString3", "client_guid", r.actor)
  <2>1. r.uid \in MaybeText /\ r.name \in MaybeText /\ r.actor \in MaybeText
    BY <1>5 DEF RecordTypes, MaybeText
  <2>2. /\ {"deviceCustomString1", "deviceCustomString2", "deviceCustomString3"} \subseteq KeyWords
        /\ {"service_uid", "service_name", "client_guid"} \subseteq LabelWords
    BY DEF KeyWords, LabelWords
  <2>3. a \in F /\ b \in F /\ c \in F
    BY <1>2, <2>1, <2>2
  <2>4. CefFields(r) = number \o a \o b \o c
    BY <1>5 DEF CefFields, number
  <2> HIDE DEF a, b, c
  <2>5. number \o a \in F /\ number \o a # <<>>
    BY <1>1, <1>3, <2>3
  <2>6. number \o a \o b \in F /\ number \o a \o b # <<>>
    BY <1>1, <2>3, <2>5
  <2> QED BY <1>1, <2>3, <2>4, <2>6 DEF F
<1>6. CASE r.class = "DetectionFinding"
  <2> DEFINE a == Plainly("msg", r.desc)
             b == Plainly("suser", r.suser)
  <2>1. r.desc \in MaybeText /\ r.suser \in MaybeText
    BY <1>6 DEF RecordTypes, MaybeText
  <2>2. {"msg", "suser"} \subseteq KeyWords
    BY DEF KeyWords
  <2>3. a \in F /\ b \in F
    BY <1>2, <2>1, <2>2
  <2>4. CefFields(r) = number \o a \o b
    BY <1>6 DEF CefFields, number
  <2> HIDE DEF a, b
  <2>5. number \o a \in F /\ number \o a # <<>>
    BY <1>1, <1>3, <2>3
  <2> QED BY <1>1, <2>3, <2>4, <2>5 DEF F
<1> QED BY <1>4, <1>5, <1>6 DEF RecordTypes

-----------------------------------------------------------------------------
(* The lines of a record *)

\* A text without its last characters is a part of it.
LEMMA WithoutLastIsPart ==
    ASSUME NEW S, NEW text \in Seq(S), NEW chars PROVE WithoutLast(text, chars) \in Seq(S)
<1> DEFINE left == {i \in DOMAIN text : text[i] \notin chars} \cup {0}
           n == Len(text)
<1>1. n \in Nat /\ DOMAIN text = 1 .. n /\ \A i \in 1 .. n : text[i] \in S
  OBVIOUS
<1> HIDE DEF n
<1>2. left \in SUBSET (0 .. n) /\ left # {}
  <2>1. 0 \in left /\ \A i \in left : i \in 1 .. n \/ i = 0
    BY <1>1
  <2>2. \A i \in left : i \in 0 .. n
    BY <1>1, <2>1
  <2> HIDE DEF left
  <2> QED BY <2>1, <2>2
<1>3. WithoutLast(text, chars) = SubSeq(text, 1, Max(left))
  BY DEF WithoutLast
<1> HIDE DEF left
<1>4. Max(left) \in 0 .. n
  BY <1>1, <1>2, MaxExists
<1> DEFINE m == Max(left)
<1> HIDE DEF m
<1>5. m \in Int /\ 1 \in Int /\ \A i \in 1 .. m : text[i] \in S
  BY <1>1, <1>4 DEF m
<1>6. SubSeq(text, 1, m) \in Seq(S)
  BY <1>5, SubSeqProperties
<1> QED BY <1>3, <1>6 DEF m

\* The CEF line of a record has no control character.
LEMMA CefIsOneLine ==
    ASSUME NEW r \in RecordTypes PROVE ToSet(FormatCef(r)) \cap Control = {}
<1> DEFINE S == Char \ Control
           fields == CefFields(r)
           written == [i \in DOMAIN fields |-> Written(fields[i])]
<1>1. fields \in Seq(CefField)
  BY CefFieldsType
<1>2. ASSUME NEW f \in CefField PROVE Written(f) \in Seq(S)
  <2>1. f[1] \in Keys /\ f[2] \in Text
    BY DEF CefField
  <2>2. "=" \in S /\ Gap \in S
    BY CharsOfCef, EndsOfText
  <2>3. Escape(f[2]) \in Seq(S)
    BY <2>1, EscapeText
  <2>4. f[1] \in Seq(S) /\ <<"=">> \in Seq(S) /\ <<Gap>> \in Seq(S)
    BY <2>1, <2>2 DEF Keys
  <2>5. Written(f) = f[1] \o <<"=">> \o Escape(f[2]) \o <<Gap>>
    BY Zenon DEF Written, Gap
  <2> HIDE DEF S
  <2> QED BY <2>3, <2>4, <2>5, ConcatProperties
<1> HIDE DEF fields, S
<1>3. written \in Seq(Seq(S))
  <2>1. DOMAIN fields = 1 .. Len(fields) /\ Len(fields) \in Nat
    BY <1>1
  <2>2. \A i \in 1 .. Len(fields) : Written(fields[i]) \in Seq(S)
    BY <1>1, <1>2, ElementOfSeq
  <2> QED BY <2>1, <2>2
<1>4. FormatCef(r) = WithoutLast(FlattenSeq(written), Space)
  BY Zenon DEF FormatCef, TrimEnd, fields
<1> HIDE DEF written
<1>5. FormatCef(r) \in Seq(S)
  BY <1>3, <1>4, FlattenType, WithoutLastIsPart
<1>6. \A i \in DOMAIN FormatCef(r) : FormatCef(r)[i] \in S
  BY <1>5, ElementOfSeq
<1> QED BY <1>6 DEF ToSet, S

\* Nor has the plain line.
LEMMA PlainIsOneLine ==
    ASSUME NEW r PROVE ToSet(Plain(r)) \cap Control = {}
<1> DEFINE who == Or(Principal(r), <<"-">>)
<1>1. Plain(r) = [i \in DOMAIN who |-> IF who[i] \in Control THEN Gap ELSE who[i]]
  BY Zenon DEF Plain, Gap
<1> HIDE DEF who
<1>2. Gap \notin Control
  BY EndsOfText
<1>3. DOMAIN Plain(r) = DOMAIN who /\ \A i \in DOMAIN who : Plain(r)[i] \notin Control
  BY <1>1, <1>2
<1> QED BY <1>3 DEF ToSet

\* A collector reads the record from its CEF line.
LEMMA CefIsRead ==
    ASSUME NEW r \in RecordTypes
    PROVE  LET fields == CefFields(r)
               kept(k) == IF k = Len(fields) THEN WithoutLast(Printable(fields[k][2]), {" "})
                          ELSE Printable(fields[k][2])
           IN  ReadCef(FormatCef(r)) = [k \in DOMAIN fields |-> <<fields[k][1], kept(k)>>]
<1> DEFINE fields == CefFields(r)
           n == Len(fields)
           front == SubSeq(fields, 1, n - 1)
<1>1. fields \in Seq(CefField) /\ fields # <<>>
  BY CefFieldsType
<1> HIDE DEF fields
<1>2. n \in Nat /\ n >= 1 /\ \A i \in 1 .. n : fields[i] \in CefField
  BY <1>1
<1>3. front \in Seq(CefField) /\ Len(front) = n - 1 /\ \A i \in 1 .. n - 1 : front[i] = fields[i]
  <2> HIDE DEF n
  <2>1. \A i \in 1 .. n - 1 : fields[i] \in CefField
    BY <1>2
  <2>2. 1 \in Int /\ n - 1 \in Int /\ (n - 1) - 1 + 1 = n - 1
    BY <1>2
  <2> QED BY <1>2, <2>1, <2>2, SubSeqProperties
<1>4. fields[n] \in CefField
  BY <1>2
<1>5. Append(front, fields[n]) = fields
  <2> DEFINE longer == Append(front, fields[n])
  <2> HIDE DEF front, n
  <2>1. longer \in Seq(CefField) /\ Len(longer) = n /\ \A i \in 1 .. n : longer[i] = fields[i]
    <3>1. /\ longer \in Seq(CefField) /\ Len(longer) = Len(front) + 1
          /\ longer[Len(front) + 1] = fields[n]
          /\ \A i \in 1 .. Len(front) : longer[i] = front[i]
      BY <1>3, <1>4, AppendProperties
    <3> HIDE DEF longer
    <3> QED BY <1>2, <1>3, <3>1
  <2> HIDE DEF longer
  <2>2. Len(fields) = n
    BY DEF n
  <2>3. longer = fields
    BY <1>1, <2>1, <2>2, SeqEqual
  <2> QED BY <2>3 DEF longer
<1> HIDE DEF front, n
<1>6. LET all == Append(front, fields[n])
          kept(k) == IF k = Len(all) THEN WithoutLast(Printable(all[k][2]), {Gap})
                     ELSE Printable(all[k][2])
      IN  ReadCef(WithoutLast(AllWritten(all), Space)) = [k \in DOMAIN all |-> <<all[k][1], kept(k)>>]
  BY <1>3, <1>4, ReadLine
<1>7. ReadCef(WithoutLast(AllWritten(fields), Space))
        = [k \in DOMAIN fields |->
             <<fields[k][1], IF k = Len(fields) THEN WithoutLast(Printable(fields[k][2]), {Gap})
                             ELSE Printable(fields[k][2])>>]
  BY <1>5, <1>6
<1>8. FormatCef(r) = WithoutLast(AllWritten(fields), Space)
  BY Zenon DEF FormatCef, TrimEnd, AllWritten, fields
<1> QED BY <1>7, <1>8, Zenon DEF Gap, fields

-----------------------------------------------------------------------------
(* The records of a message *)

\* The parts between the separators are texts, and there is one at least.
LEMMA SplitType ==
    ASSUME NEW text \in Text, NEW separator
    PROVE  Split(text, separator) \in Seq(Text) /\ Len(Split(text, separator)) >= 1
<1>1. PICK n \in Nat : n = Len(text)
  BY DEF Text
<1> DEFINE N == 0 .. n + 1
           piece(i) == IF text[i] = separator THEN <<i>> ELSE <<>>
           places == Places(text, separator)
           cuts == <<0>> \o places \o <<n + 1>>
<1>2. places \in Seq(N)
  <2>1. DOMAIN text = 1 .. n
    BY <1>1 DEF Text
  <2>2. \A i \in 1 .. n : i \in N
    BY <1>1
  <2> HIDE DEF N
  <2>3. \A i \in 1 .. n : piece(i) \in Seq(N)
    BY <2>2
  <2> DEFINE pieces == [i \in 1 .. n |-> piece(i)]
  <2>4. pieces \in Seq(Seq(N))
    <3> HIDE DEF piece
    <3> QED BY <1>1, <2>3
  <2>5. places = FlattenSeq(pieces)
    BY <2>1 DEF Places
  <2> HIDE DEF pieces
  <2> QED BY <2>4, <2>5, FlattenType
<1>3. 0 \in N /\ n + 1 \in N
  BY <1>1
<1>4. cuts \in Seq(N) /\ Len(cuts) >= 2
  <2> HIDE DEF N, places
  <2>1. <<0>> \in Seq(N) /\ <<n + 1>> \in Seq(N) /\ Len(<<0>>) = 1 /\ Len(<<n + 1>>) = 1
    BY <1>3
  <2>2. <<0>> \o places \in Seq(N) /\ Len(<<0>> \o places) = 1 + Len(places) /\ Len(places) \in Nat
    BY <1>2, <2>1, ConcatProperties
  <2>3. cuts \in Seq(N) /\ Len(cuts) = Len(<<0>> \o places) + 1
    BY <2>1, <2>2, ConcatProperties
  <2> HIDE DEF cuts
  <2> QED BY <2>2, <2>3
<1> HIDE DEF cuts, places
<1>5. PICK m \in Nat : m = Len(cuts) - 1 /\ m >= 1
  BY <1>4
<1>6. \A k \in 1 .. m : SubSeq(text, cuts[k] + 1, cuts[k + 1] - 1) \in Text
  <2> TAKE k \in 1 .. m
  <2>1. k \in 1 .. Len(cuts) /\ k + 1 \in 1 .. Len(cuts)
    BY <1>4, <1>5
  <2>2. cuts[k] \in N /\ cuts[k + 1] \in N
    <3> HIDE DEF N
    <3> QED BY <1>4, <2>1, ElementOfSeq
  <2>3. /\ cuts[k] + 1 \in Int /\ cuts[k + 1] - 1 \in Int
        /\ cuts[k] + 1 >= 1 /\ cuts[k + 1] - 1 <= n
    BY <1>1, <2>2
  <2> QED BY <1>1, <2>3, SubText
<1>7. Split(text, separator) = [k \in 1 .. m |-> SubSeq(text, cuts[k] + 1, cuts[k + 1] - 1)]
  BY <1>1, <1>5 DEF Split, cuts, places
<1> QED BY <1>5, <1>6, <1>7

\* A trimmed text is a text.
LEMMA TrimType ==
    ASSUME NEW text \in Text PROVE Trim(text) \in Text
<1> DEFINE inked == Inked(text)
<1>1. PICK n \in Nat : n = Len(text)
  BY DEF Text
<1>2. inked \in SUBSET (0 .. n) /\ \A i \in inked : i >= 1
  <2>1. \A i \in inked : i \in DOMAIN text
    BY DEF Inked
  <2>2. DOMAIN text = 1 .. n
    BY <1>1 DEF Text
  <2> HIDE DEF inked
  <2> QED BY <1>1, <2>1, <2>2
<1>3. <<>> \in Text
  BY DEF Text
<1> HIDE DEF inked
<1>4. CASE inked # {}
  <2>1. Max(inked) \in inked
    BY <1>2, <1>4, MaxExists
  <2>2. Min(inked) \in inked
    <3>1. inked \in SUBSET Nat
      BY <1>1, <1>2
    <3>2. PICK k \in inked : \A j \in inked : k <= j
      BY <1>4, <3>1, LeastExists
    <3> QED BY <3>2 DEF Min
  <2>3. SubSeq(text, Min(inked), Max(inked)) \in Text
    <3>1. Min(inked) \in Int /\ Min(inked) >= 1 /\ Max(inked) \in Int /\ Max(inked) <= n
      <4>1. \A i \in inked : i \in Int /\ i >= 1 /\ i <= n
        BY <1>1, <1>2
      <4> QED BY <2>1, <2>2, <4>1
    <3> QED BY <1>1, <3>1, SubText
  <2> QED BY <1>4, <2>3 DEF Trim, inked
<1> QED BY <1>3, <1>4 DEF Trim, inked

\* The texts of a payload.
LEMMA FieldOfType ==
    ASSUME NEW payload, IsTexts(payload), NEW name, NEW default \in Text
    PROVE  FieldOf(payload, name) \in MaybeText /\ Or(FieldOf(payload, name), default) \in Text
BY DEF IsTexts, FieldOf, Or, MaybeText

\* A cleaned address is a text, where there is one.
LEMMA CleanAddressType ==
    ASSUME NEW ip \in MaybeText PROVE CleanAddress(ip) \in MaybeText
<1>1. CASE ip \in Text /\ ip # <<>>
  <2>1. Tail(ip) \in Text
    BY <1>1 DEF Text
  <2> QED BY <2>1 DEF CleanAddress, MaybeText
<1>2. CASE ip = None \/ ip = <<>>
  BY <1>2 DEF CleanAddress
<1> QED BY <1>1, <1>2 DEF MaybeText

\* A broker event makes a record or none.
LEMMA NormalisedType ==
    ASSUME NEW on, NEW payload, payload = None \/ IsTexts(payload), NEW names, IsTexts(names)
    PROVE  Normalised(on, payload, names) # None =>
             /\ Normalised(on, payload, names) \in RecordTypes
             /\ Normalised(on, payload, names).class # "DetectionFinding"
<1> SUFFICES ASSUME payload # None
             PROVE  \A activity :
                      /\ NetworkActivity(activity, payload) \in RecordTypes
                      /\ NetworkActivity(activity, payload).class # "DetectionFinding"
                      /\ ApiActivity(activity, payload, names) \in RecordTypes
                      /\ ApiActivity(activity, payload, names).class # "DetectionFinding"
  BY Zenon DEF Normalised
<1> TAKE activity
<1>1. \A word \in {"unknown", "400101", "400102", "600301", "600304"} : word \in Char
  BY Zenon DEF Char, Words
<1>2. /\ Unknown \in Text /\ <<>> \in Text /\ <<"400101">> \in Text /\ <<"400102">> \in Text
      /\ <<"600301">> \in Text /\ <<"600304">> \in Text
  BY <1>1 DEF Unknown, Text
<1>3. /\ \A name : FieldOf(payload, name) \in MaybeText
      /\ \A name : Or(FieldOf(payload, name), Unknown) \in Text
      /\ \A name : Or(FieldOf(payload, name), <<>>) \in Text
  BY <1>2, FieldOfType
<1>4. NetworkActivity(activity, payload) \in RecordTypes
  <2> DEFINE guid == Split(Or(FieldOf(payload, "clientGuid"), Unknown), ":")
             instance == IF Len(guid) > 1 THEN guid[2] ELSE None
             ip == CleanAddress(FieldOf(payload, "remoteAddress"))
             type == IF activity = "Connect" THEN <<"400101">> ELSE <<"400102">>
  <2>1. guid \in Seq(Text) /\ Len(guid) >= 1
    BY <1>3, SplitType
  <2>2. NetworkActivity(activity, payload) =
          [class |-> "NetworkActivity", type |-> type, client_guid |-> guid[1],
           client_instance_guid |-> instance, ip |-> ip, tls |-> Tls(payload),
           protocol |-> FieldOf(payload, "protocol")]
    BY DEF NetworkActivity
  <2> HIDE DEF guid
  <2>3. guid[1] \in Text /\ instance \in MaybeText
    BY <2>1 DEF MaybeText
  <2>4. ip \in MaybeText /\ type \in Text
    BY <1>2, <1>3, CleanAddressType
  <2>5. Tls(payload) \in [version : Text, cipher : MaybeText, fingerprint : MaybeText] \cup {None}
    BY <1>3 DEF Tls
  <2> HIDE DEF instance, ip, type
  <2> QED BY <1>3, <2>2, <2>3, <2>4, <2>5 DEF RecordTypes
<1>5. ApiActivity(activity, payload, names) \in RecordTypes
  <2> DEFINE guid == Or(FieldOf(payload, "serviceGuid"), Unknown)
             name == IF activity = "Register" THEN Or(FieldOf(payload, "serviceType"), Unknown)
                     ELSE IF guid \in DOMAIN names THEN names[guid] ELSE Unknown
             type == IF activity = "Register" THEN <<"600301">> ELSE <<"600304">>
  <2>1. guid \in Text /\ type \in Text
    BY <1>2, <1>3
  <2>2. name \in Text
    BY <1>2, <1>3 DEF IsTexts
  <2>3. ApiActivity(activity, payload, names) =
          [class |-> "ApiActivity", type |-> type, uid |-> guid, name |-> name,
           actor |-> FieldOf(payload, "clientGuid")]
    BY DEF ApiActivity
  <2> HIDE DEF guid, name, type
  <2> QED BY <1>3, <2>1, <2>2, <2>3 DEF RecordTypes
<1>6. /\ NetworkActivity(activity, payload).class # "DetectionFinding"
      /\ ApiActivity(activity, payload, names).class # "DetectionFinding"
  BY DEF NetworkActivity, ApiActivity
<1> QED BY <1>4, <1>5, <1>6

Phrase == "published to sensitive topic"

\* The topic as a text.
LEMMA TopicTextType ==
    ASSUME topic \in Text, topic # <<>> PROVE TopicText \in Text
<1> DEFINE h == [c \in Char |-> <<"/", c>>]
           pieces == [i \in DOMAIN topic |-> <<"/", topic[i]>>]
<1>1. "/" \in Char
  BY Zenon DEF Char, Words
<1>2. h \in [Char -> Seq(Char)] /\ \A c \in Char : h[c] = <<"/", c>>
  BY <1>1
<1> HIDE DEF h
<1>3. FlattenSeq(pieces) = Each(topic, h)
  <2>1. \A i \in DOMAIN topic : topic[i] \in Char
    BY ElementOfSeq DEF Text
  <2>2. pieces = [i \in DOMAIN topic |-> h[topic[i]]]
    BY <1>2, <2>1
  <2> QED BY <2>2 DEF Each
<1>4. PICK front \in Text, c \in Char : topic = Append(front, c)
  BY LastAppended
<1>5. topic = front \o <<c>> /\ <<c>> \in Seq(Char) /\ front \in Seq(Char)
  BY <1>4 DEF Text
<1>6. Each(topic, h) = Each(front, h) \o <<"/", c>>
  <2>1. Each(front \o <<c>>, h) = Each(front, h) \o Each(<<c>>, h)
    BY <1>2, <1>5, EachConcat
  <2>2. Each(<<c>>, h) = h[c]
    BY <1>2, EachOne
  <2> QED BY <1>2, <1>5, <2>1, <2>2
<1>7. Each(front, h) \in Seq(Char)
  BY <1>2, <1>5, EachType
<1>8. Each(topic, h) \in Seq(Char) /\ Each(topic, h) # <<>>
  <2>1. \A s \in Seq(Char) : s \o <<"/", c>> \in Seq(Char) /\ s \o <<"/", c>> # <<>>
    BY <1>1
  <2> QED BY <1>6, <1>7, <2>1
<1> QED BY <1>3, <1>8 DEF TopicText, Text

\* The client a message is said to come from.
LEMMA PublisherType ==
    ASSUME IsMessage(msg) PROVE Publisher \in Text
<1> DEFINE chain == IF Certificates \in DOMAIN msg.other_fields
                    THEN Split(msg.other_fields[Certificates], ";") ELSE <<>>
           named == {i \in DOMAIN chain : Trim(chain[i]) # <<>>}
<1>1. msg.source_client_id \in Text
  BY DEF IsMessage, TextFields, Has
<1>2. chain \in Seq(Text)
  <2>1. msg.other_fields \in [DOMAIN msg.other_fields -> Text]
    BY DEF IsMessage
  <2>2. Certificates \in DOMAIN msg.other_fields => msg.other_fields[Certificates] \in Text
    BY <2>1
  <2>3. \A text \in Text : Split(text, ";") \in Seq(Text)
    BY SplitType
  <2>4. <<>> \in Seq(Text)
    OBVIOUS
  <2> QED BY <2>2, <2>3, <2>4, Zenon
<1> HIDE DEF chain
<1>3. CASE named # {}
  <2>1. Len(chain) \in Nat /\ DOMAIN chain = 1 .. Len(chain)
    BY <1>2
  <2>2. \A i \in named : i \in 0 .. Len(chain)
    BY <2>1
  <2> HIDE DEF named
  <2>3. Max(named) \in named
    BY <1>3, <2>1, <2>2, MaxExists
  <2>4. Max(named) \in DOMAIN chain
    BY <2>3 DEF named
  <2>5. chain[Max(named)] \in Text
    BY <1>2, <2>4, ElementOfSeq
  <2>6. Publisher = Trim(chain[Max(named)])
    BY <1>3, Zenon DEF Publisher, chain, named
  <2> QED BY <2>5, <2>6, TrimType
<1>4. CASE named = {}
  <2>1. Publisher = msg.source_client_id
    BY <1>4, Zenon DEF Publisher, chain
  <2> QED BY <1>1, <2>1
<1> QED BY <1>3, <1>4

\* An alert about a sensitive topic is a record.
LEMMA AlertType ==
    ASSUME IsMessage(msg), topic \in Text, topic # <<>>
    PROVE  SensitiveAlert \in RecordTypes /\ SensitiveAlert.class = "DetectionFinding"
<1> DEFINE desc == <<"Client", Gap>> \o Publisher \o <<Gap, Phrase, Gap>> \o TopicText
<1>1. "Client" \in Char /\ Phrase \in Char /\ "200401" \in Char /\ Gap \in Char
  BY Zenon DEF Char, Words, Phrase, Gap
<1>2. Publisher \in Text /\ TopicText \in Text
  BY PublisherType, TopicTextType
<1>3. desc \in Text
  <2>1. <<"Client", Gap>> \in Text /\ <<Gap, Phrase, Gap>> \in Text
    BY <1>1 DEF Text
  <2> QED BY <1>2, <2>1, ConcatProperties DEF Text
<1>4. SensitiveAlert = DetectionFinding(desc, Publisher)
  BY Zenon DEF SensitiveAlert, Gap, Phrase
<1> HIDE DEF desc
<1>5. <<"200401">> \in Text
  BY <1>1 DEF Text
<1>6. SensitiveAlert = [class |-> "DetectionFinding", type |-> <<"200401">>, desc |-> desc,
        suser |-> Publisher]
  BY <1>4 DEF DetectionFinding
<1> QED BY <1>2, <1>3, <1>5, <1>6 DEF RecordTypes, MaybeText

\* So is one about a spoofed broker event.
LEMMA SpoofAlertType ==
    ASSUME IsMessage(msg), topic \in Text, topic # <<>>
    PROVE  SpoofAlert \in RecordTypes /\ SpoofAlert.class = "DetectionFinding"
<1> DEFINE desc == <<"Non-broker", Gap>> \o Publisher \o <<Gap, "on", Gap>> \o TopicText
                   \o <<Gap, "reason">>
           suser == IF Publisher = <<>> THEN None ELSE Publisher
<1>1. "Non-broker" \in Char /\ "on" \in Char /\ "reason" \in Char /\ "200401" \in Char /\ Gap \in Char
  BY Zenon DEF Char, Words, Gap
<1>2. Publisher \in Text /\ TopicText \in Text
  BY PublisherType, TopicTextType
<1>3. desc \in Text
  <2>1. /\ <<"Non-broker", Gap>> \in Text /\ <<Gap, "on", Gap>> \in Text
        /\ <<Gap, "reason">> \in Text
    BY <1>1 DEF Text
  <2> QED BY <1>2, <2>1, ConcatProperties DEF Text
<1>4. SpoofAlert = DetectionFinding(desc, suser)
  BY Zenon DEF SpoofAlert, Gap
<1>5. suser \in MaybeText
  BY <1>2 DEF MaybeText
<1> HIDE DEF desc, suser
<1>6. <<"200401">> \in Text
  BY <1>1 DEF Text
<1>7. SpoofAlert = [class |-> "DetectionFinding", type |-> <<"200401">>, desc |-> desc,
        suser |-> suser]
  BY <1>4 DEF DetectionFinding
<1> QED BY <1>3, <1>5, <1>6, <1>7 DEF RecordTypes

\* How many alerts a message raises that does not come on the reply topic.
AlertCount == IF EnvelopeSpoofed(Payload) THEN 1
              ELSE Cardinality({i \in DOMAIN sensor.sensitive :
                                  TopicMatches(sensor.sensitive[i], topic)})

\* The alerts of a message.
LEMMA HandledAlerts ==
    ASSUME IsMessage(msg), topic \in Text, ValidTopic(topic), sensor.sensitive \in Seq(Text)
    PROVE  /\ Alerts \in Seq(RecordTypes)
           /\ \A k \in 1 .. Len(Alerts) : Alerts[k].class = "DetectionFinding"
           /\ topic # ReplyTopic => Len(Alerts) = AlertCount
<1> DEFINE matching == {i \in DOMAIN sensor.sensitive : TopicMatches(sensor.sensitive[i], topic)}
<1>1. topic # <<>>
  BY DEF ValidTopic
<1>2. SensitiveAlert \in RecordTypes /\ SensitiveAlert.class = "DetectionFinding"
  BY <1>1, AlertType
<1>3. SpoofAlert \in RecordTypes /\ SpoofAlert.class = "DetectionFinding"
  BY <1>1, SpoofAlertType
<1>4. PICK m \in Nat : m = Cardinality(matching)
  <2>1. Len(sensor.sensitive) \in Nat /\ DOMAIN sensor.sensitive = 1 .. Len(sensor.sensitive)
    OBVIOUS
  <2>2. matching \in SUBSET Nat /\ \A i \in matching : i <= Len(sensor.sensitive)
    BY <2>1
  <2>3. IsFiniteSet(matching)
    <3> HIDE DEF matching
    <3> QED BY <2>1, <2>2, FS_BoundedSetOfNaturals
  <2> HIDE DEF matching
  <2> QED BY <2>3, FS_CardinalityType
<1>5. SensitiveAlerts = [k \in 1 .. m |-> SensitiveAlert]
  BY <1>4, Zenon DEF SensitiveAlerts
<1>6. SensitiveAlerts \in Seq(RecordTypes) /\ Len(SensitiveAlerts) = m
      /\ \A k \in 1 .. m : SensitiveAlerts[k].class = "DetectionFinding"
  BY <1>2, <1>5
<1>7. CASE topic = ReplyTopic
  <2>1. Alerts = <<>>
    BY <1>7, Zenon DEF Alerts
  <2> QED BY <1>7, <2>1
<1>8. CASE topic # ReplyTopic /\ EnvelopeSpoofed(Payload)
  <2>1. Alerts = <<SpoofAlert>> /\ AlertCount = 1
    BY <1>8, Zenon DEF Alerts, AlertCount
  <2> QED BY <1>3, <2>1
<1>9. CASE topic # ReplyTopic /\ ~EnvelopeSpoofed(Payload)
  <2>1. Alerts = SensitiveAlerts /\ AlertCount = m
    BY <1>4, <1>9, Zenon DEF Alerts, AlertCount
  <2> QED BY <1>6, <2>1
<1> QED BY <1>7, <1>8, <1>9

\* The records that HandleMessage makes: the event's record, if any, and the alerts.
LEMMA HandledRecords ==
    ASSUME IsMessage(msg), topic \in Text, ValidTopic(topic), IsTexts(sensor.names),
           sensor.sensitive \in Seq(Text), HandleMessage
    PROVE  /\ records' \in Seq(RecordTypes)
           /\ topic # ReplyTopic =>
                Cardinality({i \in DOMAIN records' : records'[i].class = "DetectionFinding"})
                  = AlertCount
<1> DEFINE event == IF Record # None THEN <<Record>> ELSE <<>>
<1>1. event \in Seq(RecordTypes) /\ \A i \in DOMAIN event : event[i].class # "DetectionFinding"
  <2>1. Payload = None \/ IsTexts(Payload)
    BY MessagePathAssumption DEF Payload
  <2>2. \/ Record = None
        \/ Record = Normalised(topic, Payload, sensor.names)
    BY Zenon DEF Record
  <2>3. Record # None => Record \in RecordTypes /\ Record.class # "DetectionFinding"
    BY <2>1, <2>2, NormalisedType
  <2> QED BY <2>3
<1>2. /\ Alerts \in Seq(RecordTypes)
      /\ \A k \in 1 .. Len(Alerts) : Alerts[k].class = "DetectionFinding"
      /\ topic # ReplyTopic => Len(Alerts) = AlertCount
  BY HandledAlerts
<1>3. records' = event \o Alerts
  BY Zenon DEF HandleMessage
<1>4. PICK m \in Nat : m = Len(Alerts)
  BY <1>2
<1> HIDE DEF event
<1>5. records' \in Seq(RecordTypes)
  BY <1>1, <1>2, <1>3, ConcatProperties
<1>6. Cardinality({i \in DOMAIN records' : records'[i].class = "DetectionFinding"}) = m
  <2> DEFINE all == event \o Alerts
             found == {i \in DOMAIN all : all[i].class = "DetectionFinding"}
  <2>1. PICK n \in Nat : n = Len(event)
    BY <1>1
  <2>2. /\ DOMAIN all = 1 .. n + m
        /\ \A i \in 1 .. n + m : all[i] = IF i <= n THEN event[i] ELSE Alerts[i - n]
    <3>1. /\ all \in Seq(RecordTypes) /\ Len(all) = n + m
          /\ \A i \in 1 .. n + m : all[i] = IF i <= n THEN event[i] ELSE Alerts[i - n]
      BY <1>1, <1>2, <1>4, <2>1, ConcatProperties
    <3> HIDE DEF all
    <3> QED BY <3>1
  <2> HIDE DEF all
  <2>3. \A i \in 1 .. n : all[i].class # "DetectionFinding"
    BY <1>1, <2>1, <2>2
  <2>4. \A i \in n + 1 .. n + m : all[i].class = "DetectionFinding"
    <3>1. \A i \in n + 1 .. n + m : i \in 1 .. n + m /\ ~(i <= n) /\ i - n \in 1 .. m
      BY <2>1
    <3> QED BY <1>2, <1>4, <2>2, <3>1
  <2>5. found = n + 1 .. n + m
    <3>1. \A i \in 1 .. n + m : i \in 1 .. n \/ i \in n + 1 .. n + m
      BY <2>1
    <3>2. \A i \in n + 1 .. n + m : i \in 1 .. n + m
      BY <2>1
    <3> QED BY <2>2, <2>3, <2>4, <3>1, <3>2
  <2>6. Cardinality(n + 1 .. n + m) = m
    <3>1. n + 1 \in Int /\ n + m \in Int
      BY <2>1
    <3>2. Cardinality(n + 1 .. n + m) = IF n + 1 > n + m THEN 0 ELSE (n + m) - (n + 1) + 1
      BY <3>1, FS_Interval
    <3> QED BY <2>1, <3>2
  <2>7. records' = all
    BY <1>3 DEF all
  <2> QED BY <2>5, <2>6, <2>7
<1> QED BY <1>2, <1>4, <1>5, <1>6

-----------------------------------------------------------------------------
(* What is on the wire *)

Cells == (({"array"} \cup TextKinds) \X Nat) \cup ({"int"} \X {n \in Int : n >= -Half})
         \cup ({"byte"} \X Char)

\* How a peer may write what this sensor writes.
Spells(there, meant) ==
    \/ there = meant
    \/ there[1] \in TextKinds /\ meant[1] \in TextKinds /\ there[2] = meant[2]
    \/ meant[1] = "int" /\ meant[2] < 0 /\ there = <<"int", meant[2] + 2 * Half>>

\* What there is of a frame from a place on spells this piece.
Lays(wire, at, piece) ==
    \A i \in 1 .. Len(piece) : at + i - 1 <= Len(wire) => Spells(wire[at + i - 1], piece[i])

\* The piece is there as a whole.
Fits(wire, at, piece) == at + Len(piece) - 1 <= Len(wire)

\* The parts of a concatenation.
LEMMA LaysBoth ==
    ASSUME NEW S, NEW wire, NEW at \in Int, NEW p \in Seq(S), NEW q \in Seq(S), Lays(wire, at, p \o q)
    PROVE  /\ Lays(wire, at, p) /\ Lays(wire, at + Len(p), q)
           /\ at + Len(p \o q) = at + Len(p) + Len(q)
           /\ Len(p) \in Nat /\ Len(q) \in Nat
<1> DEFINE all == p \o q
<1>1. PICK m \in Nat : m = Len(p)
  OBVIOUS
<1>2. PICK n \in Nat : n = Len(q)
  OBVIOUS
<1>3. /\ Len(all) = m + n
      /\ \A i \in 1 .. m + n : all[i] = IF i <= m THEN p[i] ELSE q[i - m]
  BY <1>1, <1>2, ConcatProperties
<1>4. \A i \in 1 .. m + n : at + i - 1 <= Len(wire) => Spells(wire[at + i - 1], all[i])
  BY <1>3 DEF Lays
<1> HIDE DEF all
<1>5. Lays(wire, at, p)
  <2>1. \A i \in 1 .. m : i \in 1 .. m + n /\ all[i] = p[i]
    BY <1>1, <1>2, <1>3
  <2> QED BY <1>1, <1>4, <2>1 DEF Lays
<1>6. Lays(wire, at + Len(p), q)
  <2>1. \A i \in 1 .. n : /\ m + i \in 1 .. m + n /\ all[m + i] = q[i]
                          /\ at + (m + i) - 1 = at + m + i - 1
    <3>1. \A i \in 1 .. n : m + i \in 1 .. m + n /\ ~(m + i <= m) /\ (m + i) - m = i
      BY <1>1, <1>2
    <3>2. \A i \in 1 .. n : all[m + i] = q[i]
      BY <1>3, <3>1
    <3>3. \A i \in 1 .. n : at + (m + i) - 1 = at + m + i - 1
      BY <1>1
    <3> QED BY <3>1, <3>2, <3>3
  <2>2. \A i \in 1 .. n : at + m + i - 1 <= Len(wire) => Spells(wire[at + m + i - 1], q[i])
    <3> TAKE i \in 1 .. n
    <3>1. at + (m + i) - 1 <= Len(wire) => Spells(wire[at + (m + i) - 1], all[m + i])
      BY <1>4, <2>1
    <3> QED BY <2>1, <3>1
  <2> QED BY <1>1, <1>2, <2>2 DEF Lays
<1>7. at + Len(p \o q) = at + Len(p) + Len(q)
  BY <1>1, <1>2, <1>3 DEF all
<1> QED BY <1>1, <1>2, <1>5, <1>6, <1>7

\* A cell that is no header and no negative number is spelled in one way.
LEMMA SpelledOnce ==
    ASSUME NEW there, NEW meant, Spells(there, meant), meant[1] \notin TextKinds,
           meant[1] = "int" => meant[2] \in Nat
    PROVE  there = meant
BY DEF Spells

-----------------------------------------------------------------------------
(* Texts *)

\* The remainder of a smaller number is the number.
LEMMA SmallMod == ASSUME NEW n \in Nat, NEW m \in Nat \ {0}, n < m PROVE n % m = n
OBVIOUS

\* Whatever header a text gets, it has the whole length (write_string).
LEMMA WriteTextIs ==
    ASSUME NEW text \in Text
    PROVE  \E kind \in TextKinds : WriteText(text) = <<<<kind, Len(text)>>>> \o Body(text)
<1>1. Len(text) \in Nat
  BY DEF Text
<1>2. /\ Len(text) < FixLimit => Len(text) % FixLimit = Len(text)
      /\ Len(text) < Limit16 => Len(text) % Limit16 = Len(text)
  BY <1>1, SmallMod, DxlCodecAssumption
<1>3. "fix" \in TextKinds /\ "str16" \in TextKinds /\ "str32" \in TextKinds
  BY DEF TextKinds
<1>4. CASE Len(text) < FixLimit
  BY <1>2, <1>3, <1>4 DEF WriteText
<1>5. CASE ~(Len(text) < FixLimit) /\ Len(text) < Limit16
  BY <1>2, <1>3, <1>5 DEF WriteText
<1>6. CASE ~(Len(text) < FixLimit) /\ ~(Len(text) < Limit16)
  BY <1>3, <1>6 DEF WriteText
<1> QED BY <1>4, <1>5, <1>6

\* The cells of a text: a header with its length, then its characters.
LEMMA WriteTextCells ==
    ASSUME NEW text \in Text
    PROVE  /\ WriteText(text) \in Seq(Cells) /\ Len(WriteText(text)) = Len(text) + 1
           /\ WriteText(text)[1][1] \in TextKinds /\ WriteText(text)[1][2] = Len(text)
           /\ \A i \in 1 .. Len(text) : WriteText(text)[i + 1] = <<"byte", text[i]>>
<1>1. PICK n \in Nat : n = Len(text)
  BY DEF Text
<1>2. PICK kind \in TextKinds : WriteText(text) = <<<<kind, n>>>> \o Body(text)
  BY <1>1, WriteTextIs
<1>3. \A i \in 1 .. n : text[i] \in Char
  BY <1>1 DEF Text
<1>4. Body(text) \in Seq(Cells) /\ Len(Body(text)) = n /\ \A i \in 1 .. n :
        Body(text)[i] = <<"byte", text[i]>>
  <2>1. DOMAIN text = 1 .. n
    BY <1>1 DEF Text
  <2>2. \A i \in 1 .. n : <<"byte", text[i]>> \in Cells
    BY <1>3 DEF Cells
  <2> QED BY <1>1, <2>1, <2>2 DEF Body
<1> DEFINE head == <<<<kind, n>>>>
<1>5. head \in Seq(Cells) /\ Len(head) = 1 /\ head[1] = <<kind, n>>
  <2>1. <<kind, n>> \in Cells
    BY DEF Cells
  <2> QED BY <2>1
<1>6. WriteText(text) = head \o Body(text)
  BY <1>2
<1> HIDE DEF head
<1>7. /\ WriteText(text) \in Seq(Cells) /\ Len(WriteText(text)) = 1 + n
      /\ \A i \in 1 .. 1 + n : WriteText(text)[i] = IF i <= 1 THEN head[i] ELSE Body(text)[i - 1]
  BY <1>4, <1>5, <1>6, ConcatProperties
<1>8. WriteText(text)[1] = <<kind, n>>
  BY <1>1, <1>5, <1>7
<1>9. \A i \in 1 .. n : WriteText(text)[i + 1] = <<"byte", text[i]>>
  <2>1. \A i \in 1 .. n : i + 1 \in 1 .. 1 + n /\ ~(i + 1 <= 1) /\ (i + 1) - 1 = i
    BY <1>1
  <2> QED BY <1>4, <1>7, <2>1
<1> QED BY <1>1, <1>7, <1>8, <1>9

\* A text is taken as it was written, if all of it is there.
LEMMA TakesBytes ==
    ASSUME NEW wire, Len(wire) \in Nat, NEW at \in Nat \ {0}, NEW text \in Text,
           Lays(wire, at, WriteText(text))
    PROVE  TakeBytes(wire, at) = IF Fits(wire, at, WriteText(text))
                                 THEN Took(text, at + Len(WriteText(text))) ELSE Failed
<1> DEFINE w == WriteText(text)
<1>1. PICK n \in Nat : n = Len(text)
  BY DEF Text
<1>2. /\ Len(w) = n + 1 /\ w[1][1] \in TextKinds /\ w[1][2] = n
      /\ \A i \in 1 .. n : w[i + 1] = <<"byte", text[i]>>
  BY <1>1, WriteTextCells
<1> HIDE DEF w
<1>3. \A i \in 1 .. n + 1 : at + i - 1 <= Len(wire) => Spells(wire[at + i - 1], w[i])
  BY <1>2 DEF Lays, w
<1>4. at <= Len(wire) => wire[at][1] \in TextKinds /\ wire[at][2] = n
  <2>1. 1 \in 1 .. n + 1 /\ at + 1 - 1 = at
    BY <1>1
  <2>2. at <= Len(wire) => Spells(wire[at], w[1])
    BY <1>3, <2>1
  <2>3. "int" \notin TextKinds
    BY DEF TextKinds
  <2> QED BY <1>2, <2>2, <2>3 DEF Spells
<1>5. CASE at + n <= Len(wire)
  <2>1. at <= Len(wire) /\ n <= Len(wire) - at
    BY <1>1, <1>5
  <2>2. \A i \in 1 .. n : wire[at + i][2] = text[i]
    <3> TAKE i \in 1 .. n
    <3>1. i + 1 \in 1 .. n + 1 /\ at + (i + 1) - 1 = at + i /\ at + i <= Len(wire)
      BY <1>1, <1>5
    <3>2. Spells(wire[at + i], <<"byte", text[i]>>)
      BY <1>2, <1>3, <3>1
    <3>3. "byte" \notin TextKinds
      BY DEF TextKinds
    <3>4. wire[at + i] = <<"byte", text[i]>>
      BY <3>2, <3>3, SpelledOnce
    <3> QED BY <3>4
  <2>3. [i \in 1 .. n |-> wire[at + i][2]] = text
    <3>1. text = [i \in 1 .. n |-> text[i]]
      BY <1>1 DEF Text
    <3> QED BY <2>2, <3>1
  <2>4. TakeBytes(wire, at) = Took([i \in 1 .. n |-> wire[at + i][2]], at + n + 1)
    BY <1>4, <2>1 DEF TakeBytes
  <2>5. Fits(wire, at, w) /\ at + Len(w) = at + n + 1
    BY <1>1, <1>2, <1>5 DEF Fits
  <2> QED BY <2>3, <2>4, <2>5 DEF w
<1>6. CASE ~(at + n <= Len(wire))
  <2>1. ~Fits(wire, at, w)
    BY <1>1, <1>2, <1>6 DEF Fits
  <2>2. TakeBytes(wire, at) = Failed
    <3>1. ~(n <= Len(wire) - at)
      BY <1>1, <1>6
    <3> QED BY <1>4, <3>1 DEF TakeBytes
  <2> QED BY <2>1, <2>2 DEF w
<1> QED BY <1>5, <1>6

\* What is taken and what is not are told apart.
LEMMA OkOf == ~Failed.ok /\ \A value, next : Took(value, next).ok /\ Took(value, next).value = value
                                             /\ Took(value, next).next = next
BY DEF Failed, Took

\* A text that is to be UTF-8 is taken if it is.
LEMMA TakesText ==
    ASSUME NEW wire, Len(wire) \in Nat, NEW at \in Nat \ {0}, NEW text \in Text,
           Lays(wire, at, WriteText(text))
    PROVE  TakeText(wire, at) = IF Fits(wire, at, WriteText(text)) /\ IsUtf8(text)
                                THEN Took(text, at + Len(WriteText(text))) ELSE Failed
<1>1. TakeBytes(wire, at) = IF Fits(wire, at, WriteText(text))
                            THEN Took(text, at + Len(WriteText(text))) ELSE Failed
  BY TakesBytes
<1> QED BY <1>1, OkOf DEF TakeText

-----------------------------------------------------------------------------
(* Lists of texts *)

\* The texts of a list, without the header.
AllTexts(texts) == FlattenSeq([i \in DOMAIN texts |-> WriteText(texts[i])])

\* A list of one text more is written as the list and then the text.
LEMMA AllTextsGrow ==
    /\ AllTexts(<<>>) = <<>>
    /\ \A texts \in Seq(Text), t \in Text :
         /\ AllTexts(texts) \in Seq(Cells)
         /\ AllTexts(Append(texts, t)) = AllTexts(texts) \o WriteText(t)
<1> DEFINE h == [t \in Text |-> WriteText(t)]
<1>1. h \in [Text -> Seq(Cells)] /\ \A t \in Text : h[t] = WriteText(t)
  BY WriteTextCells
<1> HIDE DEF h
<1>2. ASSUME NEW texts \in Seq(Text) PROVE AllTexts(texts) = Each(texts, h)
  <2>1. \A i \in DOMAIN texts : WriteText(texts[i]) = h[texts[i]]
    BY <1>1, ElementOfSeq
  <2>2. [i \in DOMAIN texts |-> WriteText(texts[i])] = [i \in DOMAIN texts |-> h[texts[i]]]
    BY <2>1
  <2> QED BY <2>2 DEF AllTexts, Each
<1>3. AllTexts(<<>>) = <<>>
  <2>1. <<>> \in Seq(Text)
    OBVIOUS
  <2>2. AllTexts(<<>>) = Each(<<>>, h)
    BY <1>2, <2>1
  <2> QED BY <2>2, EachEmpty
<1>4. ASSUME NEW texts \in Seq(Text), NEW t \in Text
      PROVE  /\ AllTexts(texts) \in Seq(Cells)
             /\ AllTexts(Append(texts, t)) = AllTexts(texts) \o WriteText(t)
  <2>1. Each(texts, h) \in Seq(Cells)
    BY <1>1, EachType
  <2>2. Append(texts, t) = texts \o <<t>> /\ Append(texts, t) \in Seq(Text) /\ <<t>> \in Seq(Text)
    OBVIOUS
  <2>3. Each(texts \o <<t>>, h) = Each(texts, h) \o Each(<<t>>, h)
    BY <1>1, <2>2, EachConcat
  <2>4. Each(<<t>>, h) = WriteText(t)
    BY <1>1, EachOne
  <2> QED BY <1>2, <2>1, <2>2, <2>3, <2>4
<1> QED BY <1>3, <1>4

IsTaking(f, wire, at, n) ==
    /\ f[0] = Took(<<>>, at + 1)
    /\ \A i \in 1 .. n : f[i] = AnotherText(wire, f[i - 1])

\* What is taken of a list, or nothing.
Taken(wire, at, texts) ==
    IF Fits(wire, at + 1, AllTexts(texts)) /\ \A i \in 1 .. Len(texts) : IsUtf8(texts[i])
    THEN Took(texts, at + 1 + Len(AllTexts(texts))) ELSE Failed

\* The loop that takes the texts of a list takes those that were written, if all are there.
LEMMA TakingRuns ==
    ASSUME NEW wire, Len(wire) \in Nat, NEW at \in Nat \ {0}, at <= Len(wire),
           NEW list \in Seq(Text), Lays(wire, at + 1, AllTexts(list))
    PROVE  \E f : IsTaking(f, wire, at, Len(list)) /\ f[Len(list)] = Taken(wire, at, list)
<1> DEFINE Runs(texts) == \E f : IsTaking(f, wire, at, Len(texts)) /\
             f[Len(texts)] = Taken(wire, at, texts)
           Laid(texts) == Lays(wire, at + 1, AllTexts(texts))
           T == {texts \in Seq(Text) : Laid(texts) => Runs(texts)}
<1>1. <<>> \in T
  <2> DEFINE f == [i \in 0 .. 0 |-> Took(<<>>, at + 1)]
  <2>1. AllTexts(<<>>) = <<>>
    BY AllTextsGrow
  <2>2. Fits(wire, at + 1, <<>>)
    BY DEF Fits
  <2>3. at + 1 + Len(<<>>) = at + 1
    OBVIOUS
  <2>4. Taken(wire, at, <<>>) = Took(<<>>, at + 1)
    BY <2>1, <2>2, <2>3 DEF Taken
  <2>5. IsTaking(f, wire, at, Len(<<>>)) /\ f[Len(<<>>)] = Taken(wire, at, <<>>)
    BY <2>4 DEF IsTaking
  <2>6. Runs(<<>>)
    BY <2>5
  <2> HIDE DEF Runs, Laid
  <2> QED BY <2>6
<1>2. ASSUME NEW texts \in Seq(Text), NEW t \in Text, texts \in T PROVE Append(texts, t) \in T
  <2> DEFINE more == Append(texts, t)
             all == AllTexts(texts)
             w == WriteText(t)
             next == at + 1 + Len(all)
  <2>1. /\ more \in Seq(Text) /\ all \in Seq(Cells) /\ AllTexts(more) = all \o w
        /\ w \in Seq(Cells)
    BY AllTextsGrow, WriteTextCells
  <2>2. PICK n \in Nat : n = Len(texts)
    OBVIOUS
  <2>3. Len(more) = n + 1 /\ more[n + 1] = t /\ \A i \in 1 .. n : more[i] = texts[i]
    BY <2>2
  <2> SUFFICES ASSUME Laid(more) PROVE Runs(more)
    <3> HIDE DEF Laid, Runs
    <3> QED BY <2>1
  <2> HIDE DEF more, all, w
  <2>4. /\ Lays(wire, at + 1, all) /\ Lays(wire, next, w)
        /\ at + 1 + Len(all \o w) = next + Len(w) /\ Len(all) \in Nat /\ Len(w) \in Nat
    <3>1. at + 1 \in Int /\ Lays(wire, at + 1, all \o w)
      BY <2>1
    <3> HIDE DEF next
    <3>2. \A from \in Int : Lays(wire, from, all \o w) =>
            /\ Lays(wire, from, all) /\ Lays(wire, from + Len(all), w)
            /\ from + Len(all \o w) = from + Len(all) + Len(w)
            /\ Len(all) \in Nat /\ Len(w) \in Nat
      BY <2>1, LaysBoth
    <3> QED BY <3>1, <3>2, Zenon DEF next
  <2>5. PICK f : IsTaking(f, wire, at, n) /\ f[n] = Taken(wire, at, texts)
    <3>1. Runs(texts)
      BY <1>2, <2>4, Zenon DEF all
    <3> QED BY <2>2, <3>1
  <2> DEFINE g == [i \in 0 .. n + 1 |-> IF i = n + 1 THEN AnotherText(wire, f[n]) ELSE f[i]]
  <2>6. IsTaking(g, wire, at, n + 1) /\ g[n + 1] = AnotherText(wire, f[n])
    <3>1. g[0] = Took(<<>>, at + 1)
      BY <2>2, <2>5 DEF IsTaking
    <3>2. ASSUME NEW i \in 1 .. n + 1 PROVE g[i] = AnotherText(wire, g[i - 1])
      <4>1. i - 1 \in 0 .. n /\ g[i - 1] = f[i - 1]
        BY <2>2
      <4>2. CASE i = n + 1
        BY <2>2, <4>1, <4>2
      <4>3. CASE i # n + 1
        <5>1. i \in 1 .. n /\ g[i] = f[i]
          BY <2>2, <4>3
        <5> HIDE DEF g
        <5> QED BY <2>5, <4>1, <5>1 DEF IsTaking
      <4> QED BY <4>2, <4>3
    <3>3. g[n + 1] = AnotherText(wire, f[n])
      BY <2>2
    <3> QED BY <3>1, <3>2, <3>3 DEF IsTaking
  <2> HIDE DEF g
  <2> DEFINE readable == \A i \in 1 .. n : IsUtf8(texts[i])
  <2>7. Taken(wire, at, texts) = IF Fits(wire, at + 1, all) /\ readable
          THEN Took(texts, next) ELSE Failed
    BY <2>2 DEF Taken, all
  <2>8. Taken(wire, at, more) = IF Fits(wire, next, w) /\ readable /\ IsUtf8(t)
                                THEN Took(more, next + Len(w)) ELSE Failed
    <3>1. Fits(wire, at + 1, all \o w) <=> Fits(wire, next, w)
      BY <2>4 DEF Fits
    <3>2. (\A i \in 1 .. n + 1 : IsUtf8(more[i])) <=> readable /\ IsUtf8(t)
      <4>1. \A i \in 1 .. n + 1 : i \in 1 .. n \/ i = n + 1
        BY <2>2
      <4>2. \A i \in 1 .. n : i \in 1 .. n + 1
        BY <2>2
      <4>3. n + 1 \in 1 .. n + 1
        BY <2>2
      <4> QED BY <2>3, <4>1, <4>2, <4>3
    <3> HIDE DEF readable
    <3> QED BY <2>1, <2>3, <2>4, <3>1, <3>2, Zenon DEF Taken
  <2>9. next \in Nat \ {0} /\ (Fits(wire, next, w) => Fits(wire, at + 1, all))
    BY <2>4 DEF Fits
  <2> HIDE DEF next, readable
  <2>10. TakeText(wire, next) = IF Fits(wire, next, w) /\ IsUtf8(t)
           THEN Took(t, next + Len(w)) ELSE Failed
    BY <2>4, <2>9, TakesText DEF w
  <2>11. AnotherText(wire, f[n]) = Taken(wire, at, more)
    <3>1. CASE Fits(wire, at + 1, all) /\ readable
      <4>1. f[n] = Took(texts, next)
        BY <2>5, <2>7, <3>1
      <4>2. AnotherText(wire, f[n]) = IF TakeText(wire, next).ok
              THEN Took(Append(texts, TakeText(wire, next).value), TakeText(wire, next).next)
                ELSE Failed
        BY <4>1, OkOf DEF AnotherText
      <4> QED BY <2>8, <2>10, <3>1, <4>2, OkOf DEF more
    <3>2. CASE ~(Fits(wire, at + 1, all) /\ readable)
      <4>1. f[n] = Failed
        BY <2>5, <2>7, <3>2
      <4>2. AnotherText(wire, f[n]) = Failed
        BY <4>1, OkOf DEF AnotherText
      <4> QED BY <2>8, <2>9, <3>2, <4>2
    <3> QED BY <3>1, <3>2
  <2> QED BY <2>3, <2>6, <2>11
<1>3. Seq(Text) \subseteq T
  <2> HIDE DEF T
  <2> QED BY <1>1, <1>2, SeqInduct
<1>4. list \in T
  BY <1>3
<1> QED BY <1>4

\* A list is written as its header and its texts (write_string_array).
LEMMA WriteTextsIs ==
    ASSUME NEW list \in Seq(Text)
    PROVE  /\ WriteTexts(list) = <<<<"array", Len(list)>>>> \o AllTexts(list)
           /\ <<<<"array", Len(list)>>>> \in Seq(Cells) /\ AllTexts(list) \in Seq(Cells)
           /\ WriteTexts(list) \in Seq(Cells)
<1>1. AllTexts(list) \in Seq(Cells)
  BY AllTextsGrow
<1>2. <<"array", Len(list)>> \in Cells
  <2>1. Len(list) \in Nat
    OBVIOUS
  <2> QED BY <2>1 DEF Cells
<1>3. <<<<"array", Len(list)>>>> \in Seq(Cells)
  BY <1>2
<1>4. WriteTexts(list) = <<<<"array", Len(list)>>>> \o AllTexts(list)
  BY DEF WriteTexts, AllTexts
<1> QED BY <1>1, <1>3, <1>4, ConcatProperties

\* A list is taken as it was written, if all of it is there and UTF-8.
LEMMA TakesTexts ==
    ASSUME NEW wire, Len(wire) \in Nat, NEW at \in Nat \ {0}, NEW list \in Seq(Text),
           Lays(wire, at, WriteTexts(list))
    PROVE  TakeTexts(wire, at)
             = IF Fits(wire, at, WriteTexts(list)) /\ \A i \in 1 .. Len(list) : IsUtf8(list[i])
               THEN Took(list, at + Len(WriteTexts(list))) ELSE Failed
<1> DEFINE n == Len(list)
           head == <<<<"array", n>>>>
           all == AllTexts(list)
           w == WriteTexts(list)
<1>1. w = head \o all /\ head \in Seq(Cells) /\ all \in Seq(Cells)
  BY WriteTextsIs
<1>2. Len(head) = 1 /\ head[1] = <<"array", n>> /\ n \in Nat
  OBVIOUS
<1> HIDE DEF w, all, head, n
<1>3. /\ Lays(wire, at, head) /\ Lays(wire, at + 1, all)
      /\ at + Len(w) = at + 1 + Len(all) /\ Len(all) \in Nat
  <2>1. Lays(wire, at, head \o all)
    BY <1>1 DEF w
  <2>2. /\ Lays(wire, at, head) /\ Lays(wire, at + Len(head), all)
        /\ at + Len(head \o all) = at + Len(head) + Len(all) /\ Len(all) \in Nat
    BY <1>1, <2>1, LaysBoth
  <2> QED BY <1>1, <1>2, <2>2 DEF w
<1>4. at <= Len(wire) => wire[at] = <<"array", n>>
  <2>1. 1 \in 1 .. Len(head) /\ at + 1 - 1 = at
    BY <1>2
  <2>2. at <= Len(wire) => Spells(wire[at], head[1])
    BY <1>3, <2>1 DEF Lays
  <2>3. "array" \notin TextKinds
    BY DEF TextKinds
  <2> QED BY <1>2, <2>2, <2>3, SpelledOnce
<1>5. (Fits(wire, at, w) <=> Fits(wire, at + 1, all)) /\ (Fits(wire, at, w) => at <= Len(wire))
  BY <1>3 DEF Fits
<1>6. CASE at <= Len(wire)
  <2> DEFINE body(g) == [i \in 0 .. n |-> IF i = 0
               THEN Took(<<>>, at + 1) ELSE AnotherText(wire, g[i - 1])]
             taken == CHOOSE g : g = body(g)
  <2>1. wire[at][1] = "array" /\ wire[at][2] = n
    BY <1>4, <1>6
  <2>2. TakeTexts(wire, at) = taken[n]
    BY <1>6, <2>1 DEF TakeTexts
  <2>3. PICK f : IsTaking(f, wire, at, n) /\ f[n] = Taken(wire, at, list)
    BY <1>3, <1>6, TakingRuns DEF n, all
  <2>4. \E g : g = body(g)
    <3> DEFINE g == [i \in 0 .. n |-> f[i]]
    <3>1. \A i \in 0 .. n : g[i] = IF i = 0 THEN Took(<<>>, at + 1) ELSE AnotherText(wire, g[i - 1])
      <4> TAKE i \in 0 .. n
      <4>1. CASE i = 0
        BY <2>3, <4>1 DEF IsTaking
      <4>2. CASE i # 0
        <5>1. i \in 1 .. n /\ i - 1 \in 0 .. n
          BY <1>2, <4>2
        <5> QED BY <2>3, <4>2, <5>1 DEF IsTaking
      <4> QED BY <4>1, <4>2
    <3>2. g = [i \in 0 .. n |-> g[i]]
      OBVIOUS
    <3> HIDE DEF g
    <3>3. g = body(g)
      BY <3>1, <3>2
    <3> HIDE DEF body
    <3> QED BY <3>3
  <2>5. taken = body(taken)
    <3> HIDE DEF body
    <3> QED BY <2>4
  <2> HIDE DEF taken
  <2>6. taken[0] = Took(<<>>, at + 1) /\ \A i \in 1 .. n : taken[i] = AnotherText(wire, taken[i - 1])
    BY <1>2, <2>5
  <2> DEFINE S == {i \in 0 .. n : taken[i] = f[i]}
  <2>7. 0 .. n \subseteq S
    <3>1. 0 \in S
      BY <1>2, <2>3, <2>6 DEF IsTaking
    <3>2. ASSUME NEW i \in 1 .. n, i - 1 \in S PROVE i \in S
      <4>1. f[i] = AnotherText(wire, f[i - 1])
        BY <2>3 DEF IsTaking
      <4> QED BY <1>2, <2>6, <3>2, <4>1
    <3> HIDE DEF S
    <3> QED BY <1>2, <3>1, <3>2, LoopInvariant
  <2>8. taken[n] = f[n]
    BY <1>2, <2>7
  <2>9. TakeTexts(wire, at) = Taken(wire, at, list)
    BY <2>2, <2>3, <2>8
  <2> QED BY <1>3, <1>5, <2>9, Zenon DEF Taken, n, all, w
<1>7. CASE ~(at <= Len(wire))
  <2>1. TakeTexts(wire, at) = Failed
    BY <1>7 DEF TakeTexts
  <2> QED BY <1>5, <1>7, <2>1 DEF w
<1> QED BY <1>6, <1>7

-----------------------------------------------------------------------------
(* The other fields *)

\* Odd and even places of a sequence of pairs.
LEMMA HalfOf ==
    ASSUME NEW n \in Nat, NEW i \in 1 .. n
    PROVE  /\ 2 * i - 1 \in 1 .. 2 * n /\ 2 * i \in 1 .. 2 * n
           /\ (2 * i - 1) % 2 = 1 /\ (2 * i) % 2 # 1
           /\ ((2 * i - 1) + 1) \div 2 = i /\ (2 * i) \div 2 = i
OBVIOUS

\* A finite set has an order without repetitions.
LEMMA SetToSeqIs ==
    ASSUME NEW S, IsFiniteSet(S)
    PROVE  \E n \in Nat : /\ SetToSeq(S) \in [1 .. n -> S] /\ Len(SetToSeq(S)) = n
                          /\ \A i, j \in 1 .. n : SetToSeq(S)[i] = SetToSeq(S)[j] => i = j
                          /\ \A x \in S : \E i \in 1 .. n : SetToSeq(S)[i] = x
<1> DEFINE n == Cardinality(S)
           q == SetToSeq(S)
<1>1. n \in Nat /\ ExistsBijection(1 .. n, S)
  BY FS_CardinalityType
<1>2. PICK b \in [1 .. n -> S] : IsInjective(b)
  BY <1>1 DEF ExistsBijection, Bijection, Injection
<1>3. q \in [1 .. n -> S] /\ IsInjective(q)
  BY <1>2, Zenon DEF SetToSeq
<1> HIDE DEF q
<1>4. Len(q) = n
  <2> HIDE DEF n
  <2> QED BY <1>1, <1>3
<1>5. q \in Surjection(1 .. n, S)
  <2>1. q \in Injection(1 .. n, S)
    BY <1>3 DEF Injection
  <2>2. IsFiniteSet(1 .. n) /\ Cardinality(1 .. n) = n
    <3>1. 1 \in Int /\ n \in Int
      BY <1>1
    <3>2. IsFiniteSet(1 .. n) /\ Cardinality(1 .. n) = IF 1 > n THEN 0 ELSE n - 1 + 1
      BY <3>1, FS_Interval
    <3> QED BY <1>1, <3>2
  <2>3. Cardinality(1 .. n) = Cardinality(S)
    BY <2>2
  <2> QED BY <2>1, <2>3, FS_Injection
<1>6. \A i, j \in 1 .. n : q[i] = q[j] => i = j
  BY <1>3 DEF IsInjective
<1>7. \A x \in S : \E i \in 1 .. n : q[i] = x
  BY <1>5 DEF Surjection
<1> QED BY <1>1, <1>3, <1>4, <1>6, <1>7 DEF q

\* The fields of a message that other versions may have added.
IsFields(fields) == /\ fields \in [DOMAIN fields -> Text]
                    /\ DOMAIN fields \subseteq Text /\ IsFiniteSet(DOMAIN fields)

\* Keys and values in turn are the fields again.
LEMMA FieldsOfFlat ==
    ASSUME NEW fields, IsFields(fields)
    PROVE  /\ Flat(fields) \in Seq(Text)
           /\ FieldsOf(Flat(fields)) = fields
           /\ (\A i \in 1 .. Len(Flat(fields)) : IsUtf8(Flat(fields)[i]))
                <=> \A text \in DOMAIN fields \cup Range(fields) : IsUtf8(text)
<1> DEFINE S == DOMAIN fields
           keys == SetToSeq(S)
           flat == Flat(fields)
<1>1. fields \in [S -> Text] /\ S \subseteq Text /\ IsFiniteSet(S)
  BY DEF IsFields
<1>2. PICK n \in Nat : /\ keys \in [1 .. n -> S] /\ Len(keys) = n
                       /\ \A i, j \in 1 .. n : keys[i] = keys[j] => i = j
                       /\ \A x \in S : \E i \in 1 .. n : keys[i] = x
  BY <1>1, SetToSeqIs
<1>3. flat = [i \in 1 .. 2 * n |-> IF i % 2 = 1 THEN keys[(i + 1) \div 2] ELSE fields[keys[i \div 2]]]
  BY <1>2 DEF Flat
<1> HIDE DEF keys, flat, S
<1>4. \A i \in 1 .. n : keys[i] \in S /\ fields[keys[i]] \in Text /\ keys[i] \in Text
  BY <1>1, <1>2
<1>5. \A i \in 1 .. n : flat[2 * i - 1] = keys[i] /\ flat[2 * i] = fields[keys[i]]
  <2> TAKE i \in 1 .. n
  <2>1. /\ 2 * i - 1 \in 1 .. 2 * n /\ 2 * i \in 1 .. 2 * n
        /\ (2 * i - 1) % 2 = 1 /\ (2 * i) % 2 # 1
        /\ ((2 * i - 1) + 1) \div 2 = i /\ (2 * i) \div 2 = i
    BY HalfOf
  <2> QED BY <1>3, <2>1
<1>6. \A i \in 1 .. 2 * n : \E j \in 1 .. n : i = 2 * j - 1 \/ i = 2 * j
  <2> TAKE i \in 1 .. 2 * n
  <2>1. (i + 1) \div 2 \in 1 .. n /\ (i = 2 * ((i + 1) \div 2) - 1 \/ i = 2 * ((i + 1) \div 2))
    OBVIOUS
  <2> QED BY <2>1
<1>7. flat \in Seq(Text) /\ Len(flat) = 2 * n
  <2>1. ASSUME NEW i \in 1 .. 2 * n PROVE flat[i] \in Text
    <3>1. PICK j \in 1 .. n : i = 2 * j - 1 \/ i = 2 * j
      BY <1>6
    <3>2. flat[2 * j - 1] \in Text /\ flat[2 * j] \in Text
      BY <1>4, <1>5
    <3> QED BY <3>1, <3>2
  <2>2. flat = [i \in 1 .. 2 * n |-> flat[i]] /\ 2 * n \in Nat
    BY <1>3
  <2> QED BY <2>1, <2>2
<1>8. FieldsOf(flat) = fields
  <2> DEFINE last(key) == Max({i \in 1 .. n : flat[2 * i - 1] = key})
  <2>1. Len(flat) \div 2 = n
    BY <1>7
  <2>2. FieldsOf(flat) = [key \in {flat[2 * i - 1] : i \in 1 .. n} |-> flat[2 * last(key)]]
    BY <2>1 DEF FieldsOf
  <2>3. {flat[2 * i - 1] : i \in 1 .. n} = S
    <3>1. \A i \in 1 .. n : flat[2 * i - 1] \in S
      BY <1>4, <1>5
    <3>2. \A x \in S : \E i \in 1 .. n : flat[2 * i - 1] = x
      BY <1>2, <1>5
    <3> QED BY <3>1, <3>2
  <2>4. ASSUME NEW key \in S PROVE flat[2 * last(key)] = fields[key]
    <3>1. PICK i \in 1 .. n : keys[i] = key
      BY <1>2
    <3> DEFINE places == {j \in 1 .. n : flat[2 * j - 1] = key}
    <3>2. i \in places /\ \A j \in places : j <= i
      <4>1. \A j \in places : j = i
        <5> TAKE j \in places
        <5>1. j \in 1 .. n /\ flat[2 * j - 1] = key
          OBVIOUS
        <5> HIDE DEF places
        <5>2. keys[j] = keys[i]
          BY <1>5, <3>1, <5>1
        <5>3. \A x, y \in 1 .. n : keys[x] = keys[y] => x = y
          BY <1>2
        <5> QED BY <5>1, <5>2, <5>3
      <4>2. i \in places
        BY <1>5, <3>1
      <4> HIDE DEF places
      <4> QED BY <4>1, <4>2
    <3>3. Max(places) = i
      <4>1. places \in SUBSET Int
        OBVIOUS
      <4> HIDE DEF places
      <4> QED BY <3>2, <4>1, MaxIs
    <3> QED BY <1>5, <3>1, <3>3
  <2> HIDE DEF last
  <2>5. fields = [key \in S |-> fields[key]]
    BY <1>1
  <2> QED BY <2>2, <2>3, <2>4, <2>5
<1>9. (\A i \in 1 .. 2 * n : IsUtf8(flat[i])) <=> \A text \in S \cup Range(fields) : IsUtf8(text)
  <2>1. Range(fields) = {fields[key] : key \in S}
    BY DEF Range, S
  <2>2. ASSUME \A i \in 1 .. 2 * n : IsUtf8(flat[i]), NEW key \in S
        PROVE  IsUtf8(key) /\ IsUtf8(fields[key])
    <3>1. PICK i \in 1 .. n : keys[i] = key
      BY <1>2
    <3>2. 2 * i - 1 \in 1 .. 2 * n /\ 2 * i \in 1 .. 2 * n
      OBVIOUS
    <3> QED BY <1>5, <2>2, <3>1, <3>2
  <2>3. ASSUME \A text \in S \cup Range(fields) : IsUtf8(text), NEW i \in 1 .. 2 * n
        PROVE  IsUtf8(flat[i])
    <3>1. PICK j \in 1 .. n : i = 2 * j - 1 \/ i = 2 * j
      BY <1>6
    <3>2. flat[i] = keys[j] \/ flat[i] = fields[keys[j]]
      BY <1>5, <3>1
    <3> QED BY <1>4, <2>1, <2>3, <3>2
  <2> QED BY <2>1, <2>2, <2>3
<1> QED BY <1>7, <1>8, <1>9 DEF flat, S

-----------------------------------------------------------------------------
(* One field of a message *)

Kinds == {"text", "bytes", "texts", "fields", "code"}

\* How a field of a kind is written, when it is what it should be, when it is read.
Bytes(kind, value) == CASE kind = "text" -> WriteText(value)
                        [] kind = "bytes" -> WriteText(value)
                        [] kind = "texts" -> WriteTexts(value)
                        [] kind = "fields" -> WriteTexts(Flat(value))
                        [] kind = "code" -> <<<<"int", value>>>>

Typed(kind, value) == CASE kind = "text" -> value \in Text
                        [] kind = "bytes" -> value \in Text
                        [] kind = "texts" -> value \in Seq(Text)
                        [] kind = "fields" -> IsFields(value)
                        [] kind = "code" -> value \in -Half .. Half - 1

Reads(kind, value) == CASE kind = "text" -> IsUtf8(value)
                        [] kind = "bytes" -> TRUE
                        [] kind = "texts" -> \A i \in 1 .. Len(value) : IsUtf8(value[i])
                        [] kind = "fields" -> \A i \in 1 .. Len(Flat(value)) : IsUtf8(Flat(value)[i])
                        [] kind = "code" -> TRUE

\* A number is taken, however it is spelled.
LEMMA TakesCode ==
    ASSUME NEW wire, Len(wire) \in Nat, NEW at \in Nat \ {0}, NEW code \in -Half .. Half - 1,
           Lays(wire, at, <<<<"int", code>>>>)
    PROVE  /\ <<<<"int", code>>>> \in Seq(Cells)
           /\ TakeCode(wire, at) = IF Fits(wire, at, <<<<"int", code>>>>)
                                   THEN Took(code, at + Len(<<<<"int", code>>>>)) ELSE Failed
<1> DEFINE w == <<<<"int", code>>>>
<1>0. Half \in Nat \ {0}
  BY DxlCodecAssumption
<1>1. Len(w) = 1 /\ w[1] = <<"int", code>> /\ w \in Seq(Cells)
  <2>1. <<"int", code>> \in Cells
    BY <1>0 DEF Cells
  <2> QED BY <2>1
<1> HIDE DEF w
<1>2. at <= Len(wire) => Spells(wire[at], <<"int", code>>)
  <2>1. 1 \in 1 .. Len(w) /\ at + 1 - 1 = at
    BY <1>1
  <2> QED BY <1>1, <2>1 DEF Lays, w
<1>3. Fits(wire, at, w) <=> at <= Len(wire)
  BY <1>1 DEF Fits
<1>4. CASE at <= Len(wire)
  <2>1. "int" \notin TextKinds
    BY DEF TextKinds
  <2>2. \/ wire[at] = <<"int", code>>
        \/ code < 0 /\ wire[at] = <<"int", code + 2 * Half>>
    BY <1>2, <1>4, <2>1 DEF Spells
  <2> DEFINE raw == wire[at][2]
  <2>3. wire[at][1] = "int" /\ raw \in -Half .. 2 * Half - 1 /\ FoldCode(raw) = code
    <3>1. CASE wire[at] = <<"int", code>>
      BY <1>0, <3>1 DEF FoldCode
    <3>2. CASE code < 0 /\ wire[at] = <<"int", code + 2 * Half>>
      BY <1>0, <3>2 DEF FoldCode
    <3> QED BY <2>2, <3>1, <3>2
  <2>4. TakeIntOf(wire, at, -Half .. 2 * Half - 1) = Took(raw, at + 1)
    BY <1>4, <2>3 DEF TakeIntOf
  <2> HIDE DEF raw
  <2>5. TakeCode(wire, at) = Took(code, at + 1)
    BY <2>3, <2>4, OkOf DEF TakeCode
  <2> QED BY <1>1, <1>3, <1>4, <2>5 DEF w
<1>5. CASE ~(at <= Len(wire))
  <2>1. TakeIntOf(wire, at, -Half .. 2 * Half - 1) = Failed
    BY <1>5 DEF TakeIntOf
  <2>2. TakeCode(wire, at) = Failed
    BY <2>1, OkOf DEF TakeCode
  <2> QED BY <1>1, <1>3, <1>5, <2>2 DEF w
<1> QED BY <1>4, <1>5

\* What is written of a field is a sequence of cells.
LEMMA BytesCells ==
    ASSUME NEW kind \in Kinds, NEW value, Typed(kind, value)
    PROVE  Bytes(kind, value) \in Seq(Cells)
<1>1. CASE kind \in {"text", "bytes"}
  BY <1>1, WriteTextCells DEF Typed, Bytes
<1>2. CASE kind = "texts"
  BY <1>2, WriteTextsIs DEF Typed, Bytes
<1>3. CASE kind = "fields"
  <2>1. Flat(value) \in Seq(Text) /\ Bytes(kind, value) = WriteTexts(Flat(value))
    BY <1>3, FieldsOfFlat DEF Typed, Bytes
  <2> QED BY <2>1, WriteTextsIs
<1>4. CASE kind = "code"
  <2>1. value \in -Half .. Half - 1 /\ Bytes(kind, value) = <<<<"int", value>>>>
    BY <1>4 DEF Typed, Bytes
  <2>2. <<"int", value>> \in Cells
    BY <2>1, DxlCodecAssumption DEF Cells
  <2> QED BY <2>1, <2>2
<1> QED BY <1>1, <1>2, <1>3, <1>4 DEF Kinds

\* A field is taken as it was written, if all of it is there and it can be read.
LEMMA TakesItem ==
    ASSUME NEW wire, Len(wire) \in Nat, NEW at \in Nat \ {0}, NEW kind \in Kinds, NEW value,
           Typed(kind, value), Lays(wire, at, Bytes(kind, value))
    PROVE  Take(kind, wire, at) = IF Fits(wire, at, Bytes(kind, value)) /\ Reads(kind, value)
                                  THEN Took(value, at + Len(Bytes(kind, value))) ELSE Failed
<1>1. CASE kind = "text"
  <2>1. Bytes(kind, value) = WriteText(value) /\ value \in Text /\ Reads(kind, value) = IsUtf8(value)
    BY <1>1 DEF Typed, Bytes, Reads
  <2>2. Take(kind, wire, at) = TakeText(wire, at)
    BY <1>1 DEF Take
  <2> QED BY <2>1, <2>2, TakesText
<1>2. CASE kind = "bytes"
  <2>1. Bytes(kind, value) = WriteText(value) /\ value \in Text /\ Reads(kind, value)
    BY <1>2 DEF Typed, Bytes, Reads
  <2>2. Take(kind, wire, at) = TakeBytes(wire, at)
    BY <1>2 DEF Take
  <2> QED BY <2>1, <2>2, TakesBytes
<1>3. CASE kind = "texts"
  <2>1. /\ Bytes(kind, value) = WriteTexts(value) /\ value \in Seq(Text)
        /\ Reads(kind, value) <=> \A i \in 1 .. Len(value) : IsUtf8(value[i])
    BY <1>3 DEF Typed, Bytes, Reads
  <2>2. Take(kind, wire, at) = TakeTexts(wire, at)
    BY <1>3 DEF Take
  <2>3. TakeTexts(wire, at)
          = IF Fits(wire, at, WriteTexts(value)) /\ \A i \in 1 .. Len(value) : IsUtf8(value[i])
            THEN Took(value, at + Len(WriteTexts(value))) ELSE Failed
    BY <2>1, TakesTexts
  <2> QED BY <2>1, <2>2, <2>3, Zenon
<1>4. CASE kind = "fields"
  <2> DEFINE flat == Flat(value)
  <2>1. /\ Bytes(kind, value) = WriteTexts(flat) /\ IsFields(value)
        /\ Reads(kind, value) <=> \A i \in 1 .. Len(flat) : IsUtf8(flat[i])
    BY <1>4 DEF Typed, Bytes, Reads
  <2>2. Take(kind, wire, at) = TakeFields(wire, at)
    BY <1>4 DEF Take
  <2>3. flat \in Seq(Text) /\ FieldsOf(flat) = value
    BY <2>1, FieldsOfFlat
  <2> HIDE DEF flat
  <2>4. TakeTexts(wire, at)
          = IF Fits(wire, at, WriteTexts(flat)) /\ \A i \in 1 .. Len(flat) : IsUtf8(flat[i])
            THEN Took(flat, at + Len(WriteTexts(flat))) ELSE Failed
    BY <2>1, <2>3, TakesTexts
  <2>5. TakeTexts(wire, at) = IF Fits(wire, at, WriteTexts(flat)) /\ Reads(kind, value)
                              THEN Took(flat, at + Len(WriteTexts(flat))) ELSE Failed
    BY <2>1, <2>4, Zenon
  <2>6. TakeFields(wire, at) = IF Fits(wire, at, WriteTexts(flat)) /\ Reads(kind, value)
                               THEN Took(value, at + Len(WriteTexts(flat))) ELSE Failed
    BY <2>3, <2>5, OkOf DEF TakeFields
  <2> QED BY <2>1, <2>2, <2>6
<1>5. CASE kind = "code"
  <2>1. Bytes(kind, value) = <<<<"int", value>>>> /\ value \in -Half .. Half - 1 /\ Reads(kind, value)
    BY <1>5 DEF Typed, Bytes, Reads
  <2>2. Take(kind, wire, at) = TakeCode(wire, at)
    BY <1>5 DEF Take
  <2>3. TakeCode(wire, at) = IF Fits(wire, at, <<<<"int", value>>>>)
                             THEN Took(value, at + Len(<<<<"int", value>>>>)) ELSE Failed
    BY <2>1, TakesCode
  <2> QED BY <2>1, <2>2, <2>3
<1> QED BY <1>1, <1>2, <1>3, <1>4, <1>5 DEF Kinds

-----------------------------------------------------------------------------
(* The fields of a layout *)

\* The items of layouts that a message has.
ItemsOf(m) == {item \in Kinds \X Fields : Typed(item[1], m[item[2]])}

ItemBytes(m, item) == Bytes(item[1], m[item[2]])

AllBytes(m, layout) == FlattenSeq([k \in DOMAIN layout |-> ItemBytes(m, layout[k])])

\* A layout of one item more is written as the layout and then the item.
LEMMA AllBytesGrow ==
    ASSUME NEW m
    PROVE  /\ AllBytes(m, <<>>) = <<>>
           /\ \A item \in ItemsOf(m) : ItemBytes(m, item) \in Seq(Cells)
           /\ \A layout \in Seq(ItemsOf(m)) :
                /\ AllBytes(m, layout) \in Seq(Cells)
                /\ \A item \in ItemsOf(m) :
                     AllBytes(m, Append(layout, item)) = AllBytes(m, layout) \o ItemBytes(m, item)
<1> DEFINE I == ItemsOf(m)
           h == [item \in I |-> ItemBytes(m, item)]
<1>1. \A item \in I : ItemBytes(m, item) \in Seq(Cells)
  <2> TAKE item \in I
  <2>1. item[1] \in Kinds /\ Typed(item[1], m[item[2]])
    BY DEF ItemsOf
  <2> QED BY <2>1, BytesCells DEF ItemBytes
<1>2. h \in [I -> Seq(Cells)] /\ \A item \in I : h[item] = ItemBytes(m, item)
  BY <1>1
<1> HIDE DEF h, I
<1>3. ASSUME NEW layout \in Seq(I) PROVE AllBytes(m, layout) = Each(layout, h)
  <2>1. \A k \in DOMAIN layout : ItemBytes(m, layout[k]) = h[layout[k]]
    BY <1>2, ElementOfSeq
  <2>2. [k \in DOMAIN layout |-> ItemBytes(m, layout[k])] = [k \in DOMAIN layout |-> h[layout[k]]]
    BY <2>1
  <2> QED BY <2>2 DEF AllBytes, Each
<1>4. AllBytes(m, <<>>) = <<>>
  <2>1. <<>> \in Seq(I)
    OBVIOUS
  <2>2. AllBytes(m, <<>>) = Each(<<>>, h)
    BY <1>3, <2>1
  <2> QED BY <2>2, EachEmpty
<1>5. ASSUME NEW layout \in Seq(I) PROVE AllBytes(m, layout) \in Seq(Cells)
  BY <1>2, <1>3, EachType
<1>6. ASSUME NEW layout \in Seq(I), NEW item \in I
      PROVE  AllBytes(m, Append(layout, item)) = AllBytes(m, layout) \o ItemBytes(m, item)
  <2>1. Append(layout, item) = layout \o <<item>> /\ Append(layout, item) \in Seq(I) /\
          <<item>> \in Seq(I)
    OBVIOUS
  <2>2. Each(layout \o <<item>>, h) = Each(layout, h) \o Each(<<item>>, h)
    BY <1>2, <2>1, EachConcat
  <2>3. Each(<<item>>, h) = ItemBytes(m, item)
    BY <1>2, EachOne
  <2> QED BY <1>3, <2>1, <2>2, <2>3
<1> QED BY <1>1, <1>4, <1>5, <1>6 DEF I

\* A message of which the fields of a layout are read.
Filled(m, blank, layout) ==
    [field \in Fields |-> IF \E k \in 1 .. Len(layout) : layout[k][2] = field
                          THEN m[field] ELSE blank[field]]

IsParsing(f, wire, at, blank, layout) ==
    /\ f[0] = Took(blank, at)
    /\ \A k \in 1 .. Len(layout) : f[k] = AnotherField(wire, f[k - 1], layout[k])

\* What is read of a layout, or nothing.
Parsed(m, wire, at, blank, layout) ==
    IF /\ Fits(wire, at, AllBytes(m, layout))
       /\ \A k \in 1 .. Len(layout) : Reads(layout[k][1], m[layout[k][2]])
    THEN Took(Filled(m, blank, layout), at + Len(AllBytes(m, layout))) ELSE Failed

\* Field by field, what a layout lists is read as it was written, if all of it is there.
LEMMA ParsingRuns ==
    ASSUME NEW wire, Len(wire) \in Nat, NEW at \in Nat \ {0}, at - 1 <= Len(wire), NEW m,
           NEW blank, blank = [field \in Fields |-> blank[field]],
           NEW whole \in Seq(ItemsOf(m)), Lays(wire, at, AllBytes(m, whole))
    PROVE  \E f : /\ IsParsing(f, wire, at, blank, whole)
                  /\ f[Len(whole)] = Parsed(m, wire, at, blank, whole)
<1> DEFINE I == ItemsOf(m)
           Runs(layout) == \E f : /\ IsParsing(f, wire, at, blank, layout)
                                  /\ f[Len(layout)] = Parsed(m, wire, at, blank, layout)
           Laid(layout) == Lays(wire, at, AllBytes(m, layout))
           T == {layout \in Seq(I) : Laid(layout) => Runs(layout)}
<1>1. <<>> \in T
  <2> DEFINE f == [k \in 0 .. 0 |-> Took(blank, at)]
  <2>1. AllBytes(m, <<>>) = <<>>
    BY AllBytesGrow
  <2>2. Fits(wire, at, <<>>)
    BY DEF Fits
  <2>3. at + Len(<<>>) = at
    OBVIOUS
  <2>4. Filled(m, blank, <<>>) = blank
    BY DEF Filled
  <2>5. Parsed(m, wire, at, blank, <<>>) = Took(blank, at)
    BY <2>1, <2>2, <2>3, <2>4 DEF Parsed
  <2>6. IsParsing(f, wire, at, blank, <<>>) /\ f[Len(<<>>)] = Parsed(m, wire, at, blank, <<>>)
    BY <2>5 DEF IsParsing
  <2>7. Runs(<<>>)
    BY <2>6
  <2> HIDE DEF Runs, Laid
  <2> QED BY <2>7
<1>2. ASSUME NEW layout \in Seq(I), NEW item \in I, layout \in T PROVE Append(layout, item) \in T
  <2> DEFINE more == Append(layout, item)
             all == AllBytes(m, layout)
             w == ItemBytes(m, item)
             next == at + Len(all)
             value == m[item[2]]
  <2>1. /\ more \in Seq(I) /\ all \in Seq(Cells) /\ AllBytes(m, more) = all \o w
        /\ w \in Seq(Cells)
    BY AllBytesGrow
  <2>2. PICK n \in Nat : n = Len(layout)
    OBVIOUS
  <2>3. Len(more) = n + 1 /\ more[n + 1] = item /\ \A i \in 1 .. n : more[i] = layout[i]
    BY <2>2
  <2>a. item[1] \in Kinds /\ item[2] \in Fields /\ Typed(item[1], value) /\ w = Bytes(item[1], value)
    BY DEF ItemsOf, ItemBytes
  <2> SUFFICES ASSUME Laid(more) PROVE Runs(more)
    <3> HIDE DEF Laid, Runs
    <3> QED BY <2>1
  <2> HIDE DEF more, all, w, value
  <2>4. /\ Lays(wire, at, all) /\ Lays(wire, next, w)
        /\ at + Len(all \o w) = next + Len(w) /\ Len(all) \in Nat /\ Len(w) \in Nat
    <3>1. at \in Int /\ Lays(wire, at, all \o w)
      BY <2>1
    <3>2. \A from \in Int : Lays(wire, from, all \o w) =>
            /\ Lays(wire, from, all) /\ Lays(wire, from + Len(all), w)
            /\ from + Len(all \o w) = from + Len(all) + Len(w)
            /\ Len(all) \in Nat /\ Len(w) \in Nat
      BY <2>1, LaysBoth
    <3> HIDE DEF next
    <3> QED BY <3>1, <3>2, Zenon DEF next
  <2>5. PICK f : IsParsing(f, wire, at, blank, layout) /\ f[n] = Parsed(m, wire, at, blank, layout)
    <3>1. Runs(layout)
      BY <1>2, <2>4, Zenon DEF all
    <3> QED BY <2>2, <3>1
  <2> DEFINE g == [k \in 0 .. n + 1 |-> IF k = n + 1 THEN AnotherField(wire, f[n], item) ELSE f[k]]
  <2>6. IsParsing(g, wire, at, blank, more) /\ g[n + 1] = AnotherField(wire, f[n], item)
    <3>1. g[0] = Took(blank, at)
      BY <2>2, <2>5 DEF IsParsing
    <3>2. ASSUME NEW k \in 1 .. n + 1 PROVE g[k] = AnotherField(wire, g[k - 1], more[k])
      <4>1. k - 1 \in 0 .. n /\ g[k - 1] = f[k - 1]
        BY <2>2
      <4>2. CASE k = n + 1
        BY <2>2, <2>3, <4>1, <4>2
      <4>3. CASE k # n + 1
        <5>1. k \in 1 .. n /\ g[k] = f[k] /\ more[k] = layout[k]
          BY <2>2, <2>3, <4>3
        <5> HIDE DEF g
        <5> QED BY <2>2, <2>5, <4>1, <5>1 DEF IsParsing
      <4> QED BY <4>2, <4>3
    <3>3. g[n + 1] = AnotherField(wire, f[n], item)
      BY <2>2
    <3> HIDE DEF g
    <3> QED BY <2>3, <3>1, <3>2, <3>3 DEF IsParsing
  <2> HIDE DEF g
  <2> DEFINE readable == \A k \in 1 .. n : Reads(layout[k][1], m[layout[k][2]])
             so == Filled(m, blank, layout)
  <2>7. Parsed(m, wire, at, blank, layout) = IF Fits(wire, at, all) /\ readable
          THEN Took(so, next) ELSE Failed
    BY <2>2 DEF Parsed, all
  <2>8. Parsed(m, wire, at, blank, more)
          = IF Fits(wire, next, w) /\ readable /\ Reads(item[1], value)
            THEN Took(Filled(m, blank, more), next + Len(w)) ELSE Failed
    <3>1. Fits(wire, at, all \o w) <=> Fits(wire, next, w)
      BY <2>4 DEF Fits
    <3>2. (\A k \in 1 .. n + 1 : Reads(more[k][1], m[more[k][2]])) <=> readable /\ Reads(item[1], value)
      <4>1. \A k \in 1 .. n + 1 : k \in 1 .. n \/ k = n + 1
        BY <2>2
      <4>2. \A k \in 1 .. n : k \in 1 .. n + 1
        BY <2>2
      <4>3. n + 1 \in 1 .. n + 1
        BY <2>2
      <4> QED BY <2>3, <4>1, <4>2, <4>3 DEF value
    <3> HIDE DEF readable, so, next
    <3>3. at + Len(all \o w) = next + Len(w)
      BY <2>4
    <3> QED BY <2>1, <2>3, <3>1, <3>2, <3>3, Zenon DEF Parsed
  <2>9. next \in Nat \ {0} /\ (Fits(wire, next, w) => Fits(wire, at, all))
    BY <2>4 DEF Fits
  <2>10. Filled(m, blank, more) = [so EXCEPT ![item[2]] = value]
    <3>1. \A field \in Fields : (\E k \in 1 .. n + 1 : more[k][2] = field)
                                  <=> (\E k \in 1 .. n : layout[k][2] = field) \/ item[2] = field
      <4>1. \A k \in 1 .. n + 1 : k \in 1 .. n \/ k = n + 1
        BY <2>2
      <4>2. \A k \in 1 .. n : k \in 1 .. n + 1
        BY <2>2
      <4>3. n + 1 \in 1 .. n + 1
        BY <2>2
      <4> QED BY <2>3, <4>1, <4>2, <4>3
    <3> DEFINE b == Filled(m, blank, more)
               e == [so EXCEPT ![item[2]] = value]
    <3>2. DOMAIN so = Fields /\ \A field \in Fields :
            so[field] = IF \E k \in 1 .. n : layout[k][2] = field THEN m[field] ELSE blank[field]
      BY <2>2 DEF Filled
    <3>3. b = [field \in Fields |-> b[field]] /\ \A field \in Fields :
            b[field] = IF \E k \in 1 .. n + 1 : more[k][2] = field THEN m[field] ELSE blank[field]
      BY <2>3 DEF Filled
    <3> HIDE DEF so, b
    <3>4. e = [field \in Fields |-> e[field]] /\ \A field \in Fields :
            e[field] = IF field = item[2] THEN value ELSE so[field]
      BY <2>a, <3>2
    <3> HIDE DEF e
    <3>5. \A field \in Fields : b[field] = e[field]
      BY <3>1, <3>2, <3>3, <3>4 DEF value
    <3>6. b = e
      BY <3>3, <3>4, <3>5
    <3> QED BY <3>6 DEF b, e
  <2> HIDE DEF next, readable, so
  <2>11. Take(item[1], wire, next) = IF Fits(wire, next, w) /\ Reads(item[1], value)
                                     THEN Took(value, next + Len(w)) ELSE Failed
    BY <2>4, <2>9, <2>a, TakesItem
  <2>12. AnotherField(wire, f[n], item) = Parsed(m, wire, at, blank, more)
    <3>1. CASE Fits(wire, at, all) /\ readable
      <4>1. f[n] = Took(so, next)
        BY <2>5, <2>7, <3>1
      <4>2. AnotherField(wire, f[n], item) = IF Take(item[1], wire, next).ok
              THEN Took([so EXCEPT ![item[2]] = Take(item[1], wire, next).value],
                Take(item[1], wire, next).next)
              ELSE Failed
        <5>1. f[n].ok /\ f[n].value = so /\ f[n].next = next
          BY <4>1, OkOf
        <5>2. AnotherField(wire, f[n], item) = IF f[n].ok /\ Take(item[1], wire, f[n].next).ok
                THEN Took([f[n].value EXCEPT ![item[2]] = Take(item[1], wire, f[n].next).value],
                          Take(item[1], wire, f[n].next).next)
                ELSE Failed
          BY Zenon DEF AnotherField
        <5> QED BY <5>1, <5>2, Zenon
      <4>3. CASE Fits(wire, next, w) /\ Reads(item[1], value)
        <5>1. Take(item[1], wire, next) = Took(value, next + Len(w))
          BY <2>11, <4>3
        <5>2. /\ Take(item[1], wire, next).ok /\ Take(item[1], wire, next).value = value
              /\ Take(item[1], wire, next).next = next + Len(w)
          BY <5>1, OkOf
        <5>3. AnotherField(wire, f[n], item) = Took([so EXCEPT ![item[2]] = value], next + Len(w))
          BY <4>2, <5>2, Zenon
        <5> QED BY <2>8, <2>10, <3>1, <4>3, <5>3
      <4>4. CASE ~(Fits(wire, next, w) /\ Reads(item[1], value))
        <5>1. ~Take(item[1], wire, next).ok
          BY <2>11, <4>4, OkOf
        <5> QED BY <2>8, <4>2, <4>4, <5>1
      <4> QED BY <4>3, <4>4
    <3>2. CASE ~(Fits(wire, at, all) /\ readable)
      <4>1. f[n] = Failed
        BY <2>5, <2>7, <3>2
      <4>2. AnotherField(wire, f[n], item) = Failed
        BY <4>1, OkOf DEF AnotherField
      <4> QED BY <2>8, <2>9, <3>2, <4>2
    <3> QED BY <3>1, <3>2
  <2>13. g[Len(more)] = Parsed(m, wire, at, blank, more)
    BY <2>3, <2>6, <2>12
  <2> QED BY <2>6, <2>13
<1>3. Seq(I) \subseteq T
  <2> HIDE DEF T
  <2> QED BY <1>1, <1>2, SeqInduct
<1>4. whole \in T
  BY <1>3
<1> QED BY <1>4

\* ParseFields is what its steps come to.
LEMMA ParsesFields ==
    ASSUME NEW wire, Len(wire) \in Nat, NEW at \in Nat \ {0}, at - 1 <= Len(wire), NEW m,
           NEW blank, blank = [field \in Fields |-> blank[field]],
           NEW layout \in Seq(ItemsOf(m)), Lays(wire, at, AllBytes(m, layout))
    PROVE  ParseFields(wire, at, layout, blank) = Parsed(m, wire, at, blank, layout)
<1> DEFINE n == Len(layout)
           body(g) == [k \in 0 .. n |-> IF k = 0 THEN Took(blank, at)
                                        ELSE AnotherField(wire, g[k - 1], layout[k])]
           parsed == CHOOSE g : g = body(g)
<1>1. n \in Nat
  OBVIOUS
<1> HIDE DEF n
<1>2. PICK f : IsParsing(f, wire, at, blank, layout) /\ f[n] = Parsed(m, wire, at, blank, layout)
  BY ParsingRuns DEF n
<1>3. f[0] = Took(blank, at) /\ \A k \in 1 .. n : f[k] = AnotherField(wire, f[k - 1], layout[k])
  BY <1>2 DEF IsParsing, n
<1>4. \E g : g = body(g)
  <2> DEFINE g == [k \in 0 .. n |-> f[k]]
  <2>1. \A k \in 0 .. n : g[k] = IF k = 0
          THEN Took(blank, at) ELSE AnotherField(wire, g[k - 1], layout[k])
    <3> TAKE k \in 0 .. n
    <3>1. CASE k = 0
      BY <1>3, <3>1
    <3>2. CASE k # 0
      <4>1. k \in 1 .. n /\ k - 1 \in 0 .. n
        BY <1>1, <3>2
      <4> QED BY <1>3, <3>2, <4>1
    <3> QED BY <3>1, <3>2
  <2>2. g = [k \in 0 .. n |-> g[k]]
    OBVIOUS
  <2> HIDE DEF g
  <2>3. g = body(g)
    BY <2>1, <2>2
  <2> HIDE DEF body
  <2> QED BY <2>3
<1>5. parsed = body(parsed)
  <2> HIDE DEF body
  <2> QED BY <1>4
<1>6. ParseFields(wire, at, layout, blank) = parsed[n]
  BY DEF ParseFields, n
<1> HIDE DEF parsed
<1>7. parsed[0] = Took(blank, at) /\ \A k \in 1 .. n :
        parsed[k] = AnotherField(wire, parsed[k - 1], layout[k])
  <2>1. 0 \in 0 .. n /\ \A k \in 1 .. n : k \in 0 .. n /\ k # 0
    BY <1>1
  <2>2. parsed = [k \in 0 .. n |-> IF k = 0 THEN Took(blank, at)
                                   ELSE AnotherField(wire, parsed[k - 1], layout[k])]
    BY <1>5
  <2> HIDE DEF body
  <2>3. \A k \in 0 .. n : parsed[k] = IF k = 0 THEN Took(blank, at)
                                      ELSE AnotherField(wire, parsed[k - 1], layout[k])
    BY <2>2, Zenon
  <2> QED BY <2>1, <2>3, Zenon
<1> DEFINE S == {k \in 0 .. n : parsed[k] = f[k]}
<1>8. 0 .. n \subseteq S
  <2>1. 0 \in S
    BY <1>1, <1>3, <1>7
  <2>2. ASSUME NEW k \in 1 .. n, k - 1 \in S PROVE k \in S
    BY <1>1, <1>3, <1>7, <2>2
  <2> HIDE DEF S
  <2> QED BY <1>1, <2>1, <2>2, LoopInvariant
<1>9. parsed[n] = f[n]
  BY <1>1, <1>8
<1> QED BY <1>2, <1>6, <1>9

-----------------------------------------------------------------------------
(* A message as its layout says *)

\* Behind the heads come the fields of the layout, the items of it.
Says(m, heads, pieces, layout, items) ==
    /\ layout \in Seq(ItemsOf(m)) /\ items = ToSet(layout)
    /\ heads \in Seq(Seq(Cells)) /\ pieces \in Seq(Seq(Cells))
    /\ Len(pieces) = Len(heads) + Len(layout)
    /\ \A i \in 1 .. Len(heads) : pieces[i] = heads[i]
    /\ \A k \in 1 .. Len(layout) : pieces[Len(heads) + k] = ItemBytes(m, layout[k])

\* Pieces that say two layouts one after the other say the layout of both.
LEMMA SaysBoth ==
    ASSUME NEW m, NEW heads, NEW p, NEW q, NEW l, NEW k, NEW these, NEW those,
           Says(m, heads, p, l, these), Says(m, <<>>, q, k, those)
    PROVE  Says(m, heads, p \o q, l \o k, these \cup those)
<1> DEFINE I == ItemsOf(m)
           S == Seq(Cells)
<1>1. /\ l \in Seq(I) /\ k \in Seq(I) /\ p \in Seq(S) /\ q \in Seq(S) /\ heads \in Seq(S)
      /\ these = ToSet(l) /\ those = ToSet(k)
  BY DEF Says
<1>0. PICK skipped \in Nat : skipped = Len(heads)
  BY <1>1
<1>2. PICK a \in Nat : a = Len(l)
  BY <1>1
<1>3. PICK b \in Nat : b = Len(k)
  BY <1>1
<1>4. /\ Len(p) = skipped + a /\ Len(q) = b
      /\ \A i \in 1 .. a : p[skipped + i] = ItemBytes(m, l[i])
      /\ \A i \in 1 .. b : q[i] = ItemBytes(m, k[i])
      /\ \A i \in 1 .. skipped : p[i] = heads[i]
  BY <1>0, <1>2, <1>3 DEF Says
<1> DEFINE pq == p \o q
           lk == l \o k
<1>5. /\ pq \in Seq(S) /\ Len(pq) = skipped + a + b
      /\ \A i \in 1 .. skipped + a + b : pq[i] = IF i <= skipped + a THEN p[i] ELSE q[i - (skipped + a)]
  <2>1. PICK c \in Nat : c = Len(p)
    BY <1>1
  <2>2. c = skipped + a
    BY <1>4, <2>1
  <2>3. pq \in Seq(S) /\ Len(pq) = c + b /\ \A i \in 1 .. c + b : pq[i] = IF i <= c
          THEN p[i] ELSE q[i - c]
    BY <1>1, <1>4, <2>1, ConcatProperties
  <2> HIDE DEF pq
  <2> QED BY <2>2, <2>3
<1>6. /\ lk \in Seq(I) /\ Len(lk) = a + b
      /\ \A i \in 1 .. a + b : lk[i] = IF i <= a THEN l[i] ELSE k[i - a]
  BY <1>1, <1>2, <1>3, ConcatProperties
<1> HIDE DEF pq, lk
<1>7. ASSUME NEW i \in 1 .. a + b PROVE pq[skipped + i] = ItemBytes(m, lk[i])
  <2>1. CASE i <= a
    <3>1. i \in 1 .. a /\ skipped + i \in 1 .. skipped + a + b /\ skipped + i <= skipped + a
      BY <1>2, <1>3, <2>1
    <3> QED BY <1>4, <1>5, <1>6, <2>1, <3>1
  <2>2. CASE ~(i <= a)
    <3>1. /\ i - a \in 1 .. b /\ skipped + i \in 1 .. skipped + a + b
          /\ ~(skipped + i <= skipped + a) /\ (skipped + i) - (skipped + a) = i - a
      BY <1>2, <1>3, <2>2
    <3>2. pq[skipped + i] = q[(skipped + i) - (skipped + a)] /\ lk[i] = k[i - a]
      BY <1>5, <1>6, <2>2, <3>1
    <3>3. q[i - a] = ItemBytes(m, k[i - a])
      BY <1>4, <3>1
    <3> QED BY <3>1, <3>2, <3>3
  <2> QED BY <2>1, <2>2
<1>9. ToSet(lk) = ToSet(l) \cup ToSet(k)
  <2>1. DOMAIN l = 1 .. a /\ DOMAIN k = 1 .. b /\ DOMAIN lk = 1 .. a + b
    BY <1>1, <1>2, <1>3, <1>6
  <2>2. \A i \in 1 .. a : i \in 1 .. a + b /\ i <= a
    BY <1>3
  <2>3. \A i \in 1 .. b : i + a \in 1 .. a + b /\ ~(i + a <= a) /\ (i + a) - a = i
    BY <1>2
  <2>4. \A i \in 1 .. a + b : i \in 1 .. a \/ (~(i <= a) /\ i - a \in 1 .. b)
    BY <1>2
  <2>5. \A x : x \in ToSet(lk) => x \in ToSet(l) \cup ToSet(k)
    <3> TAKE x
    <3> SUFFICES ASSUME x \in ToSet(lk) PROVE x \in ToSet(l) \cup ToSet(k)
      OBVIOUS
    <3>1. PICK i \in 1 .. a + b : x = lk[i]
      BY <2>1 DEF ToSet
    <3>2. CASE i \in 1 .. a
      <4>1. x = l[i]
        BY <1>6, <3>1, <3>2
      <4> QED BY <2>1, <3>2, <4>1 DEF ToSet
    <3>3. CASE ~(i <= a) /\ i - a \in 1 .. b
      <4>1. x = k[i - a]
        BY <1>6, <3>1, <3>3
      <4> QED BY <2>1, <3>3, <4>1 DEF ToSet
    <3> QED BY <2>4, <3>2, <3>3
  <2>6. \A i \in 1 .. a : lk[i] = l[i]
    BY <1>6, <2>2
  <2>7. \A i \in 1 .. b : lk[i + a] = k[i]
    BY <1>6, <2>3
  <2>8. \A x : x \in ToSet(l) => x \in ToSet(lk)
    BY <2>1, <2>2, <2>6, Zenon DEF ToSet
  <2>9. \A x : x \in ToSet(k) => x \in ToSet(lk)
    BY <2>1, <2>3, <2>7, Zenon DEF ToSet
  <2> QED BY <2>5, <2>8, <2>9
<1>10. \A i \in 1 .. skipped : pq[i] = p[i]
  <2>1. \A i \in 1 .. skipped : i \in 1 .. skipped + a + b /\ i <= skipped + a
    BY <1>2, <1>3
  <2> QED BY <1>5, <2>1
<1>11. Says(m, heads, pq, lk, these \cup those)
  <2>1. /\ Len(pq) = Len(heads) + Len(lk)
        /\ \A i \in 1 .. Len(heads) : pq[i] = heads[i]
        /\ \A i \in 1 .. Len(lk) : pq[Len(heads) + i] = ItemBytes(m, lk[i])
    <3>1. Len(pq) = Len(heads) + Len(lk)
      BY <1>0, <1>2, <1>3, <1>5, <1>6
    <3>2. \A i \in 1 .. skipped : i \in 1 .. skipped /\ pq[i] = heads[i]
      BY <1>4, <1>10
    <3>3. \A i \in 1 .. Len(lk) : pq[Len(heads) + i] = ItemBytes(m, lk[i])
      BY <1>0, <1>6, <1>7
    <3> QED BY <1>0, <3>1, <3>2, <3>3
  <2> QED BY <1>1, <1>5, <1>6, <1>9, <2>1 DEF Says
<1> QED BY <1>11 DEF pq, lk

\* Nothing is said of the empty layout.
LEMMA NothingSaid == ASSUME NEW m PROVE Says(m, <<>>, <<>>, <<>>, {})
BY DEF Says, ToSet

\* What there is of the texts of a message.
LEMMA TextPieces ==
    ASSUME NEW m, IsMessage(m), NEW field \in TextFields, Has(m.version, m.message_type, field)
    PROVE  /\ <<"text", field>> \in ItemsOf(m) /\ <<"bytes", field>> \in ItemsOf(m)
           /\ WriteText(IF m[field] = None THEN <<>> ELSE m[field]) = ItemBytes(m, <<"text", field>>)
           /\ WriteText(IF m[field] = None THEN <<>> ELSE m[field]) = ItemBytes(m, <<"bytes", field>>)
           /\ WriteText(IF m[field] = None THEN <<>> ELSE m[field]) \in Seq(Cells)
<1>1. m[field] \in Text
  BY DEF IsMessage
<1>2. m[field] # None
  BY <1>1, TextsAssumption
<1>3. field \in Fields
  BY DEF Fields
<1>4. "text" \in Kinds /\ "bytes" \in Kinds
  BY DEF Kinds
<1>5. <<"text", field>> \in ItemsOf(m) /\ <<"bytes", field>> \in ItemsOf(m)
  BY <1>1, <1>3, <1>4 DEF ItemsOf, Typed
<1>6. /\ ItemBytes(m, <<"text", field>>) = WriteText(m[field])
      /\ ItemBytes(m, <<"bytes", field>>) = WriteText(m[field])
  BY DEF ItemBytes, Bytes
<1> QED BY <1>1, <1>2, <1>5, <1>6, WriteTextCells

\* What there is of the lists of a message.
LEMMA ListPieces ==
    ASSUME NEW m, IsMessage(m), NEW field \in ListFields
    PROVE  /\ <<"texts", field>> \in ItemsOf(m)
           /\ WriteTexts(m[field]) = ItemBytes(m, <<"texts", field>>)
           /\ WriteTexts(m[field]) \in Seq(Cells)
<1>1. m[field] \in Seq(Text)
  BY DEF IsMessage
<1>2. field \in Fields /\ "texts" \in Kinds
  BY DEF Fields, Kinds
<1>3. <<"texts", field>> \in ItemsOf(m)
  BY <1>1, <1>2 DEF ItemsOf, Typed
<1>4. ItemBytes(m, <<"texts", field>>) = WriteTexts(m[field])
  BY DEF ItemBytes, Bytes
<1> QED BY <1>1, <1>3, <1>4, WriteTextsIs

\* What there is of the fields that other versions may have added.
LEMMA OtherPieces ==
    ASSUME NEW m, IsMessage(m)
    PROVE  /\ IsFields(m.other_fields)
           /\ <<"fields", "other_fields">> \in ItemsOf(m)
           /\ WriteTexts(Flat(m.other_fields)) = ItemBytes(m, <<"fields", "other_fields">>)
           /\ WriteTexts(Flat(m.other_fields)) \in Seq(Cells)
<1>1. IsFields(m.other_fields)
  BY DEF IsMessage, IsFields
<1>2. "other_fields" \in Fields /\ "fields" \in Kinds
  BY DEF Fields, Kinds
<1>3. <<"fields", "other_fields">> \in ItemsOf(m)
  BY <1>1, <1>2 DEF ItemsOf, Typed
<1>4. ItemBytes(m, <<"fields", "other_fields">>) = WriteTexts(Flat(m.other_fields))
  BY DEF ItemBytes, Bytes
<1>5. Flat(m.other_fields) \in Seq(Text)
  BY <1>1, FieldsOfFlat
<1> QED BY <1>1, <1>3, <1>4, <1>5, WriteTextsIs

\* What there is of the error code.
LEMMA CodePieces ==
    ASSUME NEW m, IsMessage(m), m.message_type = Error
    PROVE  /\ <<"code", "error_code">> \in ItemsOf(m)
           /\ <<<<"int", IF m.error_code = None THEN 0 ELSE m.error_code>>>>
                = ItemBytes(m, <<"code", "error_code">>)
           /\ <<<<"int", IF m.error_code = None THEN 0 ELSE m.error_code>>>> \in Seq(Cells)
<1>1. m.error_code \in -Half .. Half - 1
  BY Zenon DEF IsMessage
<1>2. m.error_code # None
  <2>1. Half \in Nat /\ None \notin Int
    BY DxlCodecAssumption
  <2> QED BY <1>1, <2>1
<1>3. "error_code" \in Fields /\ "code" \in Kinds
  BY DEF Fields, Kinds
<1>4. <<"code", "error_code">> \in ItemsOf(m)
  BY <1>1, <1>3 DEF ItemsOf, Typed
<1>5. ItemBytes(m, <<"code", "error_code">>) = <<<<"int", m.error_code>>>>
  BY DEF ItemBytes, Bytes
<1>6. <<"int", m.error_code>> \in Cells
  BY <1>1, DxlCodecAssumption DEF Cells
<1> QED BY <1>2, <1>4, <1>5, <1>6

\* Pieces and items side by side.
LEMMA SayTwo ==
    ASSUME NEW m, NEW i \in ItemsOf(m), NEW j \in ItemsOf(m)
    PROVE  /\ Says(m, <<>>, <<ItemBytes(m, i)>>, <<i>>, {i})
           /\ Says(m, <<>>, <<ItemBytes(m, i), ItemBytes(m, j)>>, <<i, j>>, {i, j})
<1> DEFINE p == ItemBytes(m, i)
           q == ItemBytes(m, j)
<1>0. p \in Seq(Cells) /\ q \in Seq(Cells) /\ p = ItemBytes(m, i) /\ q = ItemBytes(m, j)
  BY AllBytesGrow
<1> HIDE DEF p, q
<1>1. Says(m, <<>>, <<p>>, <<i>>, {i})
  BY <1>0 DEF Says, ToSet
<1>2. ToSet(<<i, j>>) = {i, j}
  BY DEF ToSet
<1>3. Says(m, <<>>, <<p, q>>, <<i, j>>, {i, j})
  <2>1. \A k \in 1 .. 2 : k = 1 \/ k = 2
    OBVIOUS
  <2>2. /\ <<i, j>> \in Seq(ItemsOf(m)) /\ <<p, q>> \in Seq(Seq(Cells))
        /\ Len(<<p, q>>) = 2 /\ Len(<<i, j>>) = 2
    BY <1>0
  <2>3. \A k \in 1 .. 2 : <<p, q>>[0 + k] = ItemBytes(m, <<i, j>>[k])
    BY <1>0, <2>1
  <2> QED BY <1>2, <2>2, <2>3 DEF Says
<1> QED BY <1>1, <1>3 DEF p, q

\* Four pieces and four items side by side.
LEMMA SayFour ==
    ASSUME NEW m, NEW i1 \in ItemsOf(m), NEW i2 \in ItemsOf(m), NEW i3 \in ItemsOf(m),
             NEW i4 \in ItemsOf(m)
    PROVE  Says(m, <<>>, <<ItemBytes(m, i1), ItemBytes(m, i2), ItemBytes(m, i3), ItemBytes(m, i4)>>,
             <<i1, i2, i3, i4>>,
                {i1, i2, i3, i4})
<1> DEFINE p1 == ItemBytes(m, i1)
           p2 == ItemBytes(m, i2)
           p3 == ItemBytes(m, i3)
           p4 == ItemBytes(m, i4)
<1>0. /\ p1 \in Seq(Cells) /\ p1 = ItemBytes(m, i1)
      /\ p2 \in Seq(Cells) /\ p2 = ItemBytes(m, i2)
      /\ p3 \in Seq(Cells) /\ p3 = ItemBytes(m, i3)
      /\ p4 \in Seq(Cells) /\ p4 = ItemBytes(m, i4)
  BY AllBytesGrow
<1> HIDE DEF p1, p2, p3, p4
<1> DEFINE p == <<p1, p2, p3, p4>>
           l == <<i1, i2, i3, i4>>
<1>1. \A k \in 1 .. 4 : k = 1 \/ k = 2 \/ k = 3 \/ k = 4
  OBVIOUS
<1>2. l \in Seq(ItemsOf(m)) /\ p \in Seq(Seq(Cells)) /\ Len(l) = 4 /\ Len(p) = 4
  BY <1>0
<1>3. /\ p[1] = p1 /\ p[2] = p2 /\ p[3] = p3 /\ p[4] = p4
      /\ l[1] = i1 /\ l[2] = i2 /\ l[3] = i3 /\ l[4] = i4
  OBVIOUS
<1>4. DOMAIN l = 1 .. 4
  OBVIOUS
<1> HIDE DEF p, l
<1>5. \A k \in 1 .. 4 : p[0 + k] = ItemBytes(m, l[k])
  BY <1>0, <1>1, <1>3
<1>7. ToSet(l) = {i1, i2, i3, i4}
  BY <1>1, <1>3, <1>4 DEF ToSet
<1>8. Says(m, <<>>, p, l, {i1, i2, i3, i4})
  BY <1>2, <1>5, <1>7 DEF Says
<1> QED BY <1>8 DEF p, l, p1, p2, p3, p4

\* The head of a message, six pieces and their items.
LEMMA SaySix ==
    ASSUME NEW m, NEW i1 \in ItemsOf(m), NEW i2 \in ItemsOf(m), NEW i3 \in ItemsOf(m),
             NEW i4 \in ItemsOf(m), NEW i5 \in ItemsOf(m), NEW i6 \in ItemsOf(m),
               NEW a \in Seq(Cells), NEW b \in Seq(Cells)
    PROVE  Says(m, <<a, b>>, <<a, b, ItemBytes(m, i1), ItemBytes(m, i2), ItemBytes(m, i3),
             ItemBytes(m, i4), ItemBytes(m, i5), ItemBytes(m, i6)>>,
                <<i1, i2, i3, i4, i5, i6>>, {i1, i2, i3, i4, i5, i6})
<1> DEFINE p1 == ItemBytes(m, i1)
           p2 == ItemBytes(m, i2)
           p3 == ItemBytes(m, i3)
           p4 == ItemBytes(m, i4)
           p5 == ItemBytes(m, i5)
           p6 == ItemBytes(m, i6)
<1>0. /\ p1 \in Seq(Cells) /\ p1 = ItemBytes(m, i1)
      /\ p2 \in Seq(Cells) /\ p2 = ItemBytes(m, i2)
      /\ p3 \in Seq(Cells) /\ p3 = ItemBytes(m, i3)
      /\ p4 \in Seq(Cells) /\ p4 = ItemBytes(m, i4)
      /\ p5 \in Seq(Cells) /\ p5 = ItemBytes(m, i5)
      /\ p6 \in Seq(Cells) /\ p6 = ItemBytes(m, i6)
  BY AllBytesGrow
<1> HIDE DEF p1, p2, p3, p4, p5, p6
<1> DEFINE p == <<a, b, p1, p2, p3, p4, p5, p6>>
           l == <<i1, i2, i3, i4, i5, i6>>
<1>1. \A k \in 1 .. 6 : k = 1 \/ k = 2 \/ k = 3 \/ k = 4 \/ k = 5 \/ k = 6
  OBVIOUS
<1>2. l \in Seq(ItemsOf(m)) /\ p \in Seq(Seq(Cells)) /\ Len(l) = 6 /\ Len(p) = 8
  BY <1>0
<1>3. /\ p[1] = a /\ p[2] = b
      /\ p[3] = p1 /\ p[4] = p2 /\ p[5] = p3 /\ p[6] = p4 /\ p[7] = p5 /\ p[8] = p6
      /\ l[1] = i1 /\ l[2] = i2 /\ l[3] = i3 /\ l[4] = i4 /\ l[5] = i5 /\ l[6] = i6
  OBVIOUS
<1>4. DOMAIN l = 1 .. 6
  OBVIOUS
<1> HIDE DEF p, l
<1>5. \A k \in 1 .. 6 : p[2 + k] = ItemBytes(m, l[k])
  BY <1>0, <1>1, <1>3
<1>7. ToSet(l) = {i1, i2, i3, i4, i5, i6}
  BY <1>1, <1>3, <1>4 DEF ToSet
<1>8. Says(m, <<a, b>>, p, l, {i1, i2, i3, i4, i5, i6})
  <2>1. <<a, b>> \in Seq(Seq(Cells)) /\ Len(<<a, b>>) = 2 /\ <<a, b>>[1] = a /\ <<a, b>>[2] = b
    OBVIOUS
  <2>2. \A i \in 1 .. 2 : i = 1 \/ i = 2
    OBVIOUS
  <2>3. \A i \in 1 .. 2 : p[i] = <<a, b>>[i]
    BY <1>3, <2>1, <2>2
  <2> QED BY <1>2, <1>5, <1>7, <2>1, <2>3 DEF Says
<1> QED BY <1>8 DEF p, l, p1, p2, p3, p4, p5, p6

\* What a message of a version and a type has, as items of its layout.
ItemsOfBase == {<<"text", "message_id">>, <<"text", "source_client_id">>,
    <<"text", "source_broker_id">>,
                <<"texts", "broker_ids">>, <<"texts", "client_ids">>, <<"bytes", "payload">>}

ItemsOfType(type) ==
    CASE type = Request -> {<<"text", "reply_to_topic">>, <<"text", "service_id">>}
      [] type = Response -> {<<"text", "request_message_id">>, <<"text", "service_id">>}
      [] type = Error -> {<<"text", "request_message_id">>, <<"text", "service_id">>,
                          <<"code", "error_code">>, <<"text", "error_message">>}
      [] OTHER -> {}

ItemsOfVersion(version) ==
    (IF version >= 1 THEN {<<"fields", "other_fields">>} ELSE {})
    \cup (IF version >= 2 THEN {<<"text", "source_tenant_guid">>,
      <<"texts", "destination_tenant_guids">>}
          ELSE {})
    \cup (IF version >= 3 THEN {<<"text", "source_client_instance_id">>} ELSE {})

MessageItems(version, type) == ItemsOfBase \cup ItemsOfType(type) \cup ItemsOfVersion(version)

\* A message is written as its version, its type, and the fields of its layout.
LEMMA PiecesOfLayout ==
    ASSUME NEW m, IsMessage(m)
    PROVE  Says(m, <<<<<<"int", m.version>>>>, <<<<"int", m.message_type>>>>>>, Pieces(m),
                Layout(m.version, m.message_type),
                MessageItems(m.version, m.message_type))
<1> DEFINE version == m.version
           type == m.message_type
           written(field) == WriteText(IF m[field] = None THEN <<>> ELSE m[field])
           code == <<<<"int", IF m.error_code = None THEN 0 ELSE m.error_code>>>>
           heads == <<<<<<"int", m.version>>>>, <<<<"int", m.message_type>>>>>>
           p0 == <<<<<<"int", m.version>>>>, <<<<"int", m.message_type>>>>,
                   written("message_id"), written("source_client_id"), written("source_broker_id"),
                   WriteTexts(m["broker_ids"]), WriteTexts(m["client_ids"]), written("payload")>>
           l0 == <<<<"text", "message_id">>, <<"text", "source_client_id">>,
             <<"text", "source_broker_id">>,
                   <<"texts", "broker_ids">>, <<"texts", "client_ids">>, <<"bytes", "payload">>>>
           pt == CASE type = Request -> <<written("reply_to_topic"), written("service_id")>>
                   [] type = Response -> <<written("request_message_id"), written("service_id")>>
                   [] type = Error -> <<written("request_message_id"), written("service_id"), code,
                                        written("error_message")>>
                   [] OTHER -> <<>>
           lt == CASE type = Request -> <<<<"text", "reply_to_topic">>, <<"text", "service_id">>>>
                   [] type = Response -> <<<<"text", "request_message_id">>, <<"text", "service_id">>>>
                   [] type = Error -> <<<<"text", "request_message_id">>, <<"text", "service_id">>,
                                        <<"code", "error_code">>, <<"text", "error_message">>>>
                   [] OTHER -> <<>>
           p1 == IF version >= 1 THEN <<WriteTexts(Flat(m.other_fields))>> ELSE <<>>
           l1 == IF version >= 1 THEN <<<<"fields", "other_fields">>>> ELSE <<>>
           p2 == IF version >= 2 THEN <<written("source_tenant_guid"),
             WriteTexts(m["destination_tenant_guids"])>>
                 ELSE <<>>
           l2 == IF version >= 2 THEN <<<<"text", "source_tenant_guid">>,
             <<"texts", "destination_tenant_guids">>>>
                 ELSE <<>>
           p3 == IF version >= 3 THEN <<written("source_client_instance_id")>> ELSE <<>>
           l3 == IF version >= 3 THEN <<<<"text", "source_client_instance_id">>>> ELSE <<>>
           T(field) == /\ <<"text", field>> \in ItemsOf(m) /\ <<"bytes", field>> \in ItemsOf(m)
                       /\ written(field) = ItemBytes(m, <<"text", field>>)
                       /\ written(field) = ItemBytes(m, <<"bytes", field>>)
                       /\ written(field) \in Seq(Cells)
           L(field) == /\ <<"texts", field>> \in ItemsOf(m)
                       /\ WriteTexts(m[field]) = ItemBytes(m, <<"texts", field>>)
                       /\ WriteTexts(m[field]) \in Seq(Cells)
<1>1. \A field \in TextFields : Has(version, type, field) => T(field)
  BY TextPieces
<1>2. \A field \in ListFields : L(field)
  BY ListPieces
<1>3. Pieces(m) = p0 \o pt \o p1 \o p2 \o p3
  BY Zenon DEF Pieces
<1>4. Layout(version, type) = l0 \o lt \o l1 \o l2 \o l3
  BY Zenon DEF Layout
<1>5. version \in Nat /\ type \in Nat
  <2>1. version \in 0 .. 255 /\ type \in 0 .. 255
    BY Zenon DEF IsMessage
  <2> QED BY <2>1
<1>c. type = Error => /\ <<"code", "error_code">> \in ItemsOf(m) /\
                        code = ItemBytes(m, <<"code", "error_code">>)
                      /\ code \in Seq(Cells)
  BY CodePieces
<1>o. /\ <<"fields", "other_fields">> \in ItemsOf(m)
      /\ WriteTexts(Flat(m.other_fields)) = ItemBytes(m, <<"fields", "other_fields">>)
      /\ WriteTexts(Flat(m.other_fields)) \in Seq(Cells)
  BY OtherPieces
<1> HIDE DEF version, type, code, written
<1>6. Says(m, heads, p0, l0, ItemsOfBase)
  <2>1. T("message_id") /\ T("source_client_id") /\ T("source_broker_id") /\ T("payload")
    <3> HIDE DEF T
    <3> QED BY <1>1 DEF Has, TextFields
  <2>2. L("broker_ids") /\ L("client_ids")
    <3> HIDE DEF L
    <3> QED BY <1>2 DEF ListFields
  <2>3. <<<<"int", m.version>>>> \in Seq(Cells) /\ <<<<"int", m.message_type>>>> \in Seq(Cells)
    <3>1. <<"int", m.version>> \in Cells /\ <<"int", m.message_type>> \in Cells
      BY <1>5, DxlCodecAssumption DEF Cells, version, type
    <3> QED BY <3>1
  <2> DEFINE a == <<<<"int", m.version>>>>
             b == <<<<"int", m.message_type>>>>
             i1 == <<"text", "message_id">>
             i2 == <<"text", "source_client_id">>
             i3 == <<"text", "source_broker_id">>
             i4 == <<"texts", "broker_ids">>
             i5 == <<"texts", "client_ids">>
             i6 == <<"bytes", "payload">>
  <2>4. /\ i1 \in ItemsOf(m) /\ i2 \in ItemsOf(m) /\ i3 \in ItemsOf(m)
        /\ i4 \in ItemsOf(m) /\ i5 \in ItemsOf(m) /\ i6 \in ItemsOf(m)
    BY <2>1, <2>2
  <2>5. p0 = <<a, b, ItemBytes(m, i1), ItemBytes(m, i2), ItemBytes(m, i3), ItemBytes(m, i4),
          ItemBytes(m, i5), ItemBytes(m, i6)>>
    BY <2>1, <2>2
  <2>6. l0 = <<i1, i2, i3, i4, i5, i6>> /\ ItemsOfBase = {i1, i2, i3, i4, i5, i6}
    BY DEF ItemsOfBase
  <2> HIDE DEF p0, l0, a, b, i1, i2, i3, i4, i5, i6
  <2>7. a \in Seq(Cells) /\ b \in Seq(Cells)
    BY <2>3 DEF a, b
  <2>8. Says(m, <<a, b>>, <<a, b, ItemBytes(m, i1), ItemBytes(m, i2), ItemBytes(m, i3),
          ItemBytes(m, i4), ItemBytes(m, i5), ItemBytes(m, i6)>>,
             <<i1, i2, i3, i4, i5, i6>>, {i1, i2, i3, i4, i5, i6})
    BY <2>4, <2>7, SaySix
  <2>9. heads = <<a, b>>
    BY DEF a, b
  <2> QED BY <2>5, <2>6, <2>8, <2>9, Zenon
<1>7. Says(m, <<>>, pt, lt, ItemsOfType(type))
  <2>0. Request # Response /\ Request # Error /\ Response # Error
    BY DEF Request, Response, Error
  <2>1. CASE type = Request
    <3>1. T("reply_to_topic") /\ T("service_id")
      <4> HIDE DEF T
      <4> QED BY <1>1, <2>1 DEF Has, TextFields
    <3>2. pt = <<written("reply_to_topic"), written("service_id")>> /\
            lt = <<<<"text", "reply_to_topic">>, <<"text", "service_id">>>>
      BY <2>0, <2>1
    <3>3. ItemsOfType(type) = {<<"text", "reply_to_topic">>, <<"text", "service_id">>}
      BY <2>0, <2>1 DEF ItemsOfType
    <3> HIDE DEF pt, lt
    <3> DEFINE i1 == <<"text", "reply_to_topic">>
               i2 == <<"text", "service_id">>
    <3>5. i1 \in ItemsOf(m) /\ i2 \in ItemsOf(m)
      BY <3>1, <3>2, <3>3
    <3>6. pt = <<ItemBytes(m, i1), ItemBytes(m, i2)>> /\ lt = <<i1, i2>>
      BY <3>1, <3>2, <3>3
    <3>7. ItemsOfType(type) = {i1, i2}
      BY <3>1, <3>2, <3>3
    <3> HIDE DEF i1, i2
    <3>8. Says(m, <<>>, <<ItemBytes(m, i1), ItemBytes(m, i2)>>, <<i1, i2>>, {i1, i2})
      BY <3>5, SayTwo
    <3> QED BY <3>6, <3>7, <3>8, Zenon
  <2>2. CASE type = Response
    <3>1. T("request_message_id") /\ T("service_id")
      <4> HIDE DEF T
      <4> QED BY <1>1, <2>2 DEF Has, TextFields
    <3>2. pt = <<written("request_message_id"), written("service_id")>> /\
            lt = <<<<"text", "request_message_id">>, <<"text", "service_id">>>>
      BY <2>0, <2>2
    <3>3. ItemsOfType(type) = {<<"text", "request_message_id">>, <<"text", "service_id">>}
      BY <2>0, <2>2 DEF ItemsOfType
    <3> HIDE DEF pt, lt
    <3> DEFINE i1 == <<"text", "request_message_id">>
               i2 == <<"text", "service_id">>
    <3>5. i1 \in ItemsOf(m) /\ i2 \in ItemsOf(m)
      BY <3>1, <3>2, <3>3
    <3>6. pt = <<ItemBytes(m, i1), ItemBytes(m, i2)>> /\ lt = <<i1, i2>>
      BY <3>1, <3>2, <3>3
    <3>7. ItemsOfType(type) = {i1, i2}
      BY <3>1, <3>2, <3>3
    <3> HIDE DEF i1, i2
    <3>8. Says(m, <<>>, <<ItemBytes(m, i1), ItemBytes(m, i2)>>, <<i1, i2>>, {i1, i2})
      BY <3>5, SayTwo
    <3> QED BY <3>6, <3>7, <3>8, Zenon
  <2>3. CASE type = Error
    <3>1. T("request_message_id") /\ T("service_id") /\ T("error_message")
      <4> HIDE DEF T
      <4> QED BY <1>1, <2>3 DEF Has, TextFields
    <3>2. /\ pt = <<written("request_message_id"), written("service_id"), code,
               written("error_message")>>
          /\ lt = <<<<"text", "request_message_id">>, <<"text", "service_id">>,
                    <<"code", "error_code">>, <<"text", "error_message">>>>
      BY <2>0, <2>3
    <3>3. ItemsOfType(type) = {<<"text", "request_message_id">>, <<"text", "service_id">>,
                               <<"code", "error_code">>, <<"text", "error_message">>}
      BY <2>0, <2>3 DEF ItemsOfType
    <3> HIDE DEF pt, lt
    <3> DEFINE i1 == <<"text", "request_message_id">>
               i2 == <<"text", "service_id">>
               i3 == <<"code", "error_code">>
               i4 == <<"text", "error_message">>
    <3>5. i1 \in ItemsOf(m) /\ i2 \in ItemsOf(m) /\ i3 \in ItemsOf(m) /\ i4 \in ItemsOf(m)
      BY <1>c, <2>3, <3>1, <3>2, <3>3
    <3>6. pt = <<ItemBytes(m, i1), ItemBytes(m, i2), ItemBytes(m, i3), ItemBytes(m, i4)>> /\
            lt = <<i1, i2, i3, i4>>
      BY <1>c, <2>3, <3>1, <3>2, <3>3
    <3>7. ItemsOfType(type) = {i1, i2, i3, i4}
      BY <1>c, <2>3, <3>1, <3>2, <3>3
    <3> HIDE DEF i1, i2, i3, i4
    <3> QED BY <3>5, <3>6, <3>7, SayFour
  <2>4. CASE type # Request /\ type # Response /\ type # Error
    <3>1. pt = <<>> /\ lt = <<>>
      BY <2>4
    <3>2. ItemsOfType(type) = {}
      BY <2>4 DEF ItemsOfType
    <3> HIDE DEF pt, lt
    <3> QED BY <3>1, <3>2, NothingSaid
  <2> QED BY <2>1, <2>2, <2>3, <2>4
<1>8. Says(m, <<>>, p1, l1, IF version >= 1 THEN {<<"fields", "other_fields">>} ELSE {})
  <2>1. CASE version >= 1
    <3>1. p1 = <<WriteTexts(Flat(m.other_fields))>> /\ l1 = <<<<"fields", "other_fields">>>>
      BY <2>1
    <3> HIDE DEF p1, l1
    <3> QED BY <1>o, <2>1, <3>1, SayTwo
  <2>2. CASE ~(version >= 1)
    <3>1. p1 = <<>> /\ l1 = <<>>
      BY <2>2
    <3> HIDE DEF p1, l1
    <3> QED BY <2>2, <3>1, NothingSaid
  <2> QED BY <2>1, <2>2
<1>9. Says(m, <<>>, p2, l2, IF version >= 2
        THEN {<<"text", "source_tenant_guid">>, <<"texts", "destination_tenant_guids">>} ELSE {})
  <2>1. CASE version >= 2
    <3>1. T("source_tenant_guid")
      <4> HIDE DEF T
      <4> QED BY <1>1, <2>1 DEF Has, TextFields
    <3>2. L("destination_tenant_guids")
      <4> HIDE DEF L
      <4> QED BY <1>2 DEF ListFields
    <3>3. /\ p2 = <<written("source_tenant_guid"), WriteTexts(m["destination_tenant_guids"])>>
          /\ l2 = <<<<"text", "source_tenant_guid">>, <<"texts", "destination_tenant_guids">>>>
      BY <2>1
    <3> HIDE DEF p2, l2
    <3> DEFINE i1 == <<"text", "source_tenant_guid">>
               i2 == <<"texts", "destination_tenant_guids">>
    <3>5. i1 \in ItemsOf(m) /\ i2 \in ItemsOf(m)
      BY <2>1, <3>1, <3>2, <3>3
    <3>6. p2 = <<ItemBytes(m, i1), ItemBytes(m, i2)>> /\ l2 = <<i1, i2>>
      BY <2>1, <3>1, <3>2, <3>3
    <3>7. (IF version >= 2 THEN {<<"text", "source_tenant_guid">>,
            <<"texts", "destination_tenant_guids">>} ELSE {}) = {i1, i2}
      BY <2>1, <3>1, <3>2, <3>3
    <3> HIDE DEF i1, i2
    <3>8. Says(m, <<>>, <<ItemBytes(m, i1), ItemBytes(m, i2)>>, <<i1, i2>>, {i1, i2})
      BY <3>5, SayTwo
    <3> QED BY <3>6, <3>7, <3>8, Zenon
  <2>2. CASE ~(version >= 2)
    <3>1. p2 = <<>> /\ l2 = <<>>
      BY <2>2
    <3> HIDE DEF p2, l2
    <3> QED BY <2>2, <3>1, NothingSaid
  <2> QED BY <2>1, <2>2
<1>10. Says(m, <<>>, p3, l3, IF version >= 3 THEN {<<"text", "source_client_instance_id">>} ELSE {})
  <2>1. CASE version >= 3
    <3>1. T("source_client_instance_id")
      <4> HIDE DEF T
      <4> QED BY <1>1, <2>1 DEF Has, TextFields
    <3>3. p3 = <<written("source_client_instance_id")>> /\
            l3 = <<<<"text", "source_client_instance_id">>>>
      BY <2>1
    <3> HIDE DEF p3, l3
    <3> QED BY <2>1, <3>1, <3>3, SayTwo
  <2>2. CASE ~(version >= 3)
    <3>1. p3 = <<>> /\ l3 = <<>>
      BY <2>2
    <3> HIDE DEF p3, l3
    <3> QED BY <2>2, <3>1, NothingSaid
  <2> QED BY <2>1, <2>2
<1> DEFINE v1 == IF version >= 1 THEN {<<"fields", "other_fields">>} ELSE {}
           v2 == IF version >= 2 THEN {<<"text", "source_tenant_guid">>,
             <<"texts", "destination_tenant_guids">>} ELSE {}
           v3 == IF version >= 3 THEN {<<"text", "source_client_instance_id">>} ELSE {}
<1>11. ItemsOfVersion(version) = v1 \cup v2 \cup v3
  BY Zenon DEF ItemsOfVersion
<1>12. Says(m, <<>>, p1, l1, v1) /\ Says(m, <<>>, p2, l2, v2) /\ Says(m, <<>>, p3, l3, v3)
  BY <1>8, <1>9, <1>10, Zenon
<1> HIDE DEF p0, l0, pt, lt, p1, l1, p2, l2, p3, l3, T, L, heads, v1, v2, v3
<1>13. Says(m, heads, p0 \o pt, l0 \o lt, ItemsOfBase \cup ItemsOfType(type))
  BY <1>6, <1>7, SaysBoth
<1>14. Says(m, heads, p0 \o pt \o p1, l0 \o lt \o l1, ItemsOfBase \cup ItemsOfType(type) \cup v1)
  BY <1>12, <1>13, SaysBoth
<1>15. Says(m, heads, p0 \o pt \o p1 \o p2, l0 \o lt \o l1 \o l2, ItemsOfBase \cup ItemsOfType(type)
         \cup v1 \cup v2)
  BY <1>12, <1>14, SaysBoth
<1>16. Says(m, heads, p0 \o pt \o p1 \o p2 \o p3, l0 \o lt \o l1 \o l2 \o l3,
            ItemsOfBase \cup ItemsOfType(type) \cup v1 \cup v2 \cup v3)
  BY <1>12, <1>15, SaysBoth
<1>17. ItemsOfBase \cup ItemsOfType(type) \cup v1 \cup v2 \cup v3
         = MessageItems(version, type)
  BY <1>11 DEF MessageItems
<1> QED BY <1>3, <1>4, <1>16, <1>17, Zenon DEF version, type, heads

\* A message on the wire: version, type, and what its layout lists.
LEMMA EncodeIs ==
    ASSUME NEW m, IsMessage(m)
    PROVE  /\ Layout(m.version, m.message_type) \in Seq(ItemsOf(m))
           /\ ToSet(Layout(m.version, m.message_type)) = MessageItems(m.version, m.message_type)
           /\ <<<<"int", m.version>>, <<"int", m.message_type>>>> \in Seq(Cells)
           /\ AllBytes(m, Layout(m.version, m.message_type)) \in Seq(Cells)
           /\ Encode(m) = <<<<"int", m.version>>, <<"int", m.message_type>>>>
                            \o AllBytes(m, Layout(m.version, m.message_type))
<1> DEFINE layout == Layout(m.version, m.message_type)
           pieces == Pieces(m)
           S == Seq(Cells)
           a == <<"int", m.version>>
           b == <<"int", m.message_type>>
           heads == <<<<a>>, <<b>>>>
           bytes == [k \in 1 .. Len(layout) |-> ItemBytes(m, layout[k])]
<1>1. Says(m, heads, pieces, layout, MessageItems(m.version, m.message_type))
  BY PiecesOfLayout
<1>2. a \in Cells /\ b \in Cells
  <2>1. m.version \in 0 .. 255 /\ m.message_type \in 0 .. 255
    BY Zenon DEF IsMessage
  <2> QED BY <2>1, DxlCodecAssumption DEF Cells
<1> HIDE DEF layout, pieces, a, b
<1>3. /\ layout \in Seq(ItemsOf(m)) /\ MessageItems(m.version, m.message_type) = ToSet(layout)
      /\ heads \in Seq(S) /\ pieces \in Seq(S) /\ Len(pieces) = 2 + Len(layout)
      /\ \A i \in 1 .. 2 : pieces[i] = heads[i]
      /\ \A k \in 1 .. Len(layout) : pieces[2 + k] = ItemBytes(m, layout[k])
  <2>1. Len(heads) = 2
    OBVIOUS
  <2> HIDE DEF heads
  <2> QED BY <1>1, <2>1 DEF Says
<1>4. PICK n \in Nat : n = Len(layout)
  BY <1>3
<1>5. bytes \in Seq(S) /\ Len(bytes) = n /\ \A k \in 1 .. n : bytes[k] = ItemBytes(m, layout[k])
  <2>1. \A k \in 1 .. n : layout[k] \in ItemsOf(m)
    BY <1>3, <1>4
  <2>2. \A k \in 1 .. n : ItemBytes(m, layout[k]) \in S
    <3> HIDE DEF S
    <3> QED BY <2>1, AllBytesGrow DEF S
  <2> HIDE DEF S
  <2> QED BY <1>4, <2>2
<1>6. Len(heads) = 2
  OBVIOUS
<1> HIDE DEF heads, bytes, S
<1>7. pieces = heads \o bytes
  <2> DEFINE all == heads \o bytes
  <2>1. /\ all \in Seq(S) /\ Len(all) = 2 + n
        /\ \A i \in 1 .. 2 + n : all[i] = IF i <= 2 THEN heads[i] ELSE bytes[i - 2]
    <3>1. \A x, y \in Seq(S) : /\ x \o y \in Seq(S) /\ Len(x \o y) = Len(x) + Len(y)
                               /\ \A i \in 1 .. Len(x) + Len(y) :
                                    (x \o y)[i] = IF i <= Len(x) THEN x[i] ELSE y[i - Len(x)]
      BY ConcatProperties
    <3>2. /\ all \in Seq(S) /\ Len(all) = Len(heads) + Len(bytes)
          /\ \A i \in 1 .. Len(heads) + Len(bytes) :
               all[i] = IF i <= Len(heads) THEN heads[i] ELSE bytes[i - Len(heads)]
      BY <1>3, <1>5, <3>1, Zenon
    <3> HIDE DEF all
    <3> QED BY <1>5, <1>6, <3>2
  <2> HIDE DEF all
  <2>2. ASSUME NEW i \in 1 .. 2 + n PROVE pieces[i] = all[i]
    <3>1. CASE i <= 2
      <4>1. i \in 1 .. 2
        BY <1>4, <3>1
      <4> QED BY <1>3, <2>1, <3>1, <4>1
    <3>2. CASE ~(i <= 2)
      <4>1. i - 2 \in 1 .. n /\ 2 + (i - 2) = i
        BY <1>4, <3>2
      <4>2. pieces[2 + (i - 2)] = bytes[i - 2]
        BY <1>3, <1>4, <1>5, <4>1
      <4> QED BY <2>1, <3>2, <4>1, <4>2
    <3> QED BY <3>1, <3>2
  <2>3. DOMAIN pieces = 1 .. 2 + n /\ DOMAIN all = 1 .. 2 + n
    BY <1>3, <1>4, <2>1
  <2>4. pieces = [i \in 1 .. 2 + n |-> pieces[i]] /\ all = [i \in 1 .. 2 + n |-> all[i]]
    BY <1>3, <2>1, <2>3
  <2>5. pieces = all
    BY <2>2, <2>4
  <2> QED BY <2>5 DEF all
<1>8. FlattenSeq(heads) = <<a, b>>
  <2>1. <<a>> \in S /\ <<b>> \in S
    BY <1>2 DEF S
  <2>2. heads = <<<<a>>>> \o <<<<b>>>> /\ <<<<a>>>> \in Seq(S) /\ <<<<b>>>> \in Seq(S)
    <3>1. heads = <<<<a>>>> \o <<<<b>>>>
      <4>1. \A x, y \in S : <<x, y>> = <<x>> \o <<y>>
        BY PairIsConcat
      <4> QED BY <2>1, <4>1, Zenon DEF heads
    <3>2. <<<<a>>>> \in Seq(S) /\ <<<<b>>>> \in Seq(S)
      BY <2>1
    <3> QED BY <3>1, <3>2
  <2>3. FlattenSeq(<<<<a>>>>) = <<a>> /\ FlattenSeq(<<<<b>>>>) = <<b>>
    BY <2>1, FlattenOne DEF S
  <2>4. FlattenSeq(<<<<a>>>> \o <<<<b>>>>) = FlattenSeq(<<<<a>>>>) \o FlattenSeq(<<<<b>>>>)
    BY <2>2, FlattenConcat DEF S
  <2>5. <<a>> \o <<b>> = <<a, b>>
    <3>1. \A x, y \in Cells : <<x, y>> = <<x>> \o <<y>>
      BY PairIsConcat
    <3> QED BY <1>2, <3>1, Zenon
  <2> QED BY <2>2, <2>3, <2>4, <2>5, Zenon
<1>9. FlattenSeq(bytes) = AllBytes(m, layout)
  <2>1. DOMAIN layout = 1 .. Len(layout)
    BY <1>3
  <2> QED BY <2>1 DEF bytes, AllBytes
<1>10. FlattenSeq(heads \o bytes) = FlattenSeq(heads) \o FlattenSeq(bytes)
  BY <1>3, <1>5, FlattenConcat DEF S
<1>11. Encode(m) = FlattenSeq(pieces)
  BY DEF Encode, pieces
<1>12. Encode(m) = <<a, b>> \o AllBytes(m, layout)
  BY <1>7, <1>8, <1>9, <1>10, <1>11, Zenon
<1>13. <<a, b>> \in Seq(Cells) /\ AllBytes(m, layout) \in Seq(Cells)
  BY <1>2, <1>3, AllBytesGrow
<1> QED BY <1>3, <1>12, <1>13 DEF layout, a, b

-----------------------------------------------------------------------------
(* What the layout has *)

\* Which fields the layout of a version and a type has.
LEMMA ItemsHave ==
    ASSUME NEW version \in Nat, NEW type \in Nat
    PROVE  /\ \A field \in TextFields \ {"payload"} :
                Has(version, type, field) <=> <<"text", field>> \in MessageItems(version, type)
           /\ \A item \in MessageItems(version, type) :
                \/ \E field \in TextFields \ {"payload"} :
                     item = <<"text", field>> /\ Has(version, type, field)
                \/ item \in {<<"bytes", "payload">>, <<"texts", "broker_ids">>,
                     <<"texts", "client_ids">>}
                \/ type = Error /\ item = <<"code", "error_code">>
                \/ version >= 1 /\ item = <<"fields", "other_fields">>
                \/ version >= 2 /\ item = <<"texts", "destination_tenant_guids">>
           /\ {<<"bytes", "payload">>, <<"texts", "broker_ids">>, <<"texts", "client_ids">>}
                \subseteq MessageItems(version, type)
           /\ type = Error => <<"code", "error_code">> \in MessageItems(version, type)
           /\ version >= 1 => <<"fields", "other_fields">> \in MessageItems(version, type)
           /\ version >= 2 => <<"texts", "destination_tenant_guids">> \in MessageItems(version, type)
<1> DEFINE items == MessageItems(version, type)
<1>0. Request = 0 /\ Response = 1 /\ Error = 3
  BY DEF Request, Response, Error
<1>1. \A field : field \in TextFields \ {"payload"} /\ Has(version, type, field)
        => <<"text", field>> \in items
  BY <1>0 DEF TextFields, Has, MessageItems, ItemsOfBase, ItemsOfType, ItemsOfVersion
<1>2. \A field : field \in TextFields \ {"payload"} /\ <<"text", field>> \in items
        => Has(version, type, field)
  BY <1>0 DEF TextFields, Has, MessageItems, ItemsOfBase, ItemsOfType, ItemsOfVersion
<1>3. ASSUME NEW item \in items
      PROVE  \/ \E field \in TextFields \ {"payload"} :
                  item = <<"text", field>> /\ Has(version, type, field)
             \/ item \in {<<"bytes", "payload">>, <<"texts", "broker_ids">>, <<"texts", "client_ids">>}
             \/ type = Error /\ item = <<"code", "error_code">>
             \/ version >= 1 /\ item = <<"fields", "other_fields">>
             \/ version >= 2 /\ item = <<"texts", "destination_tenant_guids">>
  <2>1. CASE item \in ItemsOfBase
    BY <2>1 DEF ItemsOfBase, TextFields, Has
  <2>2. CASE item \in ItemsOfType(type)
    BY <1>0, <2>2 DEF ItemsOfType, TextFields, Has
  <2>3. CASE item \in ItemsOfVersion(version)
    BY <2>3 DEF ItemsOfVersion, TextFields, Has
  <2> QED BY <2>1, <2>2, <2>3 DEF MessageItems
<1>4. /\ {<<"bytes", "payload">>, <<"texts", "broker_ids">>, <<"texts", "client_ids">>} \subseteq items
      /\ type = Error => <<"code", "error_code">> \in items
      /\ version >= 1 => <<"fields", "other_fields">> \in items
      /\ version >= 2 => <<"texts", "destination_tenant_guids">> \in items
  BY <1>0 DEF MessageItems, ItemsOfBase, ItemsOfType, ItemsOfVersion
<1> HIDE DEF items
<1>5. \A field \in TextFields \ {"payload"} : Has(version, type, field) <=> <<"text", field>> \in items
  BY <1>1, <1>2
<1> QED BY <1>3, <1>4, <1>5, Zenon DEF items

\* The texts of the fields of the layout that are to be UTF-8 are the texts of the message.
LEMMA LayoutReads ==
    ASSUME NEW m, IsMessage(m)
    PROVE  (\A item \in MessageItems(m.version, m.message_type) : Reads(item[1], m[item[2]]))
             <=> \A text \in TextsOf(m) : IsUtf8(text)
<1> DEFINE version == m.version
           type == m.message_type
           items == MessageItems(version, type)
           T == TextFields \ {"payload"}
           flat == Flat(m.other_fields)
<1>1. version \in Nat /\ type \in Nat
  <2>1. version \in 0 .. 255 /\ type \in 0 .. 255
    BY Zenon DEF IsMessage
  <2> QED BY <2>1
<1>2. /\ \A field \in T : Has(version, type, field) <=> <<"text", field>> \in items
      /\ \A item \in items :
           \/ \E field \in T : item = <<"text", field>> /\ Has(version, type, field)
           \/ item \in {<<"bytes", "payload">>, <<"texts", "broker_ids">>, <<"texts", "client_ids">>}
           \/ type = Error /\ item = <<"code", "error_code">>
           \/ version >= 1 /\ item = <<"fields", "other_fields">>
           \/ version >= 2 /\ item = <<"texts", "destination_tenant_guids">>
      /\ {<<"bytes", "payload">>, <<"texts", "broker_ids">>, <<"texts", "client_ids">>} \subseteq items
      /\ type = Error => <<"code", "error_code">> \in items
      /\ version >= 1 => <<"fields", "other_fields">> \in items
      /\ version >= 2 => <<"texts", "destination_tenant_guids">> \in items
  BY <1>1, ItemsHave
<1>3. \A field \in TextFields : IF Has(version, type, field) THEN m[field] \in Text ELSE m[field] = None
  BY Zenon DEF IsMessage
<1>4. \A field \in ListFields : m[field] \in Seq(Text)
  BY Zenon DEF IsMessage
<1>5. version < 2 => m["destination_tenant_guids"] = <<>>
  BY Zenon DEF IsMessage
<1>6. version < 1 => DOMAIN m["other_fields"] = {}
  BY Zenon DEF IsMessage
<1>7. (\A i \in 1 .. Len(flat) : IsUtf8(flat[i]))
         <=> \A text \in DOMAIN m["other_fields"] \cup Range(m["other_fields"]) : IsUtf8(text)
  <2>1. IsFields(m["other_fields"])
    BY OtherPieces
  <2> QED BY <2>1, FieldsOfFlat
<1>8. ListFields = {"broker_ids", "client_ids", "destination_tenant_guids"}
  BY DEF ListFields
<1>9. \A value :
        /\ Reads("text", value) <=> IsUtf8(value)
        /\ Reads("bytes", value) /\ Reads("code", value)
        /\ Reads("texts", value) <=> \A i \in 1 .. Len(value) : IsUtf8(value[i])
        /\ Reads("fields", value) <=> \A i \in 1 .. Len(Flat(value)) : IsUtf8(Flat(value)[i])
  BY DEF Reads
<1>10. \A text : text \in TextsOf(m) <=>
         \/ \E field \in T : text = m[field] /\ text # None
         \/ \E field \in ListFields : text \in ToSet(m[field])
         \/ text \in DOMAIN m["other_fields"] \cup Range(m["other_fields"])
  <2> DEFINE A == {m[field] : field \in T}
             B == UNION {ToSet(m[field]) : field \in ListFields}
             C == DOMAIN m["other_fields"]
             D == Range(m["other_fields"])
  <2>1. TextsOf(m) = (A \ {None}) \cup B \cup C \cup D
    BY DEF TextsOf
  <2>2. \A text : text \in A <=> \E field \in T : text = m[field]
    OBVIOUS
  <2>3. \A text : text \in B <=> \E field \in ListFields : text \in ToSet(m[field])
    OBVIOUS
  <2> HIDE DEF A, B, C, D
  <2>4. \A text : text \in TextsOf(m) <=> (text \in A /\ text # None) \/ text \in B \/ text \in C \cup D
    BY <2>1
  <2> QED BY <2>2, <2>3, <2>4, Zenon DEF C, D
<1>11. \A field \in ListFields : \A text :
         text \in ToSet(m[field]) <=> \E i \in 1 .. Len(m[field]) : text = m[field][i]
  <2>1. \A field \in ListFields : DOMAIN m[field] = 1 .. Len(m[field])
    BY <1>4
  <2> QED BY <2>1 DEF ToSet
<1> HIDE DEF version, type, items, T, flat
<1>12. ASSUME \A item \in items : Reads(item[1], m[item[2]]), NEW text \in TextsOf(m) PROVE IsUtf8(text)
  <2>1. CASE \E field \in T : text = m[field] /\ text # None
    <3>1. PICK field \in T : text = m[field] /\ text # None
      BY <2>1
    <3>2. Has(version, type, field)
      BY <1>3, <3>1 DEF T
    <3>3. <<"text", field>> \in items
      BY <1>2, <3>2
    <3>4. Reads("text", m[field])
      BY <1>12, <3>3
    <3> QED BY <1>9, <3>1, <3>4
  <2>2. CASE \E field \in ListFields : text \in ToSet(m[field])
    <3>1. PICK field \in ListFields : text \in ToSet(m[field])
      BY <2>2
    <3>2. PICK i \in 1 .. Len(m[field]) : text = m[field][i]
      BY <1>11, <3>1
    <3>3. <<"texts", field>> \in items
      <4>1. CASE field = "destination_tenant_guids"
        <5>1. m[field] # <<>>
          BY <1>4, <3>1, <3>2
        <5>2. version >= 2
          BY <1>1, <1>5, <4>1, <5>1
        <5> QED BY <1>2, <4>1, <5>2
      <4>2. CASE field # "destination_tenant_guids"
        BY <1>2, <1>8, <4>2
      <4> QED BY <4>1, <4>2
    <3>4. Reads("texts", m[field])
      BY <1>12, <3>3
    <3> QED BY <1>9, <3>2, <3>4
  <2>3. CASE text \in DOMAIN m["other_fields"] \cup Range(m["other_fields"])
    <3>1. DOMAIN m["other_fields"] # {}
      BY <2>3 DEF Range
    <3>2. version >= 1
      BY <1>1, <1>6, <3>1
    <3>3. Reads("fields", m["other_fields"])
      BY <1>2, <1>12, <3>2
    <3>4. \A i \in 1 .. Len(flat) : IsUtf8(flat[i])
      BY <1>9, <3>3 DEF flat
    <3> QED BY <1>7, <2>3, <3>4
  <2> QED BY <1>10, <2>1, <2>2, <2>3
<1>13. ASSUME \A text \in TextsOf(m) : IsUtf8(text), NEW item \in items PROVE Reads(item[1], m[item[2]])
  <2>l. ASSUME NEW field \in ListFields PROVE Reads("texts", m[field])
    <3>1. \A i \in 1 .. Len(m[field]) : m[field][i] \in TextsOf(m)
      BY <1>10, <1>11
    <3> QED BY <1>9, <1>13, <3>1
  <2>1. CASE \E field \in T : item = <<"text", field>> /\ Has(version, type, field)
    <3>1. PICK field \in T : item = <<"text", field>> /\ Has(version, type, field)
      BY <2>1
    <3>2. m[field] \in Text
      BY <1>3, <3>1 DEF T
    <3>3. m[field] # None
      BY <3>2, TextsAssumption
    <3>4. m[field] \in TextsOf(m)
      BY <1>10, <3>3
    <3>5. Reads("text", m[field])
      BY <1>9, <1>13, <3>4
    <3>6. item[1] = "text" /\ item[2] = field
      BY <3>1
    <3> QED BY <3>5, <3>6
  <2>2. CASE item = <<"bytes", "payload">> \/ item = <<"code", "error_code">>
    <3>1. item[1] = "bytes" \/ item[1] = "code"
      BY <2>2
    <3> QED BY <1>9, <3>1
  <2>3. CASE item = <<"texts", "broker_ids">> \/ item = <<"texts", "client_ids">> \/ item
               = <<"texts", "destination_tenant_guids">>
    <3>1. item[1] = "texts" /\ item[2] \in ListFields
      BY <1>8, <2>3
    <3> QED BY <2>l, <3>1
  <2>4. CASE item = <<"fields", "other_fields">>
    <3>1. item[1] = "fields" /\ item[2] = "other_fields"
      BY <2>4
    <3>2. \A text \in DOMAIN m["other_fields"] \cup Range(m["other_fields"]) : IsUtf8(text)
      BY <1>10, <1>13
    <3>3. \A i \in 1 .. Len(flat) : IsUtf8(flat[i])
      BY <1>7, <3>2
    <3>4. Reads("fields", m["other_fields"])
      BY <1>9, <3>3 DEF flat
    <3> QED BY <3>1, <3>4
  <2> QED BY <1>2, <2>1, <2>2, <2>3, <2>4
<1> QED BY <1>12, <1>13 DEF items, version, type

\* The layout has every field that is not blank.
LEMMA LayoutFills ==
    ASSUME NEW m, IsMessage(m)
    PROVE  LET blank == Blank(m.version, m.message_type)
           IN  /\ blank = [field \in Fields |-> blank[field]]
               /\ Filled(m, blank, Layout(m.version, m.message_type)) = m
<1> DEFINE version == m.version
           type == m.message_type
           items == MessageItems(version, type)
           layout == Layout(version, type)
           blank == Blank(version, type)
           T == TextFields \ {"payload"}
<1>1. version \in Nat /\ type \in Nat
  <2>1. version \in 0 .. 255 /\ type \in 0 .. 255
    BY Zenon DEF IsMessage
  <2> QED BY <2>1
<1>2. /\ \A field \in T : Has(version, type, field) <=> <<"text", field>> \in items
      /\ {<<"bytes", "payload">>, <<"texts", "broker_ids">>, <<"texts", "client_ids">>} \subseteq items
      /\ type = Error => <<"code", "error_code">> \in items
      /\ version >= 1 => <<"fields", "other_fields">> \in items
      /\ version >= 2 => <<"texts", "destination_tenant_guids">> \in items
  BY <1>1, ItemsHave
<1>3. \A field \in TextFields : IF Has(version, type, field) THEN m[field] \in Text ELSE m[field] = None
  BY Zenon DEF IsMessage
<1>4. /\ version < 2 => m["destination_tenant_guids"] = <<>>
      /\ version < 1 => DOMAIN m["other_fields"] = {}
      /\ type # Error => m["error_code"] = None
  BY Zenon DEF IsMessage
<1>5. m["other_fields"] \in [DOMAIN m["other_fields"] -> Text]
  BY Zenon DEF IsMessage
<1>6. m = [field \in Fields |-> m[field]]
  BY Zenon DEF IsMessage
<1>7. layout \in Seq(ItemsOf(m)) /\ ToSet(layout) = items
  BY EncodeIs
<1>8. /\ blank = [field \in Fields |-> blank[field]]
      /\ blank["version"] = version /\ blank["message_type"] = type
      /\ blank["other_fields"] = [key \in {} |-> <<>>]
      /\ blank["error_code"] = None
      /\ blank["destination_tenant_guids"] = <<>>
      /\ \A field \in TextFields : blank[field] = None
  BY DEF Blank, Fields, TextFields, ListFields
<1>9. m["version"] = version /\ m["message_type"] = type
  OBVIOUS
<1> HIDE DEF version, type, items, layout, blank
<1>10. \A kind, field : <<kind, field>> \in items => \E k \in 1 .. Len(layout) : layout[k][2] = field
  <2> SUFFICES ASSUME NEW kind, NEW field, <<kind, field>> \in ToSet(layout)
               PROVE  \E k \in 1 .. Len(layout) : layout[k][2] = field
    BY <1>7
  <2>1. DOMAIN layout = 1 .. Len(layout)
    BY <1>7
  <2>2. PICK k \in DOMAIN layout : layout[k] = <<kind, field>>
    BY DEF ToSet
  <2> QED BY <2>1, <2>2
<1>11. ASSUME NEW field \in Fields, ~\E k \in 1 .. Len(layout) : layout[k][2] = field
       PROVE  m[field] = blank[field]
  <2>1. \A kind : <<kind, field>> \notin items
    BY <1>10, <1>11
  <2>2. CASE field \in T
    <3>1. ~Has(version, type, field)
      BY <1>2, <2>1, <2>2
    <3>2. m[field] = None /\ field \in TextFields
      BY <1>3, <2>2, <3>1
    <3> QED BY <1>8, <3>2
  <2>3. CASE field = "payload" \/ field = "broker_ids" \/ field = "client_ids"
    BY <1>2, <2>1, <2>3
  <2>4. CASE field = "destination_tenant_guids"
    BY <1>1, <1>2, <1>4, <1>8, <2>1, <2>4
  <2>5. CASE field = "other_fields"
    <3>1. ~(version >= 1)
      BY <1>2, <2>1, <2>5
    <3>2. DOMAIN m["other_fields"] = {}
      BY <1>1, <1>4, <3>1
    <3>3. m["other_fields"] = [key \in {} |-> <<>>]
      BY <1>5, <3>2
    <3> QED BY <1>8, <2>5, <3>3
  <2>6. CASE field = "version" \/ field = "message_type"
    BY <1>8, <1>9, <2>6
  <2>7. CASE field = "error_code"
    BY <1>2, <1>4, <1>8, <2>1, <2>7
  <2>8. field \in T \/ field \in {"payload", "broker_ids", "client_ids", "destination_tenant_guids",
                                  "other_fields", "version", "message_type", "error_code"}
    BY DEF Fields, ListFields
  <2> HIDE DEF T
  <2> QED BY <2>2, <2>3, <2>4, <2>5, <2>6, <2>7, <2>8
<1>12. Filled(m, blank, layout) = m
  <2> DEFINE full == Filled(m, blank, layout)
  <2>1. full = [field \in Fields |-> full[field]] /\ \A field \in Fields :
          full[field] = IF \E k \in 1 .. Len(layout) : layout[k][2] = field
            THEN m[field] ELSE blank[field]
    BY DEF Filled
  <2> HIDE DEF full
  <2>2. \A field \in Fields : full[field] = m[field]
    BY <1>11, <2>1
  <2>3. full = m
    BY <1>6, <2>1, <2>2
  <2> QED BY <2>3 DEF full
<1> QED BY <1>8, <1>12 DEF blank, layout, version, type

\* A number of the head is taken, if it is there.
LEMMA TakesHead ==
    ASSUME NEW wire, Len(wire) \in Nat, NEW at \in Nat \ {0}, NEW n \in 0 .. 255,
           at <= Len(wire) => Spells(wire[at], <<"int", n>>)
    PROVE  TakeIntOf(wire, at, 0 .. 255) = IF at <= Len(wire) THEN Took(n, at + 1) ELSE Failed
<1>1. CASE at <= Len(wire)
  <2>1. "int" \notin TextKinds
    BY DEF TextKinds
  <2>2. wire[at] = <<"int", n>>
    BY <1>1, <2>1, SpelledOnce
  <2> QED BY <1>1, <2>2 DEF TakeIntOf
<1>2. CASE ~(at <= Len(wire))
  BY <1>2 DEF TakeIntOf
<1> QED BY <1>1, <1>2

Known(type) == type \in {Request, Response, Event, Error}

\* A frame that spells a message is parsed as that message, if it has all of it and the
\* message is one that the sensor reads; else it is refused.
LEMMA ParseIs ==
    ASSUME NEW m, IsMessage(m), NEW wire, Len(wire) \in Nat, Lays(wire, 1, Encode(m))
    PROVE  Parse(wire) = IF /\ Len(Encode(m)) <= Len(wire)
                            /\ Known(m.message_type) /\ \A text \in TextsOf(m) : IsUtf8(text)
                         THEN m ELSE None
<1> DEFINE v == m.version
           t == m.message_type
           heads == <<<<"int", v>>, <<"int", t>>>>
           layout == Layout(v, t)
           blank == Blank(v, t)
           body == AllBytes(m, layout)
           utf8 == \A text \in TextsOf(m) : IsUtf8(text)
           version == TakeIntOf(wire, 1, 0 .. 255)
           type == TakeIntOf(wire, 2, 0 .. 255)
           parsed == ParseFields(wire, 3, Layout(version.value, type.value),
             Blank(version.value, type.value))
<1>1. v \in 0 .. 255 /\ t \in 0 .. 255
  BY Zenon DEF IsMessage
<1>2. /\ layout \in Seq(ItemsOf(m)) /\ ToSet(layout) = MessageItems(v, t)
      /\ heads \in Seq(Cells) /\ body \in Seq(Cells) /\ Encode(m) = heads \o body
  BY EncodeIs
<1>3. blank = [field \in Fields |-> blank[field]] /\ Filled(m, blank, layout) = m
  BY LayoutFills
<1>4. (\A item \in MessageItems(v, t) : Reads(item[1], m[item[2]])) <=> utf8
  BY LayoutReads
<1>5. Len(heads) = 2 /\ heads[1] = <<"int", v>> /\ heads[2] = <<"int", t>>
  OBVIOUS
<1>6. Parse(wire) = IF ~version.ok \/ ~type.ok THEN None
                    ELSE IF ~Known(type.value) THEN None
                    ELSE IF parsed.ok THEN parsed.value ELSE None
  BY Zenon DEF Parse, Known
<1> HIDE DEF v, t, heads, layout, blank, body, version, type, utf8
<1>7. /\ Lays(wire, 1, heads) /\ Lays(wire, 3, body)
      /\ Len(Encode(m)) = 2 + Len(body) /\ Len(body) \in Nat
  <2>1. \A at \in Int : Lays(wire, at, heads \o body) =>
          /\ Lays(wire, at, heads) /\ Lays(wire, at + Len(heads), body)
          /\ at + Len(heads \o body) = at + Len(heads) + Len(body)
          /\ Len(heads) \in Nat /\ Len(body) \in Nat
    BY <1>2, LaysBoth
  <2>2. 1 \in Int /\ Lays(wire, 1, heads \o body)
    BY <1>2
  <2>3. /\ Lays(wire, 1, heads) /\ Lays(wire, 1 + Len(heads), body)
        /\ 1 + Len(heads \o body) = 1 + Len(heads) + Len(body)
        /\ Len(heads) \in Nat /\ Len(body) \in Nat
    BY <2>1, <2>2, Zenon
  <2>4. Len(heads \o body) \in Nat
    BY <1>2, ConcatProperties
  <2>5. Len(heads \o body) = 2 + Len(body)
    BY <1>5, <2>3, <2>4
  <2>6. 1 + Len(heads) = 3
    BY <1>5
  <2> QED BY <1>2, <2>3, <2>5, <2>6
<1>8. /\ 1 <= Len(wire) => Spells(wire[1], <<"int", v>>)
      /\ 2 <= Len(wire) => Spells(wire[2], <<"int", t>>)
  <2>1. \A i \in 1 .. 2 : 1 + i - 1 <= Len(wire) => Spells(wire[1 + i - 1], heads[i])
    BY <1>5, <1>7 DEF Lays
  <2>2. 1 \in 1 .. 2 /\ 2 \in 1 .. 2 /\ 1 + 1 - 1 = 1 /\ 1 + 2 - 1 = 2
    OBVIOUS
  <2> QED BY <1>5, <2>1, <2>2
<1>9. /\ version = IF 1 <= Len(wire) THEN Took(v, 1 + 1) ELSE Failed
      /\ type = IF 2 <= Len(wire) THEN Took(t, 2 + 1) ELSE Failed
  <2>1. \A at \in Nat \ {0} : \A n \in 0 .. 255 :
          (at <= Len(wire) => Spells(wire[at], <<"int", n>>))
            => TakeIntOf(wire, at, 0 .. 255) = IF at <= Len(wire) THEN Took(n, at + 1) ELSE Failed
    BY TakesHead
  <2>2. 1 \in Nat \ {0} /\ 2 \in Nat \ {0}
    OBVIOUS
  <2> QED BY <1>1, <1>8, <2>1, <2>2, Zenon DEF version, type
<1>10. CASE ~(2 <= Len(wire))
  <2>1. ~type.ok
    BY <1>9, <1>10, OkOf
  <2>2. Parse(wire) = None
    BY <1>6, <2>1
  <2>3. ~(Len(Encode(m)) <= Len(wire))
    BY <1>7, <1>10
  <2> QED BY <2>2, <2>3
<1>11. CASE 2 <= Len(wire)
  <2>1. version.ok /\ type.ok /\ version.value = v /\ type.value = t
    BY <1>9, <1>11, OkOf
  <2>2. parsed = ParseFields(wire, 3, layout, blank)
    BY <2>1, Zenon DEF layout, blank
  <2>3. ParseFields(wire, 3, layout, blank) = Parsed(m, wire, 3, blank, layout)
    <3>1. 3 \in Nat \ {0} /\ 3 - 1 <= Len(wire)
      BY <1>11
    <3>2. Lays(wire, 3, AllBytes(m, layout))
      BY <1>7 DEF body
    <3>3. \A at \in Nat \ {0} : at - 1 <= Len(wire) /\ Lays(wire, at, AllBytes(m, layout))
            => ParseFields(wire, at, layout, blank) = Parsed(m, wire, at, blank, layout)
      BY <1>2, <1>3, ParsesFields
    <3> QED BY <3>1, <3>2, <3>3
  <2>4. Fits(wire, 3, body) <=> Len(Encode(m)) <= Len(wire)
    BY <1>7 DEF Fits
  <2>5. (\A k \in 1 .. Len(layout) : Reads(layout[k][1], m[layout[k][2]])) <=> utf8
    <3>1. DOMAIN layout = 1 .. Len(layout)
      BY <1>2
    <3>2. (\A k \in 1 .. Len(layout) : Reads(layout[k][1], m[layout[k][2]]))
            <=> \A item \in ToSet(layout) : Reads(item[1], m[item[2]])
      BY <3>1 DEF ToSet
    <3> QED BY <1>2, <1>4, <3>2
  <2>6. Parsed(m, wire, 3, blank, layout)
          = IF Len(Encode(m)) <= Len(wire) /\ utf8 THEN Took(m, 3 + Len(body)) ELSE Failed
    BY <1>3, <2>4, <2>5, Zenon DEF Parsed, body
  <2> HIDE DEF parsed
  <2>7. parsed = IF Len(Encode(m)) <= Len(wire) /\ utf8 THEN Took(m, 3 + Len(body)) ELSE Failed
    BY <2>2, <2>3, <2>6
  <2>8. Parse(wire) = IF ~Known(t) THEN None ELSE IF parsed.ok THEN parsed.value ELSE None
    BY <1>6, <2>1 DEF parsed
  <2> QED BY <2>7, <2>8, OkOf DEF t, utf8
<1> QED BY <1>10, <1>11

-----------------------------------------------------------------------------
(* What peers and the wire do to a frame *)

\* What is written spells itself.
LEMMA LaysItself == ASSUME NEW enc \in Seq(Cells) PROVE Lays(enc, 1, enc)
<1>1. Len(enc) \in Nat
  OBVIOUS
<1>2. \A i \in 1 .. Len(enc) : 1 + i - 1 = i
  BY <1>1
<1> QED BY <1>2 DEF Lays, Spells

\* One cell in place of another that spells the same.
LEMMA LaysChanged ==
    ASSUME NEW wire \in Seq(Cells), NEW enc \in Seq(Cells), Lays(wire, 1, enc), NEW i \in DOMAIN wire,
           NEW cell \in Cells,
           \A meant \in Cells : Spells(wire[i], meant) => Spells(cell, meant)
    PROVE  LET changed == [wire EXCEPT ![i] = cell]
           IN  changed \in Seq(Cells) /\ Len(changed) = Len(wire) /\ Lays(changed, 1, enc)
<1> DEFINE changed == [wire EXCEPT ![i] = cell]
<1>1. PICK n \in Nat : n = Len(wire)
  OBVIOUS
<1>2. PICK m \in Nat : m = Len(enc)
  OBVIOUS
<1>3. /\ changed \in Seq(Cells) /\ Len(changed) = n
      /\ \A k \in 1 .. n : changed[k] = IF k = i THEN cell ELSE wire[k]
  BY <1>1
<1>4. \A k \in 1 .. m : 1 + k - 1 = k
  BY <1>2
<1>5. \A k \in 1 .. m : k <= n => Spells(wire[k], enc[k])
  BY <1>1, <1>2, <1>4 DEF Lays
<1>6. \A k \in 1 .. m : enc[k] \in Cells
  BY <1>2
<1> HIDE DEF changed
<1>7. ASSUME NEW k \in 1 .. m, k <= n PROVE Spells(changed[k], enc[k])
  <2>1. k \in 1 .. n
    BY <1>1, <1>2, <1>7
  <2>2. Spells(wire[k], enc[k]) /\ enc[k] \in Cells
    BY <1>5, <1>6, <1>7
  <2>3. CASE k = i
    BY <1>3, <2>1, <2>2, <2>3
  <2>4. CASE k # i
    BY <1>3, <2>1, <2>2, <2>4
  <2> QED BY <2>3, <2>4
<1>8. Lays(changed, 1, enc)
  BY <1>2, <1>3, <1>4, <1>7 DEF Lays
<1> QED BY <1>1, <1>3, <1>8 DEF changed

\* Another header for a text, an unsigned number for a negative one: the same message.
LEMMA SpelledAgain ==
    ASSUME NEW there \in Cells, NEW meant \in Cells, Spells(there, meant)
    PROVE  /\ there[1] \in TextKinds => \A kind \in TextKinds :
                <<kind, there[2]>> \in Cells /\ Spells(<<kind, there[2]>>, meant)
           /\ there[1] = "int" /\ there[2] < 0 =>
                <<"int", there[2] + 2 * Half>> \in Cells /\
                  Spells(<<"int", there[2] + 2 * Half>>, meant)
<1>0. Half \in Nat \ {0} /\ "int" \notin TextKinds /\ "byte" \notin TextKinds
  BY DxlCodecAssumption DEF TextKinds
<1>1. ASSUME there[1] \in TextKinds, NEW kind \in TextKinds
      PROVE  <<kind, there[2]>> \in Cells /\ Spells(<<kind, there[2]>>, meant)
  <2>1. there[2] \in Nat
    BY <1>0, <1>1 DEF Cells
  <2>2. <<kind, there[2]>> \in Cells
    BY <2>1 DEF Cells
  <2>3. meant[1] \in TextKinds /\ there[2] = meant[2]
    BY <1>0, <1>1 DEF Spells
  <2> QED BY <2>2, <2>3 DEF Spells
<1>2. ASSUME there[1] = "int", there[2] < 0
      PROVE  <<"int", there[2] + 2 * Half>> \in Cells /\ Spells(<<"int", there[2] + 2 * Half>>, meant)
  <2>1. there[2] \in Int /\ there[2] >= -Half
    BY <1>0, <1>2 DEF Cells, TextKinds
  <2>2. <<"int", there[2] + 2 * Half>> \in Cells
    BY <1>0, <2>1 DEF Cells
  <2>3. there = meant
    <3>1. ASSUME meant[1] = "int", there = <<"int", meant[2] + 2 * Half>> PROVE FALSE
      <4>1. meant[2] \in Int /\ meant[2] >= -Half
        BY <1>0, <3>1 DEF Cells, TextKinds
      <4> QED BY <1>0, <1>2, <3>1, <4>1
    <3> QED BY <1>0, <1>2, <3>1 DEF Spells
  <2> QED BY <1>2, <2>2, <2>3 DEF Spells
<1> QED BY <1>1, <1>2

\* What is on the wire of what is meant: all of it, or not its end.
OnWire(wire, lost, enc) ==
    /\ wire \in Seq(Cells)
    /\ Lays(wire, 1, enc)
    /\ lost <=> ~(Len(enc) <= Len(wire))

\* A frame that a peer spelled otherwise still spells the message (PeerSpells).
LEMMA PeersSpell ==
    ASSUME NEW enc \in Seq(Cells), OnWire(frame, FALSE, enc), PeerSpells
             PROVE OnWire(frame', FALSE, enc)
<1>1. frame \in Seq(Cells) /\ Lays(frame, 1, enc) /\ Len(enc) <= Len(frame)
  BY DEF OnWire
<1>2. ASSUME NEW i \in DOMAIN frame, NEW kind \in TextKinds, PackText(i, kind)
               PROVE OnWire(frame', FALSE, enc)
  <2>1. frame[i] \in Cells /\ frame[i][1] \in TextKinds
    BY <1>1, <1>2 DEF PackText
  <2> DEFINE cell == <<kind, frame[i][2]>>
  <2>2. frame' = [frame EXCEPT ![i] = cell]
    BY <1>2 DEF PackText
  <2>3. \A meant \in Cells : Spells(frame[i], meant) => Spells(cell, meant)
    BY <2>1, SpelledAgain
  <2>4. cell \in Cells
    BY <2>1, <1>1 DEF Cells, TextKinds
  <2> HIDE DEF cell
  <2>5. frame' \in Seq(Cells) /\ Len(frame') = Len(frame) /\ Lays(frame', 1, enc)
    BY <1>1, <2>2, <2>3, <2>4, LaysChanged
  <2> QED BY <1>1, <2>5 DEF OnWire
<1>3. ASSUME NEW i \in DOMAIN frame, PackCode(i) PROVE OnWire(frame', FALSE, enc)
  <2>1. frame[i] \in Cells /\ frame[i][1] = "int" /\ frame[i][2] < 0
    BY <1>1, <1>3 DEF PackCode
  <2> DEFINE cell == <<"int", frame[i][2] + 2 * Half>>
  <2>2. frame' = [frame EXCEPT ![i] = cell]
    BY <1>3 DEF PackCode
  <2>3. \A meant \in Cells : Spells(frame[i], meant) => Spells(cell, meant)
    BY <2>1, SpelledAgain
  <2>4. cell \in Cells
    <3>1. Spells(frame[i], frame[i])
      BY DEF Spells
    <3> QED BY <2>1, <3>1, SpelledAgain
  <2> HIDE DEF cell
  <2>5. frame' \in Seq(Cells) /\ Len(frame') = Len(frame) /\ Lays(frame', 1, enc)
    BY <1>1, <2>2, <2>3, <2>4, LaysChanged
  <2> QED BY <1>1, <2>5 DEF OnWire
<1>4. ASSUME AddTail PROVE OnWire(frame', FALSE, enc)
  <2> DEFINE cell == <<"fix", 0>>
  <2>1. frame' = Append(frame, cell) /\ cell \in Cells
    BY <1>4 DEF AddTail, Cells, TextKinds
  <2> HIDE DEF cell
  <2>2. PICK n \in Nat : n = Len(frame)
    BY <1>1
  <2>3. PICK m \in Nat : m = Len(enc)
    OBVIOUS
  <2>4. frame' \in Seq(Cells) /\ Len(frame') = n + 1 /\ \A k \in 1 .. n : frame'[k] = frame[k]
    BY <1>1, <2>1, <2>2
  <2>5. \A k \in 1 .. m : 1 + k - 1 = k /\ k <= n /\ k \in 1 .. n
    BY <1>1, <2>2, <2>3
  <2>6. \A k \in 1 .. m : Spells(frame[k], enc[k])
    BY <1>1, <2>2, <2>3, <2>5 DEF Lays
  <2>7. \A k \in 1 .. m : Spells(frame'[k], enc[k])
    BY <2>4, <2>5, <2>6
  <2>8. Lays(frame', 1, enc)
    BY <2>3, <2>5, <2>7 DEF Lays
  <2>9. Len(enc) <= Len(frame')
    BY <1>1, <2>2, <2>3, <2>4
  <2> QED BY <2>4, <2>8, <2>9 DEF OnWire
<1> QED BY <1>2, <1>3, <1>4 DEF PeerSpells

\* A frame without its end spells the message as far as it goes (CutShort).
LEMMA CutWire ==
    ASSUME NEW enc \in Seq(Cells), NEW n \in 0 .. Len(enc) - 1
             PROVE OnWire(SubSeq(enc, 1, n), TRUE, enc)
<1> DEFINE part == SubSeq(enc, 1, n)
<1>1. PICK m \in Nat : m = Len(enc)
  OBVIOUS
<1>2. n \in Nat /\ n < m
  BY <1>1
<1>3. part \in Seq(Cells) /\ Len(part) = n /\ \A k \in 1 .. n : part[k] = enc[k]
  BY <1>1, <1>2
<1> HIDE DEF part
<1>4. Lays(part, 1, enc)
  <2>1. \A k \in 1 .. m : 1 + k - 1 = k /\ (k <= n => k \in 1 .. n)
    BY <1>1, <1>2
  <2>2. \A k \in 1 .. m : k <= n => Spells(part[k], enc[k])
    BY <1>3, <2>1 DEF Spells
  <2> QED BY <1>1, <1>3, <2>1, <2>2 DEF Lays
<1>5. ~(Len(enc) <= Len(part))
  BY <1>1, <1>2, <1>3
<1> QED BY <1>3, <1>4, <1>5 DEF OnWire, part

-----------------------------------------------------------------------------
(* Topic filters *)

\* A filter without "#" admits exactly the topics of its own length that pass.
LEMMA ClosedFilter ==
    ASSUME NEW Level, NEW filter \in Seq(Level), NEW name \in Seq(Level),
           filter # <<>>, \A i \in DOMAIN filter : filter[i] # "#",
           ~WildcardOnReserved(filter, name)
    PROVE  TopicMatches(filter, name) <=> Delivers(filter, name)
<1>1. PICK last \in Nat \ {0} : last = Len(filter)
  OBVIOUS
<1>2. Len(name) \in Nat /\ DOMAIN filter = 1 .. last /\ DOMAIN name = 1 .. Len(name)
  BY <1>1
<1>3. filter[last] # "#"
  BY <1>2
<1>4. filter # <<"#">>
  BY <1>1, <1>3
<1>5. filter = name => last = Len(name) /\ Passes(filter, name, last)
  BY <1>1, <1>2 DEF Passes, LevelPasses
<1>6. TopicMatches(filter, name) <=> last = Len(name) /\ Passes(filter, name, last)
  BY <1>1, <1>4, <1>5 DEF TopicMatches
<1>7. Delivers(filter, name) <=>
        Len(name) = last /\ \A i \in 1 .. last : LevelPasses(filter, name, i)
  BY <1>1, <1>3 DEF Delivers, LevelPasses
<1>8. Len(name) = last => last <= Len(name)
  BY <1>2
<1>9. last = Len(name) /\ Passes(filter, name, last) <=>
        Len(name) = last /\ \A i \in 1 .. last : LevelPasses(filter, name, i)
  BY <1>8, Zenon DEF Passes
<1> QED BY <1>6, <1>7, <1>9, Zenon

\* A filter that ends in "#" admits what begins with the levels before it.
LEMMA OpenFilter ==
    ASSUME NEW Level, NEW filter \in Seq(Level), NEW name \in Seq(Level),
           ValidFilter(filter), ValidTopic(name), filter[Len(filter)] = "#",
           ~WildcardOnReserved(filter, name)
    PROVE  TopicMatches(filter, name) <=> Delivers(filter, name)
<1>1. PICK last \in Nat \ {0} : last = Len(filter)
  BY DEF ValidFilter
<1>2. /\ Len(name) \in Nat /\ DOMAIN filter = 1 .. last
      /\ DOMAIN name = 1 .. Len(name)
  BY <1>1
<1>3. filter[last] = "#" /\ \A i \in 1 .. last : filter[i] = "#" => i = last
  BY <1>1, <1>2 DEF ValidFilter
<1>4. \A i \in 1 .. Len(name) : name[i] # "#"
  BY <1>2 DEF ValidTopic
<1>5. Delivers(filter, name) <=> Passes(filter, name, last - 1)
  BY <1>1, <1>2, <1>3 DEF Delivers, Passes, LevelPasses
<1>6. Passes(filter, name, last - 1) => TopicMatches(filter, name)
  <2>1. last \in DOMAIN filter
    BY <1>2
  <2> QED BY <1>3, <2>1, Zenon DEF TopicMatches
<1>7. filter # name
  BY <1>1, <1>2, <1>3, <1>4
<1>8. ASSUME last = Len(name), Passes(filter, name, last) PROVE FALSE
  <2>1. LevelPasses(filter, name, last)
    BY <1>1, <1>8 DEF Passes
  <2>2. name[last] # "#"
    BY <1>1, <1>4, <1>8
  <2> QED BY <1>3, <2>1, <2>2 DEF LevelPasses
<1>9. filter = <<"#">> => Passes(filter, name, last - 1)
  BY <1>1, <1>2 DEF Passes
<1>10. TopicMatches(filter, name) => Passes(filter, name, last - 1)
  BY <1>1, <1>2, <1>3, <1>7, <1>8, <1>9 DEF TopicMatches
<1> QED BY <1>5, <1>6, <1>10

\* A sensitive topic that is a valid filter matches in the engine exactly where a
\* broker delivers (topic_matches in detections.rs), whatever the levels, unless it
\* begins with a wildcard and the topic is one of the broker's own.
THEOREM MatchesLikeABroker ==
    ASSUME NEW Level, NEW filter \in Seq(Level), NEW name \in Seq(Level),
           ValidFilter(filter), ValidTopic(name), ~WildcardOnReserved(filter, name)
    PROVE  TopicMatches(filter, name) <=> Delivers(filter, name)
<1>1. CASE filter[Len(filter)] = "#"
  BY <1>1, OpenFilter
<1>2. CASE filter[Len(filter)] # "#"
  <2>1. \A i \in DOMAIN filter : filter[i] # "#"
    BY <1>2 DEF ValidFilter
  <2> QED BY <2>1, ClosedFilter DEF ValidFilter
<1> QED BY <1>1, <1>2

-----------------------------------------------------------------------------
(* The inductive invariant *)

\* What the sensor meets is one of the situations.
Met == \E s \in Situations : /\ sent = s.message /\ topic = s.topic
                             /\ sensor = [sensitive |-> s.sensitive, names |-> s.names,
                                          brokers |-> s.brokers]

Stages == /\ stage \in {"new", "sent", "parsed", "handled", "written", "dropped"}
          /\ cut \in BOOLEAN
          /\ stage = "new" => cut = FALSE

\* The frame spells the message, as far as it goes.
Wired == stage # "new" => OnWire(frame, cut, Encode(sent))

\* What was parsed is what was sent, with defaults for what it lacks, or nothing.
AsMeant == stage \notin {"new", "sent"} =>
             /\ msg = IF ~cut /\ Readable THEN Completed(sent) ELSE None
             /\ stage # "dropped" => ~cut /\ msg = Completed(sent)

\* The records are records, with the alerts of the message.
Recorded ==
    stage \in {"handled", "written"} =>
      /\ records \in Seq(RecordTypes)
      /\ topic # ReplyTopic =>
           Cardinality({i \in DOMAIN records : records[i].class = "DetectionFinding"}) = AlertCount

\* A line is what is written of a record.
Lined == /\ stage # "written" => lines = <<>>
         /\ stage = "written" => lines = [i \in DOMAIN records |->
                                            [cef |-> FormatCef(records[i]), plain |-> Plain(records[i])]]

IInv == Met /\ Stages /\ Wired /\ AsMeant /\ Recorded /\ Lined

\* The alerts depend on nothing else.
LEMMA SameAlerts ==
    ASSUME topic' = topic, sensor' = sensor, msg' = msg PROVE AlertCount' = AlertCount
BY DEF AlertCount, EnvelopeSpoofed, Payload, ClaimsOtherGuid

\* What is known of every situation.
LEMMA MetIs ==
    ASSUME Met
    PROVE  /\ IsSendable(sent) /\ topic \in Text /\ ValidTopic(topic)
           /\ sensor.sensitive \in Seq(Text) /\ IsTexts(sensor.names)
<1>1. PICK s \in Situations : /\ sent = s.message /\ topic = s.topic
                              /\ sensor = [sensitive |-> s.sensitive, names |-> s.names,
                                           brokers |-> s.brokers]
  BY DEF Met
<1>2. IsSituation(s)
  BY MessagePathAssumption
<1>3. IsSendable(s.message) /\ s.topic \in Text /\ ValidTopic(s.topic) /\ s.sensitive \in Seq(Text) /\
        IsTexts(s.names)
  BY <1>2 DEF IsSituation
<1>4. sensor.sensitive = s.sensitive /\ sensor.names = s.names
  BY <1>1
<1> QED BY <1>1, <1>3, <1>4

\* The invariant holds before a message is encoded.
LEMMA InitIInv == Init => IInv
<1> SUFFICES ASSUME Init PROVE IInv
  OBVIOUS
<1>1. Met
  BY DEF Init, Met
<1>2. stage = "new" /\ cut = FALSE /\ lines = <<>>
  BY DEF Init
<1>3. Stages /\ Wired /\ AsMeant /\ Recorded /\ Lined
  BY <1>2 DEF Stages, Wired, AsMeant, Recorded, Lined
<1> QED BY <1>1, <1>3 DEF IInv

\* A message is encoded like the one with the defaults of what it lacks.
LEMMA EncodeFills ==
    ASSUME NEW m, IsSendable(m)
    PROVE  /\ IsMessage(Completed(m)) /\ Encode(Completed(m)) = Encode(m)
           /\ Completed(m).message_type = m.message_type
<1> DEFINE full == Completed(m)
<1>1. IsMessage(full)
  BY DEF IsSendable
<1>2. /\ full.version = m.version /\ full.message_type = m.message_type
      /\ full.other_fields = m.other_fields
      /\ full.broker_ids = m.broker_ids /\ full.client_ids = m.client_ids
      /\ full.destination_tenant_guids = m.destination_tenant_guids
  BY DEF Completed, Fields, TextFields, ListFields, Optional
<1>3. <<>> # None /\ 0 # None
  <2>1. <<>> \in Text /\ 0 \in Int
    BY DEF Text
  <2> QED BY <2>1, DxlCodecAssumption, TextsAssumption, Zenon
<1>4. ASSUME NEW field \in TextFields
      PROVE  (IF full[field] = None THEN <<>> ELSE full[field])
               = (IF m[field] = None THEN <<>> ELSE m[field])
  BY <1>3 DEF Completed, Fields, TextFields
<1>5. (IF full.error_code = None THEN 0 ELSE full.error_code)
        = (IF m.error_code = None THEN 0 ELSE m.error_code)
  BY <1>3 DEF Completed, Fields, Optional
<1> HIDE DEF full
<1>6. \A field \in TextFields : WriteText(IF full[field] = None THEN <<>> ELSE full[field])
                                 = WriteText(IF m[field] = None THEN <<>> ELSE m[field])
  BY <1>4
<1>7. Pieces(full) = Pieces(m)
  <2> DEFINE number(n) == <<<<"int", n>>>>
             text(x, field) == WriteText(IF x[field] = None THEN <<>> ELSE x[field])
             code(x) == IF x.error_code = None THEN 0 ELSE x.error_code
             front(x) == <<number(x.version), number(x.message_type),
                           text(x, "message_id"), text(x, "source_client_id"),
                           text(x, "source_broker_id"), WriteTexts(x.broker_ids),
                           WriteTexts(x.client_ids), text(x, "payload")>>
             request(x) == <<text(x, "reply_to_topic"), text(x, "service_id")>>
             response(x) == <<text(x, "request_message_id"), text(x, "service_id")>>
             error(x) == <<text(x, "request_message_id"), text(x, "service_id"),
                           number(code(x)), text(x, "error_message")>>
             middle(x) == CASE x.message_type = Request -> request(x)
                            [] x.message_type = Response -> response(x)
                            [] x.message_type = Error -> error(x)
                            [] OTHER -> <<>>
             one(x) == IF x.version >= 1 THEN <<WriteTexts(Flat(x.other_fields))>> ELSE <<>>
             two(x) == IF x.version >= 2
                       THEN <<text(x, "source_tenant_guid"), WriteTexts(x.destination_tenant_guids)>>
                       ELSE <<>>
             three(x) == IF x.version >= 3 THEN <<text(x, "source_client_instance_id")>> ELSE <<>>
  <2>1. \A x : Pieces(x) = front(x) \o middle(x) \o one(x) \o two(x) \o three(x)
    BY Zenon DEF Pieces
  <2>2. \A field \in TextFields : text(full, field) = text(m, field)
    BY <1>6
  <2>3. code(full) = code(m)
    BY <1>5
  <2> HIDE DEF text, code
  <2>4. front(full) = front(m) /\ one(full) = one(m)
    BY <1>2, <2>2 DEF TextFields
  <2>5. request(full) = request(m) /\ response(full) = response(m) /\ error(full) = error(m)
    BY <2>2, <2>3 DEF TextFields
  <2>6. two(full) = two(m) /\ three(full) = three(m)
    BY <1>2, <2>2 DEF TextFields
  <2> HIDE DEF number, front, request, response, error, one, two, three
  <2>7. middle(full) = middle(m)
    BY <1>2, <2>5
  <2> HIDE DEF middle
  <2> QED BY <2>1, <2>4, <2>6, <2>7
<1> QED BY <1>1, <1>2, <1>7 DEF Encode, full

\* The codec says of a frame what was meant.
LEMMA ParsesFrame ==
    ASSUME Met, cut \in BOOLEAN, OnWire(frame, cut, Encode(sent))
    PROVE  Parse(frame) = IF ~cut /\ Readable THEN Completed(sent) ELSE None
<1> DEFINE full == Completed(sent)
<1>1. /\ IsMessage(full) /\ Encode(full) = Encode(sent)
      /\ full.message_type = sent.message_type
  BY MetIs, EncodeFills
<1>2. frame \in Seq(Cells) /\ Lays(frame, 1, Encode(full)) /\
        (cut <=> ~(Len(Encode(full)) <= Len(frame)))
  BY <1>1 DEF OnWire
<1>3. Len(frame) \in Nat
  BY <1>2
<1>5. Readable <=> Known(full.message_type) /\ \A text \in TextsOf(full) : IsUtf8(text)
  BY <1>1, Zenon DEF Readable, Known
<1> HIDE DEF full
<1>4. Parse(frame) = IF /\ Len(Encode(full)) <= Len(frame)
                        /\ Known(full.message_type) /\ \A text \in TextsOf(full) : IsUtf8(text)
                     THEN full ELSE None
  BY <1>1, <1>2, <1>3, ParseIs
<1>6. Parse(frame) = IF ~cut /\ Readable THEN full ELSE None
  BY <1>2, <1>4, <1>5, Zenon
<1> QED BY <1>6 DEF full

\* Every step preserves the invariant.
LEMMA NextIInv == IInv /\ [Next]_vars => IInv'
<1> SUFFICES ASSUME IInv, [Next]_vars PROVE IInv'
  OBVIOUS
<1>1. Met /\ Stages /\ Wired /\ AsMeant /\ Recorded /\ Lined
  BY DEF IInv
<1>2. UNCHANGED <<sent, topic, sensor>>
  BY DEF Next, vars, EncodeMessage, PeerSpells, CutShort, ParseMessage, HandleMessage, WriteLines
<1>3. Met'
  BY <1>1, <1>2 DEF Met
<1>4. /\ IsMessage(Completed(sent)) /\ topic \in Text /\ ValidTopic(topic)
      /\ sensor.sensitive \in Seq(Text) /\ IsTexts(sensor.names)
  BY <1>1, MetIs DEF IsSendable
<1>5. Encode(sent) \in Seq(Cells)
  <2>1. \A x, y \in Seq(Cells) : x \o y \in Seq(Cells)
    OBVIOUS
  <2>2. Encode(Completed(sent)) \in Seq(Cells)
    BY <1>4, <2>1, EncodeIs, Zenon
  <2> QED BY <1>1, <2>2, MetIs, EncodeFills
<1>6. /\ Encode(sent)' = Encode(sent) /\ (Readable' <=> Readable)
      /\ Completed(sent)' = Completed(sent)
  <2>1. sent' = sent
    BY <1>2
  <2> QED BY <2>1 DEF Readable
<1>7. CASE EncodeMessage
  <2>1. stage = "new" /\ stage' = "sent" /\ frame' = Encode(sent) /\
          UNCHANGED <<cut, msg, records, lines>>
    BY <1>7 DEF EncodeMessage
  <2>2. cut = FALSE /\ lines = <<>>
    BY <1>1, <2>1 DEF Stages, Lined
  <2>3. OnWire(frame', FALSE, Encode(sent))
    <3> DEFINE enc == Encode(sent)
    <3>1. enc \in Seq(Cells) /\ Len(enc) <= Len(enc) /\ Lays(enc, 1, enc)
      <4>1. enc \in Seq(Cells)
        BY <1>5
      <4> HIDE DEF enc
      <4> QED BY <4>1, LaysItself
    <3> QED BY <2>1, <3>1 DEF OnWire
  <2>4. Stages' /\ AsMeant' /\ Recorded' /\ Lined'
    BY <2>1, <2>2 DEF Stages, AsMeant, Recorded, Lined
  <2>5. Wired'
    BY <1>6, <2>1, <2>2, <2>3 DEF Wired
  <2> QED BY <1>3, <2>4, <2>5 DEF IInv
<1>8. CASE PeerSpells
  <2>1. stage = "sent" /\ cut = FALSE /\ UNCHANGED <<stage, cut, msg, records, lines>>
    BY <1>1, <1>8 DEF PeerSpells, Stages
  <2>2. OnWire(frame, FALSE, Encode(sent))
    BY <1>1, <2>1 DEF Wired
  <2>3. OnWire(frame', FALSE, Encode(sent))
    BY <1>5, <1>8, <2>2, PeersSpell
  <2>4. Stages' /\ AsMeant' /\ Recorded' /\ Lined'
    BY <1>1, <2>1 DEF Stages, AsMeant, Recorded, Lined
  <2>5. Wired'
    BY <1>6, <2>1, <2>3 DEF Wired
  <2> QED BY <1>3, <2>4, <2>5 DEF IInv
<1>9. CASE CutShort
  <2>1. /\ stage = "sent" /\ frame = Encode(sent) /\ cut' = TRUE
        /\ UNCHANGED <<stage, msg, records, lines>>
    BY <1>9 DEF CutShort
  <2>2. PICK n \in 0 .. Len(frame) - 1 : frame' = SubSeq(frame, 1, n)
    BY <1>9 DEF CutShort
  <2>3. OnWire(frame', TRUE, Encode(sent))
    BY <1>5, <2>1, <2>2, CutWire
  <2>4. Stages' /\ AsMeant' /\ Recorded' /\ Lined'
    BY <1>1, <2>1 DEF Stages, AsMeant, Recorded, Lined
  <2>5. Wired'
    BY <1>6, <2>1, <2>3 DEF Wired
  <2> QED BY <1>3, <2>4, <2>5 DEF IInv
<1>10. CASE ParseMessage
  <2>1. /\ stage = "sent" /\ msg' = Parse(frame) /\ UNCHANGED <<frame, cut, records, lines>>
        /\ stage' = IF msg' = None THEN "dropped" ELSE "parsed"
    BY <1>10 DEF ParseMessage
  <2>2. OnWire(frame, cut, Encode(sent)) /\ cut \in BOOLEAN
    BY <1>1, <2>1 DEF Wired, Stages
  <2>3. msg' = IF ~cut /\ Readable THEN Completed(sent) ELSE None
    BY <1>1, <2>1, <2>2, ParsesFrame
  <2>4. Stages' /\ Recorded' /\ Lined'
    BY <1>1, <2>1, <2>2 DEF Stages, Recorded, Lined
  <2>5. AsMeant'
    <3>1. msg' = IF ~cut' /\ Readable' THEN Completed(sent)' ELSE None
      BY <1>2, <1>6, <2>1, <2>3
    <3>2. stage' # "dropped" => ~cut' /\ msg' = Completed(sent)'
      BY <2>1, <3>1
    <3> QED BY <3>1, <3>2 DEF AsMeant
  <2>6. Wired'
    BY <1>6, <2>1, <2>2 DEF Wired
  <2> QED BY <1>3, <2>4, <2>5, <2>6 DEF IInv
<1>11. CASE HandleMessage
  <2>1. stage = "parsed" /\ stage' = "handled" /\ UNCHANGED <<frame, cut, msg, lines>>
    BY <1>11 DEF HandleMessage
  <2>2. IsMessage(msg)
    BY <1>1, <1>4, <2>1 DEF AsMeant
  <2>3. /\ records' \in Seq(RecordTypes)
        /\ topic # ReplyTopic =>
             Cardinality({i \in DOMAIN records' : records'[i].class = "DetectionFinding"})
               = AlertCount
    BY <1>4, <1>11, <2>2, HandledRecords
  <2>4. Stages' /\ Lined'
    BY <1>1, <2>1 DEF Stages, Lined
  <2>5. AsMeant'
    BY <1>1, <1>2, <1>6, <2>1 DEF AsMeant
  <2>6. Recorded'
    <3>1. topic' = topic /\ sensor' = sensor /\ msg' = msg
      BY <1>2, <2>1
    <3>2. AlertCount' = AlertCount
      BY <3>1, SameAlerts
    <3> QED BY <2>3, <3>1, <3>2, Zenon DEF Recorded
  <2>7. Wired'
    BY <1>1, <1>6, <2>1 DEF Wired
  <2> QED BY <1>3, <2>4, <2>5, <2>6, <2>7 DEF IInv
<1>12. CASE WriteLines
  <2>1. /\ stage = "handled" /\ stage' = "written" /\ UNCHANGED <<frame, cut, msg, records>>
        /\ lines' = [i \in DOMAIN records |-> [cef |-> FormatCef(records[i]),
             plain |-> Plain(records[i])]]
    BY <1>12 DEF WriteLines
  <2>2. Stages'
    BY <1>1, <2>1 DEF Stages
  <2>3. Lined'
    BY <2>1, Zenon DEF Lined
  <2>4. AsMeant'
    BY <1>1, <1>2, <1>6, <2>1 DEF AsMeant
  <2>5. Recorded'
    <3>1. topic' = topic /\ sensor' = sensor /\ records' = records /\ stage \in {"handled", "written"}
      BY <1>2, <2>1
    <3>2. AlertCount' = AlertCount
      BY <2>1, <3>1, SameAlerts
    <3> QED BY <1>1, <3>1, <3>2, Zenon DEF Recorded
  <2>6. Wired'
    BY <1>1, <1>6, <2>1 DEF Wired
  <2> QED BY <1>3, <2>2, <2>3, <2>4, <2>5, <2>6 DEF IInv
<1>13. CASE UNCHANGED vars
  <2>1. UNCHANGED <<stage, sent, topic, sensor, frame, cut, msg, records, lines>>
    BY <1>13 DEF vars
  <2>2. Stages' /\ Wired' /\ AsMeant'
    BY <1>1, <1>6, <2>1 DEF Stages, Wired, AsMeant
  <2>3. Recorded'
    <3>1. AlertCount' = AlertCount
      BY <2>1, SameAlerts
    <3> QED BY <1>1, <2>1, <3>1, Zenon DEF Recorded
  <2>4. Lined'
    BY <1>1, <2>1, Zenon DEF Lined
  <2> QED BY <1>3, <2>2, <2>3, <2>4 DEF IInv
<1> QED BY <1>7, <1>8, <1>9, <1>10, <1>11, <1>12, <1>13 DEF Next

\* In every state the frame spells what was sent, what was parsed is what was sent, and
\* the lines are those of the records of it.
THEOREM Invariance == Spec => []IInv
BY InitIInv, NextIInv, PTL DEF Spec

-----------------------------------------------------------------------------
(* The properties *)

\* A frame of all cells is parsed as the message that was meant, however peers pack it
\* and whichever optional texts it lacks, and refused if its type is unknown or a text is no UTF-8 (parse_dxl_message).
THEOREM Carried == Spec => []FrameCarriesMessage
<1>1. IInv => FrameCarriesMessage
  <2> SUFFICES ASSUME IInv, stage \notin {"new", "sent"}, ~cut
               PROVE  msg = IF Readable THEN Completed(sent) ELSE None
    BY DEF FrameCarriesMessage
  <2>1. msg = IF ~cut /\ Readable THEN Completed(sent) ELSE None
    BY Zenon DEF IInv, AsMeant
  <2> QED BY <2>1
<1> QED BY <1>1, Invariance, PTL

\* A frame that lost its end is refused, wherever the loss begins (parse_dxl_message).
THEOREM CutRefused == Spec => []CutFrameIsRefused
<1>1. IInv => CutFrameIsRefused
  BY DEF IInv, AsMeant, CutFrameIsRefused
<1> QED BY <1>1, Invariance, PTL

\* There are as many alerts about a sensitive topic as valid filters by which a broker
\* would deliver the message, or the one of a spoofed broker event (topic_matches and its callers).
THEOREM SensitiveDelivered == Spec => []SensitiveIsDelivered
<1>1. IInv => SensitiveIsDelivered
  <2> SUFFICES ASSUME IInv, stage \in {"handled", "written"}, topic # ReplyTopic,
                      \A i \in DOMAIN sensor.sensitive :
                         /\ ValidFilter(sensor.sensitive[i])
                         /\ ~WildcardOnReserved(sensor.sensitive[i], topic)
               PROVE  Cardinality({i \in DOMAIN records : records[i].class = "DetectionFinding"})
                        = IF EnvelopeSpoofed(Payload) THEN 1
                          ELSE Cardinality({i \in DOMAIN sensor.sensitive :
                                              Delivers(sensor.sensitive[i], topic)})
    BY Zenon DEF SensitiveIsDelivered
  <2>1. Met /\ Recorded
    BY DEF IInv
  <2>2. Cardinality({i \in DOMAIN records : records[i].class = "DetectionFinding"})
          = IF EnvelopeSpoofed(Payload) THEN 1
            ELSE Cardinality({i \in DOMAIN sensor.sensitive :
                                TopicMatches(sensor.sensitive[i], topic)})
    BY <2>1, Zenon DEF Recorded, AlertCount
  <2>3. topic \in Text /\ ValidTopic(topic) /\ sensor.sensitive \in Seq(Text)
    BY <2>1, MetIs
  <2>4. ASSUME NEW i \in DOMAIN sensor.sensitive
        PROVE  TopicMatches(sensor.sensitive[i], topic) <=> Delivers(sensor.sensitive[i], topic)
    <3>1. sensor.sensitive[i] \in Seq(Char) /\ topic \in Seq(Char)
      BY <2>3 DEF Text
    <3> QED BY <2>3, <3>1, MatchesLikeABroker
  <2>5. {i \in DOMAIN sensor.sensitive : TopicMatches(sensor.sensitive[i], topic)}
          = {i \in DOMAIN sensor.sensitive : Delivers(sensor.sensitive[i], topic)}
    BY <2>4
  <2> QED BY <2>2, <2>5, Zenon
<1> QED BY <1>1, Invariance, PTL

\* When lines are written, each is the line of a record of the known kinds.
LEMMA LinesOf ==
    ASSUME IInv, NEW i \in DOMAIN lines
    PROVE  records[i] \in RecordTypes /\ lines[i]
             = [cef |-> FormatCef(records[i]), plain |-> Plain(records[i])]
<1>1. Recorded /\ Lined
  BY DEF IInv
<1>2. stage = "written"
  BY <1>1 DEF Lined
<1>3. records \in Seq(RecordTypes)
  BY <1>1, <1>2, Zenon DEF Recorded
<1>4. lines = [k \in DOMAIN records |-> [cef |-> FormatCef(records[k]), plain |-> Plain(records[k])]]
  BY <1>1, <1>2, Zenon DEF Lined
<1>5. i \in DOMAIN records /\ lines[i] = [cef |-> FormatCef(records[i]), plain |-> Plain(records[i])]
  BY <1>4
<1> QED BY <1>3, <1>5

\* Whatever the texts of a message contain, a collector reads from the CEF line the fields
\* of the record and their values (format_cef, escape_ext).
THEOREM RecordRead == Spec => []CollectorReadsRecord
<1>1. IInv => CollectorReadsRecord
  <2> SUFFICES ASSUME IInv, NEW i \in DOMAIN lines
               PROVE  LET fields == CefFields(records[i])
                          kept(k) == IF k = Len(fields) THEN WithoutLast(Printable(fields[k][2]), {" "})
                                     ELSE Printable(fields[k][2])
                      IN  ReadCef(lines[i].cef) = [k \in DOMAIN fields |-> <<fields[k][1], kept(k)>>]
    BY Zenon DEF CollectorReadsRecord
  <2>1. records[i] \in RecordTypes /\ lines[i].cef = FormatCef(records[i])
    BY LinesOf
  <2> QED BY <2>1, CefIsRead, Zenon
<1> QED BY <1>1, Invariance, PTL

\* Every record is one line, in CEF and in plain text: no control character of a message
\* is written (format_cef, format_plain).
THEOREM OneLine == Spec => []OneLineEach
<1>1. IInv => OneLineEach
  <2> SUFFICES ASSUME IInv, NEW i \in DOMAIN lines
               PROVE  \A text \in {lines[i].cef, lines[i].plain} : ToSet(text) \cap Control = {}
    BY Zenon DEF OneLineEach
  <2>1. records[i] \in RecordTypes /\ lines[i].cef = FormatCef(records[i]) /\
          lines[i].plain = Plain(records[i])
    BY LinesOf
  <2>2. ToSet(FormatCef(records[i])) \cap Control = {}
    BY <2>1, CefIsOneLine
  <2>3. ToSet(Plain(records[i])) \cap Control = {}
    BY PlainIsOneLine
  <2> QED BY <2>1, <2>2, <2>3
<1> QED BY <1>1, Invariance, PTL
=============================================================================
