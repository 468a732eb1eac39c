---------------------------- MODULE StartupProofs ----------------------------
(***************************************************************************)
(* Theorems about Startup: what the loops of the configuration and of the  *)
(* choice of the endpoint return, for lists of any length, and from it the *)
(* invariants of the startup.                                              *)
(***************************************************************************)
EXTENDS Startup, SequenceTheorems, WellFoundedInduction, TLAPS

-----------------------------------------------------------------------------
(* Induction and loops *)

\* A set of natural numbers that is not empty has a least element.
LEMMA LeastExists ==
    ASSUME NEW T \in SUBSET Nat, T # {} PROVE \E n \in T : \A m \in T : n <= m
<1>1. PICK n \in T : \A m \in T : <<m, n>> \notin OpToRel(<, Nat)
  BY WFMin, NatLessThanWellFounded, Zenon
<1>2. \A m \in T : ~(m < n)
  BY <1>1, Zenon DEF OpToRel
<1> QED BY <1>2

\* Induction over the natural numbers, for a set of numbers.
LEMMA Induct ==
    ASSUME NEW T, 0 \in T, \A n \in Nat : n \in T => n + 1 \in T PROVE Nat \subseteq T
<1> SUFFICES ASSUME Nat \ T # {} PROVE FALSE
  OBVIOUS
<1>1. PICK n \in Nat \ T : \A m \in Nat \ T : n <= m
  BY LeastExists, Nat \ T \in SUBSET Nat
<1>2. n # 0 /\ n - 1 \in Nat /\ n - 1 \in T
  BY <1>1
<1> QED BY <1>1, <1>2

\* f[i] is the state of a loop after i rounds: it starts with base, round i is step[i].
IsRun(f, S, base, n, step) ==
    f \in [0 .. n -> S] /\ f[0] = base /\ \A i \in 1 .. n : f[i] = step[i][f[i - 1]]

\* A loop of n rounds over a state of S has a run: what a recursive function of the
\* number of rounds denotes exists.
LEMMA LoopRuns ==
    ASSUME NEW S, NEW base \in S, NEW n \in Nat, NEW step \in [1 .. n -> [S -> S]]
    PROVE  \E f : IsRun(f, S, base, n, step)
<1> DEFINE Good(m, f) == f[0] = base /\ \A i \in 1 .. m : f[i] = step[i][f[i - 1]]
           Runs(m) == \E f \in [0 .. m -> S] : Good(m, f)
           T == {m \in Nat : m <= n => Runs(m)}
<1>1. Runs(0)
  <2> DEFINE f == [i \in 0 .. 0 |-> base]
  <2>1. f \in [0 .. 0 -> S]
    OBVIOUS
  <2>2. f[0] = base
    OBVIOUS
  <2> HIDE DEF f
  <2>3. Good(0, f)
    BY <2>2
  <2> QED BY <2>1, <2>3
<1>2. ASSUME NEW m \in Nat, Runs(m), m + 1 <= n PROVE Runs(m + 1)
  <2>1. PICK f \in [0 .. m -> S] : Good(m, f)
    BY <1>2
  <2> DEFINE next == step[m + 1][f[m]]
             g == [i \in 0 .. m + 1 |-> IF i <= m THEN f[i] ELSE next]
  <2>2. next \in S
    BY <1>2
  <2> HIDE DEF next
  <2>3. g \in [0 .. m + 1 -> S]
    BY <2>2
  <2>4. g[0] = base
    BY <2>1
  <2>5. ASSUME NEW i \in 1 .. m + 1 PROVE g[i] = step[i][g[i - 1]]
    <3>1. CASE i <= m
      BY <2>1, <3>1
    <3>2. CASE i = m + 1
      BY <3>2 DEF next
    <3> QED BY <3>1, <3>2
  <2> HIDE DEF g
  <2>6. Good(m + 1, g)
    BY <2>4, <2>5
  <2> QED BY <2>3, <2>6
<1> HIDE DEF Runs
<1>3. 0 \in T /\ \A m \in Nat : m \in T => m + 1 \in T
  BY <1>1, <1>2
<1>4. n \in T
  <2> HIDE DEF T
  <2> QED BY <1>3, Induct
<1>5. Runs(n)
  BY <1>4
<1> QED BY <1>5 DEF Runs, IsRun

\* What holds of the first state of a loop and is preserved by every round holds of all:
\* the states i in T.
LEMMA LoopInvariant ==
    ASSUME NEW n \in Nat, NEW T, 0 \in T, \A i \in 1 .. n : i - 1 \in T => i \in T
    PROVE  0 .. n \subseteq T
<1> DEFINE U == {m \in Nat : m <= n => m \in T}
<1>1. 0 \in U
  OBVIOUS
<1>2. ASSUME NEW m \in Nat, m \in U PROVE m + 1 \in U
  <2> SUFFICES ASSUME m + 1 <= n PROVE m + 1 \in T
    OBVIOUS
  <2>1. m + 1 \in 1 .. n /\ (m + 1) - 1 \in T
    BY <1>2
  <2> QED BY <2>1
<1>3. Nat \subseteq U
  <2> HIDE DEF U
  <2> QED BY <1>1, <1>2, Induct
<1> QED BY <1>3

-----------------------------------------------------------------------------
(* The brokers of a configuration *)

Brokers == [port : Texts, host : Texts, ip : Texts]

\* A broker line that is accepted gives a broker of its parts.
LEMMA BrokerOfLine ==
    ASSUME NEW parts \in Seq(Texts), ParseBrokerLine(parts) # None
    PROVE  ParseBrokerLine(parts) \in Brokers
<1>1. \A port \in Texts, host \in Texts, ip \in Texts : BrokerAt(port, host, ip) \in Brokers
  BY DEF BrokerAt, Brokers
<1>2. "" \in Texts /\ DefaultPort \in Texts
  BY StartupAssumption
<1>3. CASE Len(parts) = 2
  <2>1. parts[1] \in Texts /\ parts[2] \in Texts
    BY <1>3
  <2>2. ParseBrokerLine(parts) = BrokerOfTwo(parts)
    BY <1>3 DEF ParseBrokerLine
  <2>3. ParseBrokerLine(parts) = BrokerAt(parts[1], parts[2], "")
    BY <2>2 DEF BrokerOfTwo
  <2> QED BY <1>1, <1>2, <2>1, <2>3
<1>4. CASE Len(parts) = 3
  <2>1. parts[1] \in Texts /\ parts[2] \in Texts /\ parts[3] \in Texts
    BY <1>4
  <2>2. ParseBrokerLine(parts) = BrokerOfThree(parts)
    BY <1>4 DEF ParseBrokerLine
  <2>3. \/ ParseBrokerLine(parts) = BrokerAt(parts[1], parts[2], parts[3])
        \/ ParseBrokerLine(parts) = BrokerAt(parts[2], parts[3], "")
    BY <2>2 DEF BrokerOfThree
  <2> QED BY <1>1, <1>2, <2>1, <2>3
<1>5. CASE Len(parts) >= 4
  <2>1. parts[2] \in Texts /\ parts[3] \in Texts /\ parts[4] \in Texts
    BY <1>5
  <2>2. ParseBrokerLine(parts) = BrokerOfFour(parts)
    <3>0. Len(parts) \in Nat
      OBVIOUS
    <3> DEFINE k == Len(parts)
    <3>1. k \in Nat /\ k >= 4
      BY <1>5, <3>0
    <3> HIDE DEF k
    <3>2. k # 2 /\ k # 3
      BY <3>1
    <3> QED BY <3>1, <3>2 DEF ParseBrokerLine, k
  <2>3. \/ ParseBrokerLine(parts) = BrokerAt(parts[2], parts[3], parts[4])
        \/ ParseBrokerLine(parts) = BrokerAt(DefaultPort, parts[3], parts[4])
    BY <2>2 DEF BrokerOfFour
  <2> QED BY <1>1, <1>2, <2>1, <2>3
<1> QED BY <1>3, <1>4, <1>5 DEF ParseBrokerLine

\* [Brokers] is read as a sequence of brokers, one at least if a line is accepted.
LEMMA BrokersOfSection ==
    ASSUME NEW section \in BrokerLines
    PROVE  /\ BrokersOf(section) \in Seq(Brokers)
           /\ BrokersOf(section) # <<>> <=>
                \E i \in DOMAIN section : ParseBrokerLine(section[i].value) # None
<1> DEFINE n == Len(section)
           broker(i) == ParseBrokerLine(section[i].value)
           next(c, i) == IF broker(i) = None THEN c ELSE Append(c, broker(i))
           step == [i \in 1 .. n |-> [c \in Seq(Brokers) |-> next(c, i)]]
           body(f) == [i \in 0 .. n |-> IF i = 0 THEN <<>> ELSE next(f[i - 1], i)]
           parsed == CHOOSE f : f = body(f)
<1>1. n \in Nat /\ DOMAIN section = 1 .. n
  BY DEF BrokerLines
<1>2. ASSUME NEW i \in 1 .. n PROVE broker(i) # None => broker(i) \in Brokers
  <2>0. i \in 1 .. Len(section)
    BY DEF n
  <2>1. section[i] \in [name : STRING, exact : BOOLEAN, value : Seq(Texts)]
    BY <2>0, ElementOfSeq DEF BrokerLines
  <2>2. section[i].value \in Seq(Texts)
    BY <2>1
  <2> QED BY <2>2, BrokerOfLine DEF broker
<1> HIDE DEF n, broker
<1>3. ASSUME NEW i \in 1 .. n, NEW c \in Seq(Brokers) PROVE next(c, i) \in Seq(Brokers)
  BY <1>2
<1>4. PICK f \in [0 .. n -> Seq(Brokers)] :
        f[0] = <<>> /\ \A i \in 1 .. n : f[i] = step[i][f[i - 1]]
  <2>1. step \in [1 .. n -> [Seq(Brokers) -> Seq(Brokers)]]
    <3> HIDE DEF next
    <3> QED BY <1>3
  <2>2. <<>> \in Seq(Brokers)
    OBVIOUS
  <2> DEFINE S == Seq(Brokers)
             base == <<>>
  <2>3. base \in S /\ step \in [1 .. n -> [S -> S]]
    BY <2>1, <2>2
  <2> HIDE DEF step, S, base
  <2>4. \E f : IsRun(f, S, base, n, step)
    BY <1>1, <2>3, LoopRuns
  <2> QED BY <2>4 DEF S, base, IsRun
<1>5. ASSUME NEW i \in 1 .. n PROVE f[i] = next(f[i - 1], i)
  <2> HIDE DEF next
  <2>1. f[i - 1] \in Seq(Brokers)
    BY <1>1, <1>4
  <2> QED BY <1>4, <2>1
<1>6. f = body(f)
  <2> HIDE DEF next
  <2> QED BY <1>1, <1>4, <1>5
<1>7. parsed = body(parsed)
  <2> HIDE DEF body
  <2> QED BY <1>6
<1>8. BrokersOf(section) = parsed[n]
  BY DEF BrokersOf, n, broker
<1>9. parsed[0] = <<>> /\ \A i \in 1 .. n : parsed[i] = next(parsed[i - 1], i)
  <2> HIDE DEF next, parsed
  <2> QED BY <1>1, <1>7
<1> HIDE DEF parsed
<1> DEFINE Read(i) == /\ parsed[i] \in Seq(Brokers)
                      /\ parsed[i] # <<>> <=> \E j \in 1 .. i : broker(j) # None
           T == {i \in 0 .. n : Read(i)}
<1>10. Read(0)
  BY <1>9
<1>11. ASSUME NEW i \in 1 .. n, Read(i - 1) PROVE Read(i)
  <2>1. parsed[i] = next(parsed[i - 1], i)
    BY <1>9
  <2>2. CASE broker(i) = None
    <3>1. parsed[i] = parsed[i - 1]
      BY <2>1, <2>2
    <3>2. \A j \in 1 .. i : broker(j) # None => j \in 1 .. i - 1
      BY <1>1, <2>2
    <3>3. 1 .. i - 1 \subseteq 1 .. i
      BY <1>1
    <3> QED BY <1>11, <3>1, <3>2, <3>3
  <2>3. CASE broker(i) # None
    <3>1. parsed[i] = Append(parsed[i - 1], broker(i))
      BY <2>1, <2>3
    <3>2. parsed[i] \in Seq(Brokers) /\ parsed[i] # <<>>
      BY <1>2, <1>11, <2>3, <3>1
    <3>3. i \in 1 .. i
      BY <1>1
    <3> QED BY <2>3, <3>2, <3>3
  <2> QED BY <2>2, <2>3
<1>12. 0 .. n \subseteq T
  <2> HIDE DEF Read
  <2>1. 0 \in T /\ \A i \in 1 .. n : i - 1 \in T => i \in T
    BY <1>1, <1>10, <1>11
  <2> HIDE DEF T
  <2> QED BY <1>1, <2>1, LoopInvariant
<1>13. Read(n)
  <2> HIDE DEF Read
  <2> QED BY <1>1, <1>12
<1> QED BY <1>1, <1>8, <1>13 DEF broker

-----------------------------------------------------------------------------
(* The candidates *)

Endpoints == Texts \X Texts

\* The endpoints that two names of a broker give.
LEMMA NamedEndpoints ==
    ASSUME NEW brokers \in Seq(Brokers), NEW verify \in BOOLEAN
    PROVE  /\ Named(brokers, verify) \in Seq(Endpoints)
           /\ {Named(brokers, verify)[i] : i \in DOMAIN Named(brokers, verify)}
                = UNION {EndpointsOf(brokers[i]) : i \in DOMAIN brokers}
<1> DEFINE n == Len(brokers)
           name(i) == IF verify <=> i % 2 = 1 THEN brokers[(i + 1) \div 2].host
                      ELSE brokers[(i + 1) \div 2].ip
           e(i) == <<Unbracketed(name(i)), brokers[(i + 1) \div 2].port>>
<1>1. n \in Nat /\ DOMAIN brokers = 1 .. n
  OBVIOUS
<1>2. ASSUME NEW b \in Brokers
      PROVE  /\ b.port \in Texts /\ Unbracketed(b.host) \in Texts /\ Unbracketed(b.ip) \in Texts
  BY StartupAssumption DEF Brokers, Unbracketed
<1>3. ASSUME NEW i \in 1 .. 2 * n
      PROVE  (i + 1) \div 2 \in 1 .. n
  BY <1>1
<1>4. ASSUME NEW i \in 1 .. 2 * n PROVE e(i) \in EndpointsOf(brokers[(i + 1) \div 2])
  <2>1. name(i) \in {brokers[(i + 1) \div 2].host, brokers[(i + 1) \div 2].ip}
    OBVIOUS
  <2> HIDE DEF name
  <2> QED BY <2>1 DEF EndpointsOf
<1>5. ASSUME NEW i \in 1 .. n PROVE EndpointsOf(brokers[i]) = {e(2 * i - 1), e(2 * i)}
  <2>1. ((2 * i - 1) + 1) \div 2 = i /\ (2 * i + 1) \div 2 = i
    BY <1>1
  <2>2. (2 * i - 1) % 2 = 1 /\ (2 * i) % 2 # 1
    BY <1>1
  <2>3. CASE verify
    BY <2>1, <2>2, <2>3 DEF EndpointsOf
  <2>4. CASE ~verify
    BY <2>1, <2>2, <2>4 DEF EndpointsOf
  <2> QED BY <2>3, <2>4
<1>6. Named(brokers, verify) = [i \in 1 .. 2 * n |-> e(i)]
  BY DEF Named
<1>7. ASSUME NEW i \in 1 .. n PROVE EndpointsOf(brokers[i]) \subseteq Endpoints
  BY <1>1, <1>2 DEF EndpointsOf, Endpoints
<1>8. ASSUME NEW i \in 1 .. 2 * n PROVE e(i) \in Endpoints
  <2> HIDE DEF e
  <2> QED BY <1>3, <1>4, <1>7
<1> HIDE DEF e
<1>9. /\ Named(brokers, verify) \in Seq(Endpoints)
      /\ DOMAIN Named(brokers, verify) = 1 .. 2 * n
  <2>1. 2 * n \in Nat
    BY <1>1
  <2> QED BY <1>6, <1>8, <2>1
<1>10. ASSUME NEW i \in 1 .. 2 * n
       PROVE  e(i) \in UNION {EndpointsOf(brokers[j]) : j \in DOMAIN brokers}
  BY <1>1, <1>3, <1>4
<1>11. ASSUME NEW x \in UNION {EndpointsOf(brokers[j]) : j \in DOMAIN brokers}
       PROVE  \E i \in 1 .. 2 * n : x = e(i)
  <2>1. PICK j \in 1 .. n : x \in {e(2 * j - 1), e(2 * j)}
    BY <1>1, <1>5
  <2>2. 2 * j - 1 \in 1 .. 2 * n /\ 2 * j \in 1 .. 2 * n
    BY <1>1
  <2> QED BY <2>1, <2>2
<1>12. \A i \in 1 .. 2 * n : Named(brokers, verify)[i] = e(i)
  BY <1>6
<1> DEFINE all == {Named(brokers, verify)[i] : i \in DOMAIN Named(brokers, verify)}
           E == UNION {EndpointsOf(brokers[j]) : j \in DOMAIN brokers}
<1>13. ASSUME NEW x \in all PROVE x \in E
  <2>1. PICK i \in 1 .. 2 * n : x = Named(brokers, verify)[i]
    BY <1>9
  <2> HIDE DEF E
  <2> QED BY <1>10, <1>12, <2>1 DEF E
<1>14. ASSUME NEW x \in E PROVE x \in all
  <2>1. PICK i \in 1 .. 2 * n : x = e(i)
    BY <1>11
  <2> QED BY <1>9, <1>12, <2>1
<1>15. all = E
  <2> HIDE DEF all, E
  <2> QED BY <1>13, <1>14
<1> QED BY <1>9, <1>15

\* The loop of select_broker_endpoint collects every endpoint with a name.
LEMMA NameableEndpoints ==
    ASSUME NEW named \in Seq(Endpoints)
    PROVE  /\ Nameable(named) \in Seq(Endpoints)
           /\ ToSet(Nameable(named)) = {e \in ToSet(named) : e[1] # ""}
<1> DEFINE n == Len(named)
           next(c, i) == IF named[i][1] = "" \/ named[i] \in ToSet(c) THEN c
                         ELSE Append(c, named[i])
           step == [i \in 1 .. n |-> [c \in Seq(Endpoints) |-> next(c, i)]]
           body(f) == [i \in 0 .. n |-> IF i = 0 THEN <<>> ELSE next(f[i - 1], i)]
           chosen == CHOOSE f : f = body(f)
<1>1. n \in Nat /\ DOMAIN named = 1 .. n /\ \A i \in 1 .. n : named[i] \in Endpoints
  OBVIOUS
<1>2. Nameable(named) = chosen[n]
  BY DEF Nameable
<1>3. {named[i] : i \in 1 .. n} = ToSet(named)
  BY <1>1 DEF ToSet
<1> HIDE DEF n
<1>4. ASSUME NEW i \in 1 .. n, NEW c \in Seq(Endpoints) PROVE next(c, i) \in Seq(Endpoints)
  <2>1. Append(c, named[i]) \in Seq(Endpoints)
    BY <1>1, AppendProperties
  <2> QED BY <2>1
<1>5. PICK f \in [0 .. n -> Seq(Endpoints)] :
        f[0] = <<>> /\ \A i \in 1 .. n : f[i] = step[i][f[i - 1]]
  <2>1. step \in [1 .. n -> [Seq(Endpoints) -> Seq(Endpoints)]]
    <3> HIDE DEF next
    <3> QED BY <1>4
  <2> DEFINE S == Seq(Endpoints)
             base == <<>>
  <2> HIDE DEF step
  <2>2. base \in S /\ step \in [1 .. n -> [S -> S]]
    BY <2>1
  <2> HIDE DEF S, base
  <2>3. \E f : IsRun(f, S, base, n, step)
    BY <1>1, <2>2, LoopRuns
  <2> QED BY <2>3 DEF S, base, IsRun
<1>6. ASSUME NEW i \in 1 .. n PROVE f[i] = next(f[i - 1], i)
  <2> HIDE DEF next
  <2>1. f[i - 1] \in Seq(Endpoints)
    BY <1>1, <1>5
  <2> QED BY <1>5, <2>1
<1>7. f = body(f)
  <2> HIDE DEF next
  <2> QED BY <1>1, <1>5, <1>6
<1>8. chosen = body(chosen)
  <2> HIDE DEF body
  <2> QED BY <1>7
<1>9. chosen[0] = <<>>
  <2> HIDE DEF next, chosen
  <2> QED BY <1>1, <1>8
<1>9a. ASSUME NEW i \in 1 .. n PROVE chosen[i] = next(chosen[i - 1], i)
  <2> HIDE DEF next, chosen
  <2> QED BY <1>1, <1>8
<1> HIDE DEF chosen
<1> DEFINE Collected(i) == /\ chosen[i] \in Seq(Endpoints)
                           /\ ToSet(chosen[i]) = {e \in {named[j] : j \in 1 .. i} : e[1] # ""}
           T == {i \in 0 .. n : Collected(i)}
<1>10. Collected(0)
  <2>1. ToSet(<<>>) = {}
    BY DEF ToSet
  <2>2. {named[j] : j \in 1 .. 0} = {}
    OBVIOUS
  <2>3. {e \in {named[j] : j \in 1 .. 0} : e[1] # ""} = {}
    BY <2>2
  <2>4. chosen[0] = <<>> /\ <<>> \in Seq(Endpoints)
    BY <1>9
  <2> QED BY <2>1, <2>3, <2>4
<1>11. ASSUME NEW i \in 1 .. n, Collected(i - 1) PROVE Collected(i)
  <2> DEFINE c == chosen[i - 1]
  <2>1. chosen[i] = next(c, i)
    BY <1>9a
  <2>2. {named[j] : j \in 1 .. i} = {named[j] : j \in 1 .. i - 1} \cup {named[i]}
    <3>1. 1 .. i = (1 .. i - 1) \cup {i}
      BY <1>1
    <3> HIDE DEF c
    <3> QED BY <3>1
  <2>3. c \in Seq(Endpoints) /\ ToSet(c) = {e \in {named[j] : j \in 1 .. i - 1} : e[1] # ""}
    BY <1>11
  <2> HIDE DEF c
  <2>4. CASE named[i][1] = "" \/ named[i] \in ToSet(c)
    <3>1. chosen[i] = c
      BY <2>1, <2>4
    <3> QED BY <2>2, <2>3, <2>4, <3>1
  <2>5. CASE ~(named[i][1] = "" \/ named[i] \in ToSet(c))
    <3>1. chosen[i] = Append(c, named[i])
      BY <2>1, <2>5
    <3>2. chosen[i] \in Seq(Endpoints) /\ ToSet(chosen[i]) = ToSet(c) \cup {named[i]}
      <4> DEFINE e == named[i]
      <4>0. e \in Endpoints /\ c \in Seq(Endpoints)
        BY <1>1, <2>3
      <4> HIDE DEF e
      <4>1. Append(c, e) \in Seq(Endpoints)
        BY <4>0, AppendProperties
      <4>2. \A j \in 1 .. Len(c) : Append(c, e)[j] = c[j]
        BY <4>0, AppendProperties
      <4>3. Len(Append(c, e)) = Len(c) + 1 /\ Append(c, e)[Len(c) + 1] = e
        BY <4>0, AppendProperties
      <4>4. Len(c) \in Nat /\ DOMAIN c = 1 .. Len(c) /\ DOMAIN Append(c, e) = 1 .. Len(c) + 1
        BY <4>0, <4>1, <4>3, LenProperties
      <4>5. 1 .. Len(c) + 1 = (1 .. Len(c)) \cup {Len(c) + 1}
        BY <4>4
      <4>6. ToSet(Append(c, e)) = ToSet(c) \cup {e}
        BY <4>2, <4>3, <4>4, <4>5 DEF ToSet
      <4> QED BY <3>1, <4>1, <4>6 DEF e
    <3> QED BY <2>2, <2>3, <2>5, <3>2
  <2> QED BY <2>4, <2>5
<1>12. 0 .. n \subseteq T
  <2> HIDE DEF Collected
  <2>1. 0 \in T /\ \A i \in 1 .. n : i - 1 \in T => i \in T
    BY <1>1, <1>10, <1>11
  <2> HIDE DEF T
  <2> QED BY <1>1, <2>1, LoopInvariant
<1>13. Collected(n)
  <2> HIDE DEF Collected
  <2> QED BY <1>1, <1>12
<1> QED BY <1>2, <1>3, <1>13

\* The candidates are the endpoints of the brokers that have a name.
LEMMA CandidatesOfBrokers ==
    ASSUME NEW brokers \in Seq(Brokers), NEW verify \in BOOLEAN
    PROVE  /\ Candidates(brokers, verify) \in Seq(Endpoints)
           /\ ToSet(Candidates(brokers, verify)) =
                {e \in UNION {EndpointsOf(brokers[i]) : i \in DOMAIN brokers} : e[1] # ""}
<1>1. /\ Named(brokers, verify) \in Seq(Endpoints)
      /\ ToSet(Named(brokers, verify)) = UNION {EndpointsOf(brokers[i]) : i \in DOMAIN brokers}
  BY NamedEndpoints DEF ToSet
<1> QED BY <1>1, NameableEndpoints DEF Candidates

\* FindCi returns the value of an entry of that name.
LEMMA FoundIsThere ==
    ASSUME NEW entries, DOMAIN entries \subseteq Nat, NEW name, FindCi(entries, name) # None
    PROVE  \E i \in DOMAIN entries :
             entries[i].name = name /\ FindCi(entries, name) = entries[i].value
<1> DEFINE named == {i \in DOMAIN entries : entries[i].name = name}
           exact == {i \in named : entries[i].exact}
<1>1. ASSUME NEW S \in SUBSET Nat, S # {} PROVE First(S) \in S
  <2>1. \E x \in S : \A y \in S : x <= y
    BY <1>1, LeastExists
  <2> QED BY <2>1 DEF First
<1>2. named \in SUBSET Nat /\ exact \in SUBSET Nat
  OBVIOUS
<1>3. CASE exact # {}
  <2>1. First(exact) \in exact
    BY <1>1, <1>2, <1>3
  <2>2. FindCi(entries, name) = entries[First(exact)].value
    BY <1>3 DEF FindCi
  <2> QED BY <2>1, <2>2
<1>4. CASE exact = {} /\ named # {}
  <2>1. First(named) \in named
    BY <1>1, <1>2, <1>4
  <2>2. FindCi(entries, name) = entries[First(named)].value
    BY <1>4 DEF FindCi
  <2> QED BY <2>1, <2>2
<1>5. exact # {} \/ named # {}
  BY DEF FindCi
<1> QED BY <1>3, <1>4, <1>5

\* What a configuration that loads gives for the choice of the endpoint.
LEMMA LoadedConfiguration ==
    ASSUME NEW content, IsContent(content), Loadable(content.sections)
    PROVE  LET c == Load(content.sections)
           IN  /\ c.brokers \in Seq(Brokers) /\ c.verifyHostname \in BOOLEAN
               /\ c.brokers # <<>> <=>
                    \E i \in DOMAIN FindCi(content.sections, "Brokers") :
                      ParseBrokerLine(FindCi(content.sections, "Brokers")[i].value) # None
<1> DEFINE file == content.sections
<1>1. PICK i \in DOMAIN file :
        file[i].name = "Brokers" /\ FindCi(file, "Brokers") = file[i].value
  <2>1. DOMAIN file \subseteq Nat
    <3> DEFINE n == Len(file)
    <3>1. n \in Nat /\ DOMAIN file = 1 .. n
      BY DEF IsContent
    <3> HIDE DEF n
    <3> QED BY <3>1
  <2>2. FindCi(file, "Brokers") # None
    BY DEF Loadable
  <2> QED BY <2>1, <2>2, FoundIsThere
<1>2. FindCi(file, "Brokers") \in BrokerLines
  BY <1>1 DEF IsContent
<1>3. /\ BrokersOf(FindCi(file, "Brokers")) \in Seq(Brokers)
      /\ BrokersOf(FindCi(file, "Brokers")) # <<>> <=>
           \E j \in DOMAIN FindCi(file, "Brokers") :
             ParseBrokerLine(FindCi(file, "Brokers")[j].value) # None
  BY <1>2, BrokersOfSection
<1> QED BY <1>3 DEF Load

-----------------------------------------------------------------------------
(* The invariant of the startup *)

Args == [text : Texts, option : ArgumentKinds, value : Texts \cup {None}]

\* The parse leaves what it is given as it is, and sets a text for the configuration.
ParseTyped ==
    /\ given \in Seq(Args) /\ args \in Seq(Args)
    /\ {dxlConfig, positional} \subseteq Texts \cup {None}
    /\ DOMAIN cli = DOMAIN Default /\ cli.config \in Texts \cup {None}

DiskTyped == /\ DOMAIN disk \subseteq Texts
             /\ \A path \in DOMAIN disk : disk[path] # None => IsContent(disk[path])

\* The candidates are those of a configuration that was loaded.
Chosen ==
    /\ config.brokers \in Seq(Brokers) /\ config.verifyHostname \in BOOLEAN
    /\ candidates = Candidates(config.brokers, config.verifyHostname)

\* Where main is tells how far the choice of the endpoint has come; candidates that
\* have been probed in vain have not been reachable throughout.
StartInv ==
    /\ pc \in {"args", "load", "probe", "tls", "running", "exited"}
    /\ exit \in {None, 0, 2} /\ (exit # None <=> pc = "exited")
    /\ sinks \subseteq {"syslog", "webhook", "kafka"}
    /\ steady \subseteq reachable
    /\ pc \in {"args", "load"} => probed = 0
    /\ pc \in {"args", "load", "probe"} => endpoint = None
    /\ pc \in {"probe", "tls", "running"} \/ endpoint # None => Chosen
    /\ pc = "probe" => /\ probed \in 0 .. Len(candidates)
                       /\ \A i \in 1 .. probed : candidates[i] \notin steady
    /\ pc \in {"tls", "running"} \/ endpoint # None =>
         /\ endpoint \in Endpoints
         /\ IF candidates = <<>> THEN endpoint = LocalBroker ELSE endpoint \in ToSet(candidates)
    /\ SteadyEndpointIsTaken

LEMMA InitParseTyped == Init => ParseTyped /\ DiskTyped
<1> SUFFICES ASSUME Init PROVE ParseTyped /\ DiskTyped
  OBVIOUS
<1>1. PICK s \in Situations : given = s.args /\ dxlConfig = s.dxlConfig /\ disk = s.disk
  BY DEF Init
<1>2. given \in Seq(Args) /\ dxlConfig \in Texts \cup {None}
  BY <1>1, SituationsAssumption DEF Args
<1>3. DiskTyped
  BY <1>1, SituationsAssumption DEF DiskTyped
<1>4. args = given /\ positional = None /\ cli = Default
  BY DEF Init, ParseInit
<1> QED BY <1>2, <1>3, <1>4 DEF ParseTyped, Default

LEMMA NextParseTyped == ParseTyped /\ DiskTyped /\ [Next]_vars => ParseTyped' /\ DiskTyped'
<1> SUFFICES ASSUME ParseTyped, DiskTyped, [Next]_vars PROVE ParseTyped' /\ DiskTyped'
  OBVIOUS
<1>1. CASE UNCHANGED <<given, dxlConfig, args, cli, positional, disk>>
  BY <1>1 DEF ParseTyped, DiskTyped
<1>2. CASE Arguments
  <2>1. DiskTyped' /\ given' = given /\ dxlConfig' = dxlConfig
    BY <1>2 DEF Arguments, Parse, AnswerHelp, BeQuiet, SetOption, TakePositional,
                RejectArgument, EndOfArguments, startVars, DiskTyped, IsContent
  <2>2. ASSUME args # <<>>
        PROVE  /\ Head(args) \in Args /\ Tail(args) \in Seq(Args)
               /\ Len(args) > 1 => args[2] \in Args /\ Tail(Tail(args)) \in Seq(Args)
    <3>1. Head(args) \in Args /\ Tail(args) \in Seq(Args) /\ Len(Tail(args)) = Len(args) - 1
      BY <2>2, HeadTailProperties DEF ParseTyped
    <3>2. ASSUME Len(args) > 1 PROVE args[2] \in Args /\ Tail(args) # <<>>
      <4>1. Len(args) \in Nat /\ 2 \in 1 .. Len(args)
        BY <3>2, LenProperties DEF ParseTyped
      <4>2. args[2] \in Args
        BY <4>1, ElementOfSeq DEF ParseTyped
      <4>3. Len(Tail(args)) # 0
        BY <3>1, <3>2, <4>1
      <4>4. Len(<<>>) = 0
        OBVIOUS
      <4>5. Tail(args) # <<>>
        BY <4>3, <4>4
      <4> QED BY <4>2, <4>5
    <3> QED BY <3>1, <3>2, HeadTailProperties
  <2>3. CASE AnswerHelp \/ RejectArgument
    BY <2>1, <2>3 DEF AnswerHelp, RejectArgument, ParseTyped
  <2>4. CASE BeQuiet
    <3>1. Tail(args) \in Seq(Args)
      BY <2>2, <2>4 DEF BeQuiet, Reading
    <3> QED BY <2>1, <2>4, <3>1 DEF BeQuiet, ParseTyped, Default
  <2>5. CASE SetOption
    <3>1. args # <<>> /\ HasValue /\ UNCHANGED <<given, dxlConfig, positional>>
      BY <2>5 DEF SetOption, Reading
    <3>2. Value \in Texts
      BY <2>2, <3>1 DEF Value, HasValue, Joined, Args
    <3>3. args' \in Seq(Args)
      BY <2>2, <2>5, <3>1 DEF SetOption, HasValue
    <3>4. cli' = [cli EXCEPT ![Head(args).option] = Value]
      BY <2>5 DEF SetOption
    <3>5. DOMAIN cli' = DOMAIN Default /\ cli'.config \in Texts \cup {None}
      BY <3>2, <3>4 DEF ParseTyped, Default
    <3> QED BY <2>1, <3>1, <3>3, <3>5 DEF ParseTyped
  <2>6. CASE TakePositional
    <3>1. Tail(args) \in Seq(Args) /\ Head(args).text \in Texts
      BY <2>2, <2>6 DEF TakePositional, Reading, Args
    <3> QED BY <2>1, <2>6, <3>1 DEF TakePositional, ParseTyped
  <2>7. CASE EndOfArguments
    <3>1. args' = args /\ UNCHANGED <<given, dxlConfig, positional>>
      BY <2>7 DEF EndOfArguments
    <3>2. DOMAIN cli' = DOMAIN Default /\ cli'.config \in Texts \cup {None}
      BY <2>7 DEF EndOfArguments, ParseTyped, Default
    <3> QED BY <2>1, <3>1, <3>2 DEF ParseTyped
  <2> QED BY <1>2, <2>1, <2>3, <2>4, <2>5, <2>6, <2>7 DEF Arguments, Parse
<1>3. ASSUME Next, ~Arguments PROVE UNCHANGED <<given, dxlConfig, args, cli, positional, disk>>
  BY <1>3 DEF Next, Main, AfterArguments, LoadConfig, NothingToProbe, Probe, GiveUpProbing,
              Connect, Change, cliVars
<1>4. CASE UNCHANGED vars
  BY <1>1, <1>4 DEF vars, cliVars, startVars
<1> QED BY <1>1, <1>2, <1>3, <1>4

LEMMA InitStartInv == Init => StartInv
BY StartupAssumption DEF Init, StartInv, SteadyEndpointIsTaken

LEMMA NextStartInv == ParseTyped /\ DiskTyped /\ StartInv /\ [Next]_vars => StartInv'
<1> SUFFICES ASSUME ParseTyped, DiskTyped, StartInv, [Next]_vars PROVE StartInv'
  OBVIOUS
<1>0. None \notin {0, 2} /\ None \notin Endpoints /\ LocalBroker \in Endpoints
  BY StartupAssumption DEF Endpoints, LocalBroker
<1>a. Chosen => candidates \in Seq(Endpoints)
  BY CandidatesOfBrokers DEF Chosen
<1>1. CASE Arguments
  BY <1>1 DEF Arguments, startVars, StartInv, Chosen, SteadyEndpointIsTaken
<1>2. CASE AfterArguments
  BY <1>0, <1>2 DEF AfterArguments, Exit, StartInv, Chosen, SteadyEndpointIsTaken
<1>3. CASE LoadConfig
  <2>1. CASE FileLoads
    <3>1. cli.config \in DOMAIN disk /\ At(cli.config) # None /\ At(cli.config) = disk[cli.config]
      BY <2>1 DEF FileLoads, At
    <3>2. IsContent(At(cli.config)) /\ Loadable(At(cli.config).sections)
      BY <2>1, <3>1 DEF FileLoads, DiskTyped
    <3>3. Chosen'
      BY <1>3, <2>1, <3>2, LoadedConfiguration DEF LoadConfig, Chosen
    <3>4. candidates' \in Seq(Endpoints)
      BY <3>3, CandidatesOfBrokers DEF Chosen
    <3>5. /\ (pc' = "probe" /\ exit' = exit) \/ (pc' = "exited" /\ exit' = 2)
          /\ UNCHANGED <<probed, reachable, endpoint, sinks, steady>>
          /\ pc = "load"
      BY <1>3, <2>1 DEF LoadConfig, Exit
    <3>6. 0 \in 0 .. Len(candidates') /\ 1 .. 0 = {}
      BY <3>4, LenProperties
    <3> QED BY <1>0, <3>3, <3>5, <3>6 DEF StartInv, SteadyEndpointIsTaken
  <2>2. CASE ~FileLoads
    BY <1>0, <1>3, <2>2 DEF LoadConfig, Exit, StartInv, Chosen, SteadyEndpointIsTaken
  <2> QED BY <2>1, <2>2
<1>4. CASE NothingToProbe
  <2>1. Chosen /\ candidates \in Seq(Endpoints)
    BY <1>4, <1>a DEF NothingToProbe, StartInv
  <2>2. candidates # <<>> => candidates[1] \in Endpoints /\ candidates[1] \in ToSet(candidates)
    <3> SUFFICES ASSUME candidates # <<>> PROVE 1 \in DOMAIN candidates
      BY <2>1, ElementOfSeq, LenProperties DEF ToSet
    <3> QED BY <2>1, EmptySeq, LenProperties
  <2> QED BY <1>0, <1>4, <2>1, <2>2 DEF NothingToProbe, Choose, StartInv, Chosen, SteadyEndpointIsTaken
<1>5. CASE Probe
  <2>1. Chosen /\ candidates \in Seq(Endpoints) /\ Len(candidates) \in Nat
        /\ DOMAIN candidates = 1 .. Len(candidates)
    BY <1>5, <1>a, LenProperties DEF Probe, StartInv
  <2>2. probed \in Nat /\ probed + 1 \in 1 .. Len(candidates)
    BY <1>5, <2>1 DEF Probe, StartInv
  <2> DEFINE here == candidates[probed + 1]
  <2>3. here \in Endpoints /\ here \in ToSet(candidates) /\ candidates # <<>>
    BY <2>1, <2>2, ElementOfSeq DEF ToSet
  <2>4. CASE here \in reachable
    <3>1. /\ endpoint' = here /\ pc' = "tls"
          /\ UNCHANGED <<exit, config, candidates, probed, reachable, sinks, steady>>
      BY <1>5, <2>4 DEF Probe, Choose
    <3>2. pc = "probe" /\ exit = None /\ \A i \in 1 .. probed : candidates[i] \notin steady
      BY <1>5 DEF Probe, StartInv
    <3>3. ASSUME NEW i \in DOMAIN candidates, candidates[i] \in steady
          PROVE  \E j \in 1 .. i : here = candidates[j]
      <4>1. i \in Nat /\ ~(i \in 1 .. probed)
        BY <2>1, <3>2, <3>3
      <4>2. probed + 1 \in 1 .. i
        BY <2>1, <2>2, <4>1
      <4> QED BY <4>2
    <3> HIDE DEF here
    <3>4. SteadyEndpointIsTaken'
      BY <2>4, <3>1, <3>3 DEF SteadyEndpointIsTaken
    <3> QED BY <1>0, <2>1, <2>3, <3>1, <3>2, <3>4 DEF StartInv, Chosen
  <2>5. CASE here \notin reachable
    <3>1. /\ probed' = probed + 1 /\ pc = "probe"
          /\ UNCHANGED <<pc, endpoint, exit, config, candidates, reachable, sinks, steady>>
      BY <1>5, <2>5 DEF Probe
    <3>2. endpoint = None /\ exit = None /\ steady \subseteq reachable
          /\ \A i \in 1 .. probed : candidates[i] \notin steady
      BY <3>1 DEF StartInv
    <3>3. \A i \in 1 .. probed + 1 : candidates[i] \notin steady
      <4>1. \A i \in 1 .. probed + 1 : i = probed + 1 \/ i \in 1 .. probed
        BY <2>2
      <4> QED BY <2>5, <3>2, <4>1
    <3>4. probed + 1 \in 0 .. Len(candidates)
      BY <2>1, <2>2
    <3> HIDE DEF here
    <3>5. SteadyEndpointIsTaken'
      BY <3>1, <3>2 DEF SteadyEndpointIsTaken
    <3> QED BY <2>1, <3>1, <3>2, <3>3, <3>4, <3>5 DEF StartInv, Chosen
  <2> QED BY <2>4, <2>5
<1>6. CASE GiveUpProbing
  <2>1. Chosen /\ candidates \in Seq(Endpoints) /\ Len(candidates) \in Nat
        /\ DOMAIN candidates = 1 .. Len(candidates)
    BY <1>6, <1>a, LenProperties DEF GiveUpProbing, StartInv
  <2>2. /\ pc = "probe" /\ probed = Len(candidates) /\ Len(candidates) > 1
        /\ endpoint' = candidates[1] /\ pc' = "tls"
        /\ UNCHANGED <<exit, config, candidates, probed, reachable, sinks, steady>>
    BY <1>6 DEF GiveUpProbing, Choose
  <2>3. \A i \in DOMAIN candidates : candidates[i] \notin steady
    BY <2>1, <2>2 DEF StartInv
  <2>4. 1 \in DOMAIN candidates
    BY <2>1, <2>2
  <2>5. candidates[1] \in Endpoints /\ candidates[1] \in ToSet(candidates) /\ candidates # <<>>
    BY <2>1, <2>4, ElementOfSeq DEF ToSet
  <2>6. SteadyEndpointIsTaken'
    BY <2>2, <2>3 DEF SteadyEndpointIsTaken
  <2> QED BY <1>0, <2>1, <2>2, <2>5, <2>6 DEF StartInv, Chosen
<1>7. CASE Connect
  BY <1>0, <1>7 DEF Connect, Exit, StartedSinks, StartInv, Chosen, SteadyEndpointIsTaken
<1>8. ASSUME NEW e, Change(e) PROVE StartInv'
  BY <1>8 DEF Change, StartInv, Chosen, SteadyEndpointIsTaken
<1>9. CASE UNCHANGED vars
  BY <1>9 DEF vars, startVars, StartInv, Chosen, SteadyEndpointIsTaken
<1> QED BY <1>1, <1>2, <1>3, <1>4, <1>5, <1>6, <1>7, <1>8, <1>9 DEF Next, Main

LEMMA StartInvCorrect == Spec => [](ParseTyped /\ DiskTyped /\ StartInv)
<1>1. Init => ParseTyped /\ DiskTyped /\ StartInv
  BY InitParseTyped, InitStartInv
<1>2. (ParseTyped /\ DiskTyped /\ StartInv) /\ [Next]_vars => (ParseTyped /\ DiskTyped /\ StartInv)'
  BY NextParseTyped, NextStartInv
<1> QED BY <1>1, <1>2, PTL DEF Spec

-----------------------------------------------------------------------------
(* Where the sensor connects to *)

\* Type correctness of the startup, for whatever it is started with.
THEOREM TypeCorrect == Spec => []TypeOK
<1>1. StartInv => TypeOK
  BY StartupAssumption DEF StartInv, TypeOK, Endpoints
<1> QED BY <1>1, StartInvCorrect, PTL

\* The sensor connects to an endpoint of its configuration, or to this host if none has
\* a name, for any broker lines (select_broker_endpoint, parse_broker_line).
THEOREM ConfiguredIsTaken == Spec => []EndpointIsConfigured
<1>1. StartInv => EndpointIsConfigured
  <2> SUFFICES ASSUME StartInv, endpoint # None PROVE EndpointIsConfigured
    BY DEF EndpointIsConfigured
  <2> DEFINE named == {e \in UNION {EndpointsOf(config.brokers[i]) : i \in DOMAIN config.brokers} :
                         e[1] # ""}
  <2>1. candidates \in Seq(Endpoints) /\ ToSet(candidates) = named
    BY CandidatesOfBrokers DEF StartInv, Chosen
  <2>2. IF candidates = <<>> THEN endpoint = LocalBroker ELSE endpoint \in ToSet(candidates)
    BY DEF StartInv
  <2>3. candidates = <<>> => ToSet(candidates) = {}
    BY DEF ToSet
  <2> HIDE DEF named
  <2>4. IF named = {} THEN endpoint = LocalBroker ELSE endpoint \in named
    BY <2>1, <2>2, <2>3
  <2> QED BY <2>4 DEF EndpointIsConfigured, named
<1> QED BY <1>1, StartInvCorrect, PTL

\* No endpoint that answers throughout is passed over for a later one or for one that
\* does not answer, for any candidates and hosts that come and go in any way.
THEOREM SteadyIsTaken == Spec => []SteadyEndpointIsTaken
<1>1. StartInv => SteadyEndpointIsTaken
  BY DEF StartInv
<1> QED BY <1>1, StartInvCorrect, PTL

-----------------------------------------------------------------------------
(* How the command line is read *)

\* An argument is the value of the option in front of it if that takes one and is
\* no value itself.
LEMMA PositionsOfValues ==
    ASSUME given \in Seq(Args)
    PROVE  /\ ValuePositions \subseteq DOMAIN given
           /\ \A i \in DOMAIN given :
                i \in ValuePositions <=>
                    i > 1 /\ i - 1 \notin ValuePositions /\ Valued(given[i - 1])
<1> DEFINE n == Len(given)
           next(t, i) == i > 1 /\ ~t /\ Valued(given[i - 1])
           step == [i \in 1 .. n |-> [t \in BOOLEAN |-> next(t, i)]]
           body(f) == [i \in 0 .. n |-> next(f[i - 1], i)]
           taken == CHOOSE f : f = body(f)
<1>1. n \in Nat /\ DOMAIN given = 1 .. n
  BY LenProperties
<1>2. ValuePositions = {i \in 1 .. n : taken[i]}
  BY <1>1 DEF ValuePositions
<1> HIDE DEF n
<1>3. PICK f : IsRun(f, BOOLEAN, FALSE, n, step)
  <2>1. step \in [1 .. n -> [BOOLEAN -> BOOLEAN]]
    OBVIOUS
  <2> HIDE DEF step
  <2> QED BY <1>1, <2>1, LoopRuns
<1>4. ASSUME NEW i \in 0 .. n PROVE f[i] = next(f[i - 1], i)
  <2>1. CASE i = 0
    BY <1>3, <2>1 DEF IsRun
  <2>2. CASE i \in 1 .. n
    <3>1. f[i] = step[i][f[i - 1]] /\ f[i - 1] \in BOOLEAN
      BY <1>1, <1>3, <2>2 DEF IsRun
    <3> HIDE DEF next
    <3> QED BY <2>2, <3>1
  <2> QED BY <1>1, <2>1, <2>2
<1>5. f = body(f)
  <2> HIDE DEF next
  <2> QED BY <1>3, <1>4 DEF IsRun
<1>6. taken = body(taken)
  <2> HIDE DEF body
  <2> QED BY <1>5
<1>7. ASSUME NEW i \in 1 .. n PROVE taken[i] <=> i > 1 /\ ~taken[i - 1] /\ Valued(given[i - 1])
  <2> HIDE DEF taken
  <2>1. taken[i] = next(taken[i - 1], i)
    <3> HIDE DEF next
    <3>1. i \in 0 .. n
      BY <1>1
    <3> QED BY <1>6, <3>1
  <2> QED BY <2>1
<1> HIDE DEF taken
<1>8. ASSUME NEW i \in 1 .. n, i > 1 PROVE i - 1 \in 1 .. n
  BY <1>1, <1>8
<1> QED BY <1>1, <1>2, <1>7, <1>8

\* What is left of the command line after k arguments.
Rest(k) == [i \in 1 .. Len(given) - k |-> given[k + i]]

ConfigValue(i) == IF given[i].value # None THEN given[i].value ELSE given[i + 1].text

\* The last -c among the first k arguments is what is set so far.
OptionsRead(k, file) ==
    IF file = None THEN \A i \in ConfigOptions : i > k
    ELSE \E i \in ConfigOptions : /\ i <= k /\ file = ConfigValue(i)
                                  /\ \A j \in ConfigOptions : j <= k => j <= i

\* At most one of the first k arguments is a CONFIG, and it is what was noted.
WordsRead(k, word) ==
    IF word = None THEN \A i \in ConfigWords : i > k
    ELSE \E i \in ConfigWords : /\ i <= k /\ word = given[i].text
                                /\ \A j \in ConfigWords : j <= k => j = i

ReadUpTo(k, file, word) == /\ k < Len(given) => k + 1 \in Options
                           /\ \A i \in Ending : i > k
                           /\ OptionsRead(k, file) /\ WordsRead(k, word)

\* The parse is at an argument that is no value, and has met none that ends it; or it
\* has come to its end, or to the first argument that ends it.
ParseInv ==
    /\ outcome \in {"parsing", "parsed", "answer", "error"}
    /\ outcome = "parsing" =>
         \E k \in 0 .. Len(given) : args = Rest(k) /\ ReadUpTo(k, cli.config, positional)
    /\ outcome = "parsed" => Ending = {} /\ cli.config = DocumentedConfig
    /\ outcome \in {"answer", "error"} =>
         \E p \in Ending : /\ \A i \in Ending : p <= i
                           /\ Faulty(p) <=> outcome = "error"

\* The first argument that is left, what is behind it, and the one after it.
LEMMA RestIsLeft ==
    ASSUME given \in Seq(Args), NEW k \in 0 .. Len(given)
    PROVE  /\ Len(given) \in Nat /\ DOMAIN given = 1 .. Len(given)
           /\ Rest(k) \in Seq(Args) /\ Len(Rest(k)) = Len(given) - k
           /\ Rest(k) = <<>> <=> k = Len(given)
           /\ k < Len(given) =>
                /\ Head(Rest(k)) = given[k + 1] /\ given[k + 1] \in Args
                /\ Tail(Rest(k)) = Rest(k + 1)
                /\ k + 1 < Len(given) => Rest(k)[2] = given[k + 2] /\ given[k + 2] \in Args
<1> DEFINE n == Len(given)
           r == Rest(k)
<1>1. n \in Nat /\ DOMAIN given = 1 .. n /\ \A i \in 1 .. n : given[i] \in Args
  BY LenProperties, ElementOfSeq
<1>2. r = [i \in 1 .. n - k |-> given[k + i]]
  BY DEF Rest
<1> HIDE DEF n, r
<1>3. k \in 0 .. n
  BY DEF n
<1>4. r \in Seq(Args) /\ Len(r) = n - k /\ DOMAIN r = 1 .. n - k
  <2>1. n - k \in Nat
    BY <1>1, <1>3
  <2>2. \A i \in 1 .. n - k : given[k + i] \in Args
    BY <1>1, <1>3
  <2> QED BY <1>2, <2>1, <2>2
<1>5. r = <<>> <=> k = n
  <2>1. Len(<<>>) = 0
    OBVIOUS
  <2>2. r # <<>> => Len(r) # 0
    BY <1>4, EmptySeq
  <2> QED BY <1>1, <1>3, <1>4, <2>1, <2>2
<1>6. ASSUME k < n
      PROVE  /\ Head(r) = given[k + 1] /\ given[k + 1] \in Args
             /\ Tail(r) = Rest(k + 1)
             /\ k + 1 < n => r[2] = given[k + 2] /\ given[k + 2] \in Args
  <2>1. k + 1 \in 1 .. n /\ 1 \in 1 .. n - k
    BY <1>1, <1>3, <1>6
  <2>2. Head(r) = r[1] /\ r[1] = given[k + 1]
    BY <1>2, <1>4, <2>1
  <2>3. k + 1 < n => k + 2 \in 1 .. n /\ 2 \in 1 .. n - k
    BY <1>1, <1>3
  <2>4. Tail(r) = [i \in 1 .. Len(r) - 1 |-> r[i + 1]]
    <3>1. r # <<>>
      BY <1>1, <1>5, <1>6
    <3>2. /\ Tail(r) \in Seq(Args) /\ Len(Tail(r)) = Len(r) - 1
          /\ \A i \in 1 .. Len(Tail(r)) : Tail(r)[i] = r[i + 1]
      BY <1>4, <3>1, HeadTailProperties
    <3>3. Tail(r) = [i \in 1 .. Len(Tail(r)) |-> Tail(r)[i]]
      BY <3>2, LenProperties
    <3> QED BY <3>2, <3>3
  <2>5. Rest(k + 1) = [i \in 1 .. n - (k + 1) |-> given[(k + 1) + i]]
    BY DEF Rest, n
  <2>6. Len(r) - 1 = n - (k + 1)
    BY <1>1, <1>3, <1>4
  <2>7. ASSUME NEW i \in 1 .. n - (k + 1) PROVE r[i + 1] = given[(k + 1) + i]
    <3>1. i + 1 \in 1 .. n - k /\ k + (i + 1) = (k + 1) + i
      BY <1>1, <1>3
    <3> QED BY <1>2, <3>1
  <2>8. Tail(r) = Rest(k + 1)
    BY <2>4, <2>5, <2>6, <2>7
  <2> QED BY <1>1, <1>2, <2>1, <2>2, <2>3, <2>8
<1> QED BY <1>1, <1>4, <1>5, <1>6 DEF n, r

\* How a command line reads as a whole depends on nothing but itself.
LEMMA ReadingIsFixed ==
    ASSUME given' = given
    PROVE  /\ Options' = Options /\ ConfigOptions' = ConfigOptions
           /\ ConfigWords' = ConfigWords /\ Ending' = Ending
           /\ \A i : Rest(i)' = Rest(i) /\ ConfigValue(i)' = ConfigValue(i) /\ (Faulty(i)' <=> Faulty(i))
           /\ dxlConfig' = dxlConfig => DocumentedConfig' = DocumentedConfig
<1>1. ValuePositions' = ValuePositions
  BY DEF ValuePositions
<1>2. Options' = Options
  BY <1>1 DEF Options
<1>3. ConfigOptions' = ConfigOptions /\ ConfigWords' = ConfigWords
  BY <1>2 DEF ConfigOptions, ConfigWords
<1>4. ASSUME NEW i PROVE Rest(i)' = Rest(i) /\ ConfigValue(i)' = ConfigValue(i)
  BY DEF Rest, ConfigValue
<1>5. ASSUME NEW i PROVE Faulty(i)' <=> Faulty(i)
  BY <1>3 DEF Faulty, WordsBefore
<1>6. Ending' = Ending
  BY <1>2, <1>5 DEF Ending
<1>7. dxlConfig' = dxlConfig => DocumentedConfig' = DocumentedConfig
  BY <1>3 DEF DocumentedConfig
<1> QED BY <1>2, <1>3, <1>4, <1>5, <1>6, <1>7

\* Where the parse is at argument p, its guards say what the whole line says of p.
LEMMA ArgumentRead ==
    ASSUME ParseTyped, NEW k \in 0 .. Len(given), args = Rest(k), args # <<>>,
           ReadUpTo(k, cli.config, positional)
    PROVE  LET p == k + 1
           IN  /\ p \in Options /\ p <= Len(given)
               /\ Head(args) = given[p] /\ given[p] \in Args /\ Tail(args) = Rest(p)
               /\ Valued(given[p]) <=> given[p].option \in {"config", "format", "only"} /\ ~Joined
               /\ HasValue <=> Joined \/ p < Len(given)
               /\ HasValue => Value = ConfigValue(p) /\ Value \in Texts
               /\ HasValue /\ ~Joined => Tail(Tail(args)) = Rest(p + 1)
               /\ Faulty(p) <=>
                    \/ given[p].option = "unknown"
                    \/ given[p].option = "word" /\ positional # None
                    \/ /\ given[p].option \in {"config", "format", "only"}
                       /\ HasValue => ~Accepts(given[p].option, Value)
<1> DEFINE n == Len(given)
           p == k + 1
<1>1. /\ n \in Nat /\ Len(args) = n - k /\ k # n
      /\ k < n => /\ Head(args) = given[p] /\ given[p] \in Args /\ Tail(args) = Rest(p)
                  /\ p < n => args[2] = given[p + 1] /\ given[p + 1] \in Args
  BY RestIsLeft DEF ParseTyped
<1>2. k < n /\ k \in Nat
  BY <1>1
<1>3. p \in Options
  BY <1>2 DEF ReadUpTo
<1>4. Head(args) = given[p] /\ given[p] \in Args /\ Tail(args) = Rest(p)
  BY <1>1, <1>2
<1>5. Valued(given[p]) <=> given[p].option \in {"config", "format", "only"} /\ ~Joined
  BY <1>4 DEF Valued, Joined
<1>6. HasValue <=> Joined \/ p < n
  BY <1>1, <1>2 DEF HasValue
<1>7. ASSUME HasValue PROVE Value = ConfigValue(p) /\ Value \in Texts
  <2>1. CASE Joined
    BY <1>4, <2>1 DEF Joined, Value, ConfigValue, Args
  <2>2. CASE ~Joined
    <3>1. p < n
      BY <1>6, <1>7, <2>2
    <3> QED BY <1>1, <1>2, <1>4, <2>2, <3>1 DEF Joined, Value, ConfigValue, Args
  <2> QED BY <2>1, <2>2
<1>8. HasValue /\ ~Joined => Tail(Tail(args)) = Rest(p + 1)
  <2> SUFFICES ASSUME HasValue, ~Joined PROVE Tail(Tail(args)) = Rest(p + 1)
    OBVIOUS
  <2>1. p < n /\ p \in 0 .. n
    BY <1>1, <1>2, <1>6
  <2>2. Tail(Rest(p)) = Rest(p + 1)
    BY <2>1, RestIsLeft DEF ParseTyped
  <2> QED BY <1>4, <2>2
<1>9. WordsBefore(p) # {} <=> positional # None
  <2>1. ConfigWords \subseteq Int
    BY <1>1, LenProperties DEF ConfigWords, Options, ParseTyped
  <2>2. \A j \in ConfigWords : j < p <=> ~(j > k)
    BY <1>2, <2>1
  <2>3. WordsBefore(p) # {} <=> \E j \in ConfigWords : ~(j > k)
    BY <2>2 DEF WordsBefore
  <2>4. IF positional = None THEN \A i \in ConfigWords : i > k
        ELSE \E i \in ConfigWords : i <= k
    BY DEF ReadUpTo, WordsRead
  <2>5. \A j \in ConfigWords : j <= k <=> ~(j > k)
    BY <1>2, <2>1
  <2> QED BY <2>3, <2>4, <2>5
<1>10. Faulty(p) <=>
        \/ given[p].option = "unknown"
        \/ given[p].option = "word" /\ positional # None
        \/ /\ given[p].option \in {"config", "format", "only"}
           /\ HasValue => ~Accepts(given[p].option, Value)
  <2> DEFINE value == IF Valued(given[p]) THEN given[p + 1].text ELSE given[p].value
  <2>1. Faulty(p) <=> \/ given[p].option = "unknown"
                      \/ given[p].option = "word" /\ positional # None
                      \/ Valued(given[p]) /\ p = n
                      \/ given[p].option \in DOMAIN ValuesOf /\ value \notin ValuesOf[given[p].option]
    BY <1>9 DEF Faulty
  <2>2. DOMAIN ValuesOf = {"format", "only"}
    BY DEF ValuesOf
  <2>3. given[p].option \in {"config", "format", "only"} /\ HasValue => value = Value
    BY <1>4, <1>5, <1>7 DEF ConfigValue, Joined
  <2>4. given[p].option \in {"config", "format", "only"} =>
          (~HasValue <=> Valued(given[p]) /\ p = n)
    BY <1>1, <1>2, <1>5, <1>6
  <2>5. Valued(given[p]) => given[p].option \in {"config", "format", "only"}
    BY <1>5
  <2> HIDE DEF value, n
  <2> QED BY <2>1, <2>2, <2>3, <2>4, <2>5 DEF Accepts
<1> HIDE DEF n
<1> QED BY <1>1, <1>2, <1>3, <1>4, <1>5, <1>6, <1>7, <1>8, <1>10 DEF n

\* An argument that does not end the parse is read, with the value behind it if it takes
\* one: what has been read so far grows by that argument and nothing else.
LEMMA ReadOn ==
    ASSUME given \in Seq(Args),
           NEW k \in 0 .. Len(given), NEW file, NEW word, ReadUpTo(k, file, word),
           k + 1 \in Options, k + 1 \notin Ending,
           NEW m \in 0 .. Len(given), m = IF Valued(given[k + 1]) THEN k + 2 ELSE k + 1,
           NEW file1, file1 = IF given[k + 1].option = "config" THEN ConfigValue(k + 1) ELSE file,
           NEW word1, word1 = IF given[k + 1].option = "word" THEN given[k + 1].text ELSE word,
           given[k + 1].option = "word" => word = None,
           given[k + 1].option = "config" => ConfigValue(k + 1) \in Texts
    PROVE  ReadUpTo(m, file1, word1)
<1> DEFINE n == Len(given)
           p == k + 1
<1>1. n \in Nat /\ DOMAIN given = 1 .. n /\ k \in Nat /\ p \in 1 .. n /\ m \in Nat /\ m <= n
  BY LenProperties DEF Options
<1>2. Options \subseteq 1 .. n /\ ConfigOptions \subseteq Options /\ ConfigWords \subseteq Options
      /\ Ending \subseteq Options /\ None \notin Texts
  BY <1>1, StartupAssumption DEF Options, ConfigOptions, ConfigWords, Ending
<1>3. \A i \in 2 .. n : i \in ValuePositions <=> i - 1 \notin ValuePositions /\ Valued(given[i - 1])
  <2>1. \A i \in DOMAIN given :
          i \in ValuePositions <=> i > 1 /\ i - 1 \notin ValuePositions /\ Valued(given[i - 1])
    BY PositionsOfValues
  <2>2. \A i \in 2 .. n : i \in DOMAIN given /\ i > 1
    BY <1>1
  <2> QED BY <2>1, <2>2
<1>4. p \notin ValuePositions
  BY DEF Options
<1>5. \/ m = p /\ ~Valued(given[p])
      \/ m = p + 1 /\ Valued(given[p])
  BY <1>1
<1> HIDE DEF n
<1>6. ASSUME m < n PROVE m + 1 \in Options
  <2>1. m + 1 \in 2 .. n /\ (m + 1) - 1 = m
    BY <1>1, <1>5, <1>6
  <2>2. m + 1 \notin ValuePositions
    <3>1. CASE m = p /\ ~Valued(given[p])
      BY <1>3, <2>1, <3>1
    <3>2. CASE m = p + 1 /\ Valued(given[p])
      <4>1. m \in 2 .. n /\ m - 1 = p
        BY <1>1, <3>2
      <4>2. m \in ValuePositions
        BY <1>3, <1>4, <3>2, <4>1
      <4> QED BY <1>3, <2>1, <4>2
    <3> QED BY <1>5, <3>1, <3>2
  <2> QED BY <1>1, <2>1, <2>2 DEF Options
<1>7. ASSUME NEW i \in Options, i <= m PROVE i <= k \/ i = p
  <2>1. CASE m = p
    BY <1>1, <1>2, <1>7, <2>1
  <2>2. CASE m = p + 1 /\ Valued(given[p])
    <3>1. m \in 2 .. n /\ m - 1 = p
      BY <1>1, <2>2
    <3>2. m \in ValuePositions
      BY <1>3, <1>4, <2>2, <3>1
    <3>3. i # m /\ i \in 1 .. n
      BY <1>2, <3>2 DEF Options
    <3> QED BY <1>1, <1>7, <2>2, <3>3
  <2> QED BY <1>5, <2>1, <2>2
<1>8. \A i \in Options : (i <= m <=> i <= k \/ i = p) /\ (i > m <=> i > k /\ i # p)
  BY <1>1, <1>2, <1>5, <1>7
<1>9. \A i \in Ending : i > m
  BY <1>2, <1>8 DEF ReadUpTo
<1>10. OptionsRead(m, file1)
  <2>1. OptionsRead(k, file)
    BY DEF ReadUpTo
  <2>2. CASE given[p].option = "config"
    <3>1. p \in ConfigOptions /\ file1 = ConfigValue(p) /\ file1 # None
      BY <1>2, <2>2 DEF ConfigOptions
    <3>2. \A j \in ConfigOptions : j <= m => j <= p
      BY <1>1, <1>2, <1>8
    <3>3. p <= m
      BY <1>1, <1>5
    <3> HIDE DEF p
    <3> QED BY <3>1, <3>2, <3>3 DEF OptionsRead
  <2>3. CASE given[p].option # "config"
    <3>1. p \notin ConfigOptions /\ file1 = file
      BY <2>3 DEF ConfigOptions
    <3>2. \A j \in ConfigOptions : (j <= m <=> j <= k) /\ (j > m <=> j > k)
      BY <1>2, <1>8, <3>1
    <3> HIDE DEF p
    <3> QED BY <2>1, <3>1, <3>2 DEF OptionsRead
  <2> QED BY <2>2, <2>3
<1>11. WordsRead(m, word1)
  <2>1. WordsRead(k, word)
    BY DEF ReadUpTo
  <2>2. CASE given[p].option = "word"
    <3>1. p \in ConfigWords /\ word1 = given[p].text /\ word = None
      BY <2>2 DEF ConfigWords
    <3>2. given[p] \in Args
      BY <1>1, ElementOfSeq DEF n
    <3>3. word1 # None
      BY <1>2, <3>1, <3>2 DEF Args
    <3>4. \A j \in ConfigWords : j <= m => j = p
      <4>1. \A j \in ConfigWords : j > k
        BY <2>1, <3>1 DEF WordsRead
      <4>2. \A j \in ConfigWords : j \in Int /\ (j <= m => j <= k \/ j = p)
        BY <1>2, <1>8
      <4> QED BY <1>1, <4>1, <4>2
    <3>5. p <= m
      BY <1>1, <1>5
    <3> HIDE DEF p
    <3> QED BY <3>1, <3>3, <3>4, <3>5 DEF WordsRead
  <2>3. CASE given[p].option # "word"
    <3>1. p \notin ConfigWords /\ word1 = word
      BY <2>3 DEF ConfigWords
    <3>2. \A j \in ConfigWords : (j <= m <=> j <= k) /\ (j > m <=> j > k)
      BY <1>2, <1>8, <3>1
    <3> HIDE DEF p
    <3> QED BY <2>1, <3>1, <3>2 DEF WordsRead
  <2> QED BY <2>2, <2>3
<1> QED BY <1>6, <1>9, <1>10, <1>11 DEF ReadUpTo, n

LEMMA InitParseInv == Init => ParseInv
<1> SUFFICES ASSUME Init PROVE ParseInv
  OBVIOUS
<1>1. given \in Seq(Args) /\ args = given /\ cli.config = None /\ positional = None
      /\ outcome = "parsing"
  BY InitParseTyped DEF Init, ParseInit, Default, ParseTyped
<1>2. Len(given) \in Nat /\ DOMAIN given = 1 .. Len(given)
  BY <1>1, LenProperties
<1>3. Options \subseteq DOMAIN given /\ ConfigOptions \subseteq DOMAIN given
      /\ ConfigWords \subseteq DOMAIN given /\ Ending \subseteq DOMAIN given
  BY DEF Options, ConfigOptions, ConfigWords, Ending
<1>4. \A i \in DOMAIN given : i > 0
  BY <1>2
<1>5. args = Rest(0)
  BY <1>1, <1>2 DEF Rest
<1>6. 0 < Len(given) => 0 + 1 \in Options
  <2>1. \A i \in DOMAIN given : i \in ValuePositions => i > 1
    BY <1>1, PositionsOfValues
  <2>2. 0 < Len(given) => 1 \in DOMAIN given
    BY <1>2
  <2> QED BY <2>1, <2>2 DEF Options
<1>7. ReadUpTo(0, cli.config, positional)
  BY <1>1, <1>3, <1>4, <1>6 DEF ReadUpTo, OptionsRead, WordsRead
<1> QED BY <1>1, <1>2, <1>5, <1>7 DEF ParseInv

\* What is read does not change when the parse goes on, and does not when it ends.
LEMMA NextParseInv == ParseTyped /\ ParseInv /\ [Next]_vars => ParseInv'
<1> SUFFICES ASSUME ParseTyped, ParseInv, [Next]_vars PROVE ParseInv'
  OBVIOUS
<1>1. ASSUME given' = given, NEW m \in 0 .. Len(given), args' = Rest(m),
             ReadUpTo(m, cli'.config, positional'), outcome' = "parsing"
      PROVE  ParseInv'
  <2>1. /\ Options' = Options /\ ConfigOptions' = ConfigOptions
        /\ ConfigWords' = ConfigWords /\ Ending' = Ending
        /\ \A i : Rest(i)' = Rest(i) /\ ConfigValue(i)' = ConfigValue(i)
    BY <1>1, ReadingIsFixed
  <2>2. OptionsRead(m, cli.config)'
    BY <1>1, <2>1 DEF ReadUpTo, OptionsRead
  <2>3. WordsRead(m, positional)'
    BY <1>1, <2>1 DEF ReadUpTo, WordsRead
  <2>4. ReadUpTo(m, cli.config, positional)'
    BY <1>1, <2>1, <2>2, <2>3 DEF ReadUpTo
  <2> QED BY <1>1, <2>1, <2>4 DEF ParseInv
<1>2. CASE UNCHANGED <<given, dxlConfig, args, cli, positional, outcome>>
  <2>1. CASE outcome = "parsing"
    BY <1>1, <1>2, <2>1 DEF ParseInv
  <2>2. CASE outcome # "parsing"
    <3>1. Ending' = Ending /\ DocumentedConfig' = DocumentedConfig
          /\ \A i : (Faulty(i)' <=> Faulty(i))
      BY <1>2, ReadingIsFixed
    <3> QED BY <1>2, <2>2, <3>1 DEF ParseInv
  <2> QED BY <2>1, <2>2
<1>3. CASE Arguments
  <2>1. outcome = "parsing" /\ given' = given /\ dxlConfig' = dxlConfig
    BY <1>3 DEF Arguments, Parse, AnswerHelp, BeQuiet, SetOption, TakePositional,
                RejectArgument, EndOfArguments, Reading
  <2>2. PICK k \in 0 .. Len(given) : args = Rest(k) /\ ReadUpTo(k, cli.config, positional)
    BY <2>1 DEF ParseInv
  <2> DEFINE p == k + 1
  <2>3. /\ Options' = Options /\ Ending' = Ending
        /\ \A i : (Faulty(i)' <=> Faulty(i))
        /\ DocumentedConfig' = DocumentedConfig
    BY <2>1, ReadingIsFixed
  <2>4. Len(given) \in Nat /\ DOMAIN given = 1 .. Len(given)
    BY LenProperties DEF ParseTyped
  <2>5. \A i \in Ending : i > k /\ i \in 1 .. Len(given)
    BY <2>2, <2>4 DEF ReadUpTo, Ending, Options
  <2>6. ASSUME args # <<>>
        PROVE  /\ p \in Options /\ p \in 0 .. Len(given)
               /\ Head(args) = given[p] /\ given[p] \in Args /\ Tail(args) = Rest(p)
               /\ Valued(given[p]) <=> given[p].option \in {"config", "format", "only"} /\ ~Joined
               /\ HasValue <=> Joined \/ p < Len(given)
               /\ HasValue => Value = ConfigValue(p) /\ Value \in Texts
               /\ HasValue /\ ~Joined => Tail(Tail(args)) = Rest(p + 1)
               /\ Faulty(p) <=>
                    \/ given[p].option = "unknown"
                    \/ given[p].option = "word" /\ positional # None
                    \/ /\ given[p].option \in {"config", "format", "only"}
                       /\ HasValue => ~Accepts(given[p].option, Value)
    <3>1. p \in Options /\ p <= Len(given)
      BY <2>2, <2>6, ArgumentRead
    <3>2. p \in 0 .. Len(given)
      BY <2>4, <3>1
    <3> QED BY <2>2, <2>6, <3>1, <3>2, ArgumentRead
  <2>7. ASSUME args # <<>>, p \in Ending, outcome' = "answer" \/ outcome' = "error",
               Faulty(p) <=> outcome' = "error"
        PROVE  ParseInv'
    <3>1. \A i \in Ending : p <= i
      BY <2>4, <2>5
    <3> HIDE DEF p
    <3> QED BY <2>3, <2>7, <3>1 DEF ParseInv
  <2>8. ASSUME args # <<>>, ~Faulty(p), given[p].option \notin {"help", "version"},
               NEW m \in 0 .. Len(given), m = IF Valued(given[p]) THEN k + 2 ELSE k + 1,
               args' = Rest(m), outcome' = "parsing",
               cli'.config = IF given[p].option = "config" THEN ConfigValue(p) ELSE cli.config,
               positional' = IF given[p].option = "word" THEN given[p].text ELSE positional,
               given[p].option = "word" => positional = None,
               given[p].option = "config" => ConfigValue(p) \in Texts
        PROVE  ParseInv'
    <3>1. p \in Options /\ p \notin Ending
      BY <2>6, <2>8 DEF Ending
    <3>2. ReadUpTo(m, cli'.config, positional')
      BY <2>2, <2>8, <3>1, ReadOn DEF ParseTyped
    <3> QED BY <1>1, <2>1, <2>8, <3>2
  <2>9. CASE AnswerHelp
    <3>1. args # <<>> /\ Head(args).option \in {"help", "version"} /\ outcome' = "answer"
      BY <2>9 DEF AnswerHelp, Reading
    <3>2. given[p].option \in {"help", "version"} /\ p \in Options
      BY <2>6, <3>1
    <3>3. ~Faulty(p) /\ p \in Ending
      BY <2>6, <3>1, <3>2 DEF Ending
    <3> HIDE DEF p
    <3> QED BY <2>7, <3>1, <3>3
  <2>10. CASE RejectArgument
    <3>1. args # <<>> /\ outcome' = "error"
      BY <2>10 DEF RejectArgument, Reading
    <3>2. Faulty(p) /\ p \in Ending
      <4>1. Faulty(p)
        BY <2>6, <2>10, <3>1 DEF RejectArgument, Reading
      <4> QED BY <2>6, <3>1, <4>1 DEF Ending
    <3> HIDE DEF p
    <3> QED BY <2>7, <3>1, <3>2
  <2>11. CASE BeQuiet
    <3>1. /\ args # <<>> /\ Head(args).option = "quiet" /\ outcome' = "parsing"
          /\ cli'.config = cli.config /\ positional' = positional /\ args' = Tail(args)
      BY <2>1, <2>11 DEF BeQuiet, Reading
    <3>2. given[p].option = "quiet" /\ ~Faulty(p) /\ ~Valued(given[p])
      BY <2>6, <3>1
    <3>3. args' = Rest(p) /\ p \in 0 .. Len(given)
      BY <2>6, <3>1
    <3> QED BY <2>8, <3>1, <3>2, <3>3
  <2>12. CASE TakePositional
    <3>1. /\ args # <<>> /\ Head(args).option = "word" /\ outcome' = "parsing" /\ positional = None
          /\ cli'.config = cli.config /\ positional' = Head(args).text /\ args' = Tail(args)
      BY <2>1, <2>12 DEF TakePositional, Reading
    <3>2. given[p].option = "word" /\ ~Faulty(p) /\ ~Valued(given[p])
      BY <2>6, <3>1
    <3>3. args' = Rest(p) /\ p \in 0 .. Len(given) /\ positional' = given[p].text
      BY <2>6, <3>1
    <3> QED BY <2>8, <3>1, <3>2, <3>3
  <2>13. CASE SetOption
    <3>1. /\ args # <<>> /\ Head(args).option \in {"config", "format", "only"}
          /\ HasValue /\ Accepts(Head(args).option, Value)
          /\ outcome' = "parsing" /\ positional' = positional
          /\ cli' = [cli EXCEPT ![Head(args).option] = Value]
          /\ args' = IF Joined THEN Tail(args) ELSE Tail(Tail(args))
      BY <2>1, <2>13 DEF SetOption, Reading
    <3>2. /\ given[p].option \in {"config", "format", "only"} /\ Head(args) = given[p]
          /\ Value = ConfigValue(p) /\ Value \in Texts
      BY <2>6, <3>1
    <3>3. ~Faulty(p)
      BY <2>6, <3>1, <3>2
    <3>4. cli'.config = IF given[p].option = "config" THEN ConfigValue(p) ELSE cli.config
      BY <3>1, <3>2 DEF ParseTyped, Default
    <3>5. CASE Joined
      <4>1. args' = Rest(p) /\ p \in 0 .. Len(given) /\ ~Valued(given[p])
        BY <2>6, <3>1, <3>5
      <4> QED BY <2>8, <3>1, <3>2, <3>3, <3>4, <4>1
    <3>6. CASE ~Joined
      <4>1. /\ args' = Rest(p + 1) /\ p < Len(given) /\ Valued(given[p])
            /\ p + 1 = k + 2 /\ k + 2 \in 0 .. Len(given)
        <5>1. args' = Rest(p + 1) /\ p < Len(given) /\ Valued(given[p])
          BY <2>6, <3>1, <3>2, <3>6
        <5>2. p + 1 = k + 2 /\ k + 2 \in 0 .. Len(given)
          BY <2>4, <5>1
        <5> QED BY <5>1, <5>2
      <4> QED BY <2>8, <3>1, <3>2, <3>3, <3>4, <4>1
    <3> QED BY <3>5, <3>6
  <2>14. CASE EndOfArguments
    <3>1. args = <<>> /\ outcome' = "parsed"
          /\ cli' = IF cli.config # None THEN cli
                    ELSE [cli EXCEPT !.config = IF positional # None THEN positional ELSE dxlConfig]
      BY <2>14 DEF EndOfArguments
    <3>2. k = Len(given)
      BY <2>2, <3>1, RestIsLeft DEF ParseTyped
    <3>3. \A i \in DOMAIN given : i \in Int /\ i <= k /\ ~(i > k)
      BY <2>4, <3>2
    <3>4. Ending = {} /\ ConfigOptions \subseteq DOMAIN given /\ ConfigWords \subseteq DOMAIN given
      BY <2>4, <2>5, <3>3 DEF ConfigOptions, ConfigWords, Options
    <3>5. cli'.config = DocumentedConfig
      <4>1. CASE cli.config # None
        <5>1. PICK i \in ConfigOptions : cli.config = ConfigValue(i)
                                         /\ \A j \in ConfigOptions : j <= i
          BY <2>2, <3>3, <3>4, <4>1 DEF ReadUpTo, OptionsRead
        <5>2. \A l \in ConfigOptions : (\A j \in ConfigOptions : j <= l) => l = i
          BY <3>3, <3>4, <5>1
        <5>3. i = CHOOSE l \in ConfigOptions : \A j \in ConfigOptions : j <= l
          BY <5>1, <5>2
        <5> QED BY <3>1, <4>1, <5>1, <5>3 DEF DocumentedConfig, ConfigValue
      <4>2. CASE cli.config = None
        <5>1. ConfigOptions = {}
          BY <2>2, <3>3, <3>4, <4>2 DEF ReadUpTo, OptionsRead
        <5>2. cli'.config = IF positional # None THEN positional ELSE dxlConfig
          BY <3>1, <4>2 DEF ParseTyped, Default
        <5>3. CASE positional # None
          <6>1. PICK i \in ConfigWords : positional = given[i].text /\ \A j \in ConfigWords : j = i
            BY <2>2, <3>3, <3>4, <5>3 DEF ReadUpTo, WordsRead
          <6>2. i = CHOOSE l \in ConfigWords : TRUE
            BY <6>1
          <6> QED BY <5>1, <5>2, <5>3, <6>1, <6>2 DEF DocumentedConfig
        <5>4. CASE positional = None
          <6>1. ConfigWords = {}
            BY <2>2, <3>3, <3>4, <5>4 DEF ReadUpTo, WordsRead
          <6> QED BY <5>1, <5>2, <5>4, <6>1 DEF DocumentedConfig
        <5> QED BY <5>3, <5>4
      <4> QED BY <4>1, <4>2
    <3> QED BY <2>3, <3>1, <3>4, <3>5 DEF ParseInv
  <2> QED BY <1>3, <2>9, <2>10, <2>11, <2>12, <2>13, <2>14 DEF Arguments, Parse
<1>4. ASSUME Next, ~Arguments PROVE UNCHANGED <<given, dxlConfig, args, cli, positional, outcome>>
  BY <1>4 DEF Next, Main, AfterArguments, LoadConfig, NothingToProbe, Probe, GiveUpProbing,
              Connect, Change, cliVars
<1>5. CASE UNCHANGED vars
  BY <1>2, <1>5 DEF vars, cliVars
<1> QED BY <1>2, <1>3, <1>4, <1>5

LEMMA ParseInvCorrect == Spec => []ParseInv
<1>1. ParseTyped /\ ParseInv /\ [Next]_vars => ParseInv'
  BY NextParseInv
<1> QED BY <1>1, InitParseInv, StartInvCorrect, PTL DEF Spec

\* However the arguments are mixed and repeated and whatever they take for a value, the
\* configuration is the last -c, else the CONFIG argument, else DXL_CONFIG (Cli::parse).
THEOREM PrecedenceIsKept == Spec => []ConfigFollowsPrecedence
<1>1. ParseInv => ConfigFollowsPrecedence
  BY DEF ParseInv, ConfigFollowsPrecedence
<1> QED BY <1>1, ParseInvCorrect, PTL

-----------------------------------------------------------------------------
(* How the startup ends *)

\* What the steps before have established, and how the exit code comes about.
ExitInv ==
    /\ pc \in {"load", "probe", "tls", "running"} => outcome = "parsed"
    /\ pc \in {"probe", "tls", "running"} =>
         FileLoads /\ config = Load(At(cli.config).sections) /\ config.brokers # <<>>
    /\ ExitCodesTellWhy

\* Nothing but the arguments, the environment and the files decides on the exit code.
LEMMA ExitIsFixed ==
    ASSUME UNCHANGED <<given, dxlConfig, disk>>
    PROVE  DocumentedExit' = DocumentedExit /\ (cli' = cli => FileLoads' = FileLoads)
<1>1. \A path : At(path)' = At(path) /\ Pem(path)' = Pem(path)
  BY DEF At, Pem
<1>2. \A content : Sound(content)' <=> Sound(content)
  BY <1>1 DEF Sound
<1>3. Ending' = Ending /\ DocumentedConfig' = DocumentedConfig
      /\ \A i : (Faulty(i)' <=> Faulty(i))
  BY ReadingIsFixed
<1>4. Sound(At(DocumentedConfig))' <=> Sound(At(DocumentedConfig))
  BY <1>3 DEF Sound, At, Pem
<1>5. DocumentedExit' = DocumentedExit
  BY <1>3, <1>4 DEF DocumentedExit
<1>6. cli' = cli => FileLoads' = FileLoads
  BY DEF FileLoads, At
<1> QED BY <1>5, <1>6

\* Once the arguments are read, the exit code depends on the file alone.
LEMMA ExitAfterArguments ==
    ASSUME ParseTyped, ParseInv
    PROVE  /\ outcome = "answer" => DocumentedExit = 0
           /\ outcome = "error" => DocumentedExit = 2
           /\ outcome = "parsed" =>
                DocumentedExit = IF Sound(At(cli.config)) THEN None ELSE 2
<1>1. ASSUME outcome \in {"answer", "error"}
      PROVE  DocumentedExit = IF outcome = "error" THEN 2 ELSE 0
  <2>1. PICK p \in Ending : (\A i \in Ending : p <= i) /\ (Faulty(p) <=> outcome = "error")
    BY <1>1 DEF ParseInv
  <2>2. Ending # {} /\ DocumentedExit =
          IF Faulty(CHOOSE i \in Ending : \A j \in Ending : i <= j) THEN 2 ELSE 0
    BY <2>1 DEF DocumentedExit
  <2>3. Ending \subseteq Int
    BY LenProperties DEF ParseTyped, Ending, Options
  <2>4. \A l \in Ending : (\A j \in Ending : l <= j) => l = p
    BY <2>1, <2>3
  <2>5. p = CHOOSE i \in Ending : \A j \in Ending : i <= j
    BY <2>1, <2>4
  <2> QED BY <1>1, <2>1, <2>2, <2>5
<1>2. outcome = "parsed" => DocumentedExit = IF Sound(At(cli.config)) THEN None ELSE 2
  BY DEF ParseInv, DocumentedExit
<1> QED BY <1>1, <1>2

\* A file is sound if it loads, names a broker and its TLS material can be used.
LEMMA SoundFile ==
    ASSUME DiskTyped
    PROVE  /\ cli.config = None \/ ~FileLoads => ~Sound(At(cli.config))
           /\ FileLoads =>
                LET c == Load(At(cli.config).sections)
                IN  /\ c.brokers = <<>> => ~Sound(At(cli.config))
                    /\ config = c /\ c.brokers # <<>> =>
                         (TlsUsable <=> Sound(At(cli.config)))
<1> DEFINE content == At(cli.config)
           file == content.sections
<1>1. None \notin DOMAIN disk /\ At(None) = None /\ Pem(None) = None
  BY StartupAssumption DEF DiskTyped, At, Pem
<1>2. None \notin {"certificates", "unparsable certificates", "key"}
  BY StartupAssumption DEF PemStates
<1>3. Sound(content) => content # None /\ Loadable(file)
  <2> SUFFICES ASSUME Sound(content) PROVE content # None /\ Loadable(file)
    OBVIOUS
  <2>1. content # None /\ FindCi(file, "Certs") # None /\ FindCi(file, "Brokers") # None
    BY DEF Sound
  <2>2. /\ Pem(Entry(file, "Certs", "CertFile")) # None
        /\ Pem(Entry(file, "Certs", "PrivateKey")) # None
        /\ Pem(Entry(file, "Certs", "BrokerCertChain")) # None
    BY <1>2 DEF Sound
  <2>3. \A key \in CertKeys : Entry(file, "Certs", key) # None
    BY <1>1, <2>2 DEF CertKeys
  <2> QED BY <2>1, <2>3 DEF Loadable
<1>4. cli.config = None \/ ~FileLoads => ~Sound(content)
  BY <1>1, <1>3 DEF FileLoads
<1>5. ASSUME FileLoads
      PROVE  LET c == Load(file)
             IN  /\ c.brokers = <<>> => ~Sound(content)
                 /\ config = c /\ c.brokers # <<>> => (TlsUsable <=> Sound(content))
  <2> DEFINE c == Load(file)
             Lines == \E i \in DOMAIN FindCi(file, "Brokers") :
                        ParseBrokerLine(FindCi(file, "Brokers")[i].value) # None
  <2>1. content # None /\ Loadable(file) /\ IsContent(content)
    BY <1>5 DEF FileLoads, At, DiskTyped
  <2>2. c.brokers # <<>> <=> Lines
    BY <2>1, LoadedConfiguration
  <2>3. /\ c.chain = Entry(file, "Certs", "BrokerCertChain")
        /\ c.cert = Entry(file, "Certs", "CertFile")
        /\ c.key = Entry(file, "Certs", "PrivateKey")
        /\ c.tlsMinVersion = OrElse(Entry(file, "General", "TlsMinVersion"), "1.2")
    BY DEF Load
  <2>4. c.tlsMinVersion \in KnownVersions <=>
          Entry(file, "General", "TlsMinVersion") \in {None} \cup KnownVersions
    BY <2>3 DEF OrElse, KnownVersions
  <2>5. Sound(content) <=>
          /\ Lines
          /\ Pem(c.cert) = "certificates" /\ Pem(c.key) = "key"
          /\ \/ Pem(c.chain) = "certificates"
             \/ Pem(c.chain) = "unparsable certificates" /\ c.verifyHostname
          /\ c.tlsMinVersion \in KnownVersions
    <3>1. /\ content # None
          /\ \A section \in {"Certs", "Brokers"} : FindCi(file, section) # None
      BY <2>1 DEF Loadable
    <3> HIDE DEF c, file, content
    <3> QED BY <2>3, <2>4, <3>1 DEF Sound, c, file
  <2> HIDE DEF c, Lines, file, content
  <2>6. c.brokers = <<>> => ~Sound(content)
    BY <2>2, <2>5
  <2>7. config = c /\ c.brokers # <<>> => (TlsUsable <=> Sound(content))
    BY <2>2, <2>5 DEF TlsUsable
  <2> QED BY <2>6, <2>7 DEF c
<1> QED BY <1>4, <1>5

LEMMA InitExitInv == Init => ExitInv
BY DEF Init, ParseInit, ExitInv, ExitCodesTellWhy

LEMMA NextExitInv == ParseTyped /\ DiskTyped /\ StartInv /\ ParseInv /\ ExitInv /\ [Next]_vars => ExitInv'
<1> SUFFICES ASSUME ParseTyped, DiskTyped, StartInv, ParseInv, ExitInv, [Next]_vars PROVE ExitInv'
  OBVIOUS
<1>1. UNCHANGED <<given, dxlConfig, disk>>
  BY DEF Next, vars, startVars, cliVars, Main, Arguments, Parse, AnswerHelp, BeQuiet, SetOption,
         TakePositional, RejectArgument, EndOfArguments, AfterArguments, LoadConfig,
         NothingToProbe, Probe, GiveUpProbing, Connect, Change
<1>2. DocumentedExit' = DocumentedExit /\ (cli' = cli => FileLoads' = FileLoads /\
        At(cli.config)' = At(cli.config))
  BY <1>1, ExitIsFixed DEF At
<1>3. CASE Arguments
  BY <1>3 DEF Arguments, startVars, ExitInv, ExitCodesTellWhy
<1>4. CASE AfterArguments
  <2>1. /\ \/ outcome = "answer" /\ pc' = "exited" /\ exit' = 0
           \/ outcome = "error" /\ pc' = "exited" /\ exit' = 2
           \/ outcome = "parsed" /\ cli.config = None /\ pc' = "exited" /\ exit' = 2
           \/ outcome = "parsed" /\ pc' = "load"
        /\ outcome' = outcome
    BY <1>4 DEF AfterArguments, Exit, cliVars
  <2>2. pc' = "exited" => exit' = DocumentedExit
    BY <2>1, ExitAfterArguments, SoundFile
  <2> QED BY <1>2, <2>1, <2>2 DEF ExitInv, ExitCodesTellWhy
<1>5. CASE LoadConfig
  <2>1. pc = "load" /\ cli' = cli /\ outcome' = outcome /\ outcome = "parsed"
    BY <1>5 DEF LoadConfig, cliVars, ExitInv
  <2>2. DocumentedExit = IF Sound(At(cli.config)) THEN None ELSE 2
    BY <2>1, ExitAfterArguments
  <2>3. CASE FileLoads
    <3>1. /\ config' = Load(At(cli.config).sections)
          /\ \/ config'.brokers = <<>> /\ pc' = "exited" /\ exit' = 2
             \/ config'.brokers # <<>> /\ pc' = "probe"
      BY <1>5, <2>3 DEF LoadConfig, Exit
    <3>2. pc' = "exited" => exit' = DocumentedExit
      BY <2>2, <2>3, <3>1, SoundFile
    <3> QED BY <1>2, <2>1, <2>3, <3>1, <3>2 DEF ExitInv, ExitCodesTellWhy
  <2>4. CASE ~FileLoads
    <3>1. pc' = "exited" /\ exit' = 2
      BY <1>5, <2>4 DEF LoadConfig, Exit
    <3>2. DocumentedExit = 2
      BY <2>2, <2>4, SoundFile
    <3> QED BY <1>2, <3>1, <3>2 DEF ExitInv, ExitCodesTellWhy
  <2> QED BY <2>3, <2>4
<1>6. CASE NothingToProbe
  BY <1>2, <1>6 DEF NothingToProbe, Choose, cliVars, ExitInv, ExitCodesTellWhy
<1>7. CASE Probe
  BY <1>2, <1>7 DEF Probe, Choose, cliVars, ExitInv, ExitCodesTellWhy
<1>8. CASE GiveUpProbing
  BY <1>2, <1>8 DEF GiveUpProbing, Choose, cliVars, ExitInv, ExitCodesTellWhy
<1>9. CASE Connect
  <2>1. /\ pc = "tls" /\ cli' = cli /\ outcome' = outcome /\ config' = config
        /\ outcome = "parsed" /\ exit = None
        /\ FileLoads /\ config = Load(At(cli.config).sections) /\ config.brokers # <<>>
    BY <1>9, StartupAssumption DEF Connect, cliVars, ExitInv, StartInv
  <2>2. DocumentedExit = IF TlsUsable THEN None ELSE 2
    BY <2>1, ExitAfterArguments, SoundFile
  <2>3. \/ TlsUsable /\ pc' = "running" /\ exit' = exit
        \/ ~TlsUsable /\ pc' = "exited" /\ exit' = 2
    BY <1>9 DEF Connect, Exit
  <2> QED BY <1>2, <2>1, <2>2, <2>3 DEF ExitInv, ExitCodesTellWhy
<1>10. ASSUME NEW e, Change(e) PROVE ExitInv'
  BY <1>2, <1>10 DEF Change, cliVars, ExitInv, ExitCodesTellWhy
<1>11. CASE UNCHANGED vars
  BY <1>2, <1>11 DEF vars, startVars, cliVars, ExitInv, ExitCodesTellWhy
<1> QED BY <1>3, <1>4, <1>5, <1>6, <1>7, <1>8, <1>9, <1>10, <1>11 DEF Next, Main

\* The exit code is that of the first argument that ends the parse, else 2 for any
\* configuration that cannot be used; every other keeps the sensor running (main).
THEOREM ExitIsExplained == Spec => []ExitCodesTellWhy
<1>1. ExitInv => ExitCodesTellWhy
  BY DEF ExitInv
<1>2. ParseTyped /\ DiskTyped /\ StartInv /\ ParseInv /\ ExitInv /\ [Next]_vars => ExitInv'
  BY NextExitInv
<1> QED BY <1>1, <1>2, InitExitInv, StartInvCorrect, ParseInvCorrect, PTL DEF Spec
=============================================================================
