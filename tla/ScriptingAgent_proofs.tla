----------------------- MODULE ScriptingAgent_proofs ------------------------
(***************************************************************************)
(* The vector of subagents stays sorted through registrations, removals    *)
(* and sweeps; therefore the searches find what they should, no component  *)
(* is leaked or used after it is deleted, a listing has no name twice and  *)
(* a sweep misses no file.                                                 *)
(***************************************************************************)
EXTENDS ScriptingAgent, NaturalsInduction, WellFoundedInduction, SequenceTheorems, TLAPS

PathsOf(av) == {av[i].path : i \in 1..Len(av)}

-----------------------------------------------------------------------------
(* Least and greatest positions.                                           *)

LEMMA LeastExists ==
  ASSUME NEW S \in SUBSET Nat, S # {}
  PROVE  \E m \in S : \A j \in S : m <= j
<1>1. PICK x \in S : \A y \in S : ~(<<y, x>> \in OpToRel(<, Nat))
  BY NatLessThanWellFounded, WFMin
<1>2. \A y \in S : ~(y < x)
  BY <1>1 DEF OpToRel
<1> QED
  BY <1>2

LEMMA GreatestExists ==
  ASSUME NEW n \in Nat, NEW S \in SUBSET (0..n), S # {}
  PROVE  \E m \in S : \A j \in S : j <= m
<1> DEFINE D == {n - i : i \in S}
<1>1. D \in SUBSET Nat /\ D # {}
  <2>1. \A i \in S : n - i \in Nat
    OBVIOUS
  <2>2. D \in SUBSET Nat
    BY <2>1
  <2>3. PICK i \in S : TRUE
    OBVIOUS
  <2>4. n - i \in D
    OBVIOUS
  <2> QED
    BY <2>2, <2>4
<1>2. PICK d \in D : \A e \in D : d <= e
  BY <1>1, LeastExists
<1>3. PICK m \in S : d = n - m
  BY <1>2
<1>4. ASSUME NEW j \in S PROVE j <= m
  <2>1. n - j \in D
    OBVIOUS
  <2>2. d <= n - j
    BY <1>2, <2>1
  <2> QED
    BY <2>2, <1>3
<1> QED
  BY <1>4

-----------------------------------------------------------------------------
(* Paths are totally ordered, and a path comes after its prefixes.         *)

LEMMA SeqNat ==
  ASSUME NEW p \in Seq(Nat)
  PROVE  Len(p) \in Nat /\ \A c \in 1..Len(p) : p[c] \in Nat
OBVIOUS

LEMMA LessIrreflexive ==
  ASSUME NEW p \in Seq(Nat)
  PROVE  ~Less(p, p)
BY SeqNat DEF Less

\* The first place where two paths differ.
Differ(p, q, c) ==
  /\ c \in 1..Len(p) /\ c <= Len(q) /\ p[c] # q[c]
  /\ \A d \in 1..(c - 1) : p[d] = q[d]

LEMMA FirstDifference ==
  ASSUME NEW p \in Seq(Nat), NEW q \in Seq(Nat), p # q
  PROVE  \/ isPrefixOf(p, q) /\ Len(p) < Len(q)
         \/ isPrefixOf(q, p) /\ Len(q) < Len(p)
         \/ \E c \in Nat : Differ(p, q, c)
<1> DEFINE D == {c \in 1..Len(p) : c <= Len(q) /\ p[c] # q[c]}
<1>0. /\ Len(p) \in Nat /\ \A c \in 1..Len(p) : p[c] \in Nat
      /\ Len(q) \in Nat /\ \A c \in 1..Len(q) : q[c] \in Nat
  BY SeqNat
<1>1. CASE D = {}
  <2>1. \A c \in 1..Len(p) : c <= Len(q) => p[c] = q[c]
    BY <1>1
  <2>2. CASE Len(p) < Len(q)
    BY <2>1, <2>2, <1>0 DEF isPrefixOf
  <2>3. CASE Len(q) < Len(p)
    BY <2>1, <2>3, <1>0 DEF isPrefixOf
  <2>4. CASE Len(p) = Len(q)
    <3>1. p = q
      BY <2>1, <2>4, <1>0, SeqEqual
    <3> QED
      BY <3>1
  <2> QED
    BY <2>2, <2>3, <2>4, <1>0
<1>2. CASE D # {}
  <2>1. D \in SUBSET Nat
    BY <1>0
  <2>2. PICK c \in D : \A d \in D : c <= d
    BY <1>2, <2>1, LeastExists
  <2>3. ASSUME NEW d \in 1..(c - 1) PROVE p[d] = q[d]
    <3>1. c \in 1..Len(p) /\ c <= Len(q)
      BY <2>2
    <3>2. d \in 1..Len(p) /\ d <= Len(q) /\ ~(c <= d)
      BY <1>0, <3>1
    <3>3. d \notin D
      BY <2>2, <3>2
    <3> QED
      BY <3>2, <3>3
  <2>4. Differ(p, q, c) /\ c \in Nat
    BY <2>2, <2>3, <1>0 DEF Differ
  <2> QED
    BY <2>4
<1> QED
  BY <1>1, <1>2

LEMMA LessTotal ==
  ASSUME NEW p \in Seq(Nat), NEW q \in Seq(Nat), p # q
  PROVE  Less(p, q) \/ Less(q, p)
<1>0. /\ Len(p) \in Nat /\ \A c \in 1..Len(p) : p[c] \in Nat
      /\ Len(q) \in Nat /\ \A c \in 1..Len(q) : q[c] \in Nat
  BY SeqNat
<1>1. CASE isPrefixOf(p, q) /\ Len(p) < Len(q)
  BY <1>1 DEF Less
<1>2. CASE isPrefixOf(q, p) /\ Len(q) < Len(p)
  BY <1>2 DEF Less
<1>3. ASSUME NEW c \in Nat, Differ(p, q, c) PROVE Less(p, q) \/ Less(q, p)
  <2>1. /\ c \in 1..Len(p) /\ c \in 1..Len(q) /\ p[c] # q[c]
        /\ \A d \in 1..(c - 1) : p[d] = q[d]
    BY <1>3, <1>0 DEF Differ
  <2>2. p[c] < q[c] \/ q[c] < p[c]
    BY <2>1, <1>0
  <2>3. CASE p[c] < q[c]
    BY <2>1, <2>3, <1>0 DEF Less
  <2>4. CASE q[c] < p[c]
    BY <2>1, <2>4, <1>0 DEF Less
  <2> QED
    BY <2>2, <2>3, <2>4
<1> QED
  BY FirstDifference, <1>1, <1>2, <1>3

LEMMA LessTransitive ==
  ASSUME NEW p \in Seq(Nat), NEW q \in Seq(Nat), NEW r \in Seq(Nat), Less(p, q), Less(q, r)
  PROVE  Less(p, r)
<1> DEFINE At(x, y, c) == c \in 1..Len(x) /\ c <= Len(y) /\ x[c] < y[c] /\ \A d \in 1..(c - 1) : x[d] = y[d]
<1>0. /\ Len(p) \in Nat /\ \A c \in 1..Len(p) : p[c] \in Nat
      /\ Len(q) \in Nat /\ \A c \in 1..Len(q) : q[c] \in Nat
      /\ Len(r) \in Nat /\ \A c \in 1..Len(r) : r[c] \in Nat
  BY SeqNat
<1>1. CASE isPrefixOf(p, q) /\ Len(p) < Len(q) /\ isPrefixOf(q, r) /\ Len(q) < Len(r)
  BY <1>0, <1>1 DEF Less, isPrefixOf
<1>2. ASSUME isPrefixOf(p, q), Len(p) < Len(q), NEW c \in Nat, At(q, r, c) PROVE Less(p, r)
  <2>1. CASE c <= Len(p)
    <3>1. At(p, r, c)
      BY <1>0, <1>2, <2>1 DEF isPrefixOf
    <3> QED
      BY <3>1 DEF Less
  <2>2. CASE c > Len(p)
    <3>1. Len(p) < Len(r)
      BY <1>0, <1>2, <2>2
    <3>2. \A e \in 1..Len(p) : p[e] = q[e]
      BY <1>2 DEF isPrefixOf
    <3>3. \A e \in 1..Len(p) : q[e] = r[e]
      BY <1>0, <1>2, <2>2
    <3> QED
      BY <1>0, <3>1, <3>2, <3>3 DEF Less, isPrefixOf
  <2> QED
    BY <1>0, <2>1, <2>2
<1>3. ASSUME NEW c \in Nat, At(p, q, c), isPrefixOf(q, r), Len(q) < Len(r) PROVE Less(p, r)
  <2>1. At(p, r, c)
    BY <1>0, <1>3 DEF isPrefixOf
  <2> QED
    BY <2>1 DEF Less
<1>4. ASSUME NEW c \in Nat, At(p, q, c), NEW d \in Nat, At(q, r, d) PROVE Less(p, r)
  <2>1. CASE c <= d
    <3>1. c \in 1..Len(p) /\ c \in 1..Len(q) /\ c <= Len(r) /\ c \in 1..Len(r)
      BY <1>0, <1>4, <2>1
    <3>2. p[c] \in Nat /\ q[c] \in Nat /\ r[c] \in Nat /\ p[c] < q[c]
      BY <1>0, <1>4, <3>1
    <3>3. p[c] < r[c]
      <4>1. CASE c = d
        <5>1. q[c] < r[c]
          BY <1>4, <4>1
        <5> QED
          BY <3>2, <5>1
      <4>2. CASE c # d
        <5>1. c \in 1..(d - 1)
          BY <2>1, <3>1, <4>2
        <5>2. q[c] = r[c]
          BY <1>4, <5>1
        <5> QED
          BY <3>2, <5>2
      <4> QED
        BY <4>1, <4>2
    <3>4. ASSUME NEW e \in 1..(c - 1) PROVE p[e] = r[e]
      <4>1. p[e] = q[e]
        BY <1>4
      <4>2. e \in 1..(d - 1)
        BY <2>1
      <4> QED
        BY <4>1, <4>2, <1>4
    <3> QED
      BY <3>1, <3>3, <3>4 DEF Less
  <2>2. CASE d < c
    <3>1. d \in 1..Len(p) /\ d <= Len(r) /\ d \in 1..(c - 1)
      BY <1>0, <1>4, <2>2
    <3>2. p[d] < r[d]
      BY <1>4, <3>1
    <3>3. ASSUME NEW e \in 1..(d - 1) PROVE p[e] = r[e]
      <4>1. e \in 1..(c - 1)
        BY <2>2
      <4> QED
        BY <4>1, <1>4
    <3> QED
      BY <3>1, <3>2, <3>3 DEF Less
  <2> QED
    BY <2>1, <2>2
<1>5. (isPrefixOf(p, q) /\ Len(p) < Len(q)) \/ \E c \in Nat : At(p, q, c)
  BY <1>0 DEF Less
<1>6. (isPrefixOf(q, r) /\ Len(q) < Len(r)) \/ \E c \in Nat : At(q, r, c)
  BY <1>0 DEF Less
<1> QED
  BY <1>1, <1>2, <1>3, <1>4, <1>5, <1>6

\* Of two prefixes of one path the shorter one comes first.
LEMMA ShorterPrefixIsLess ==
  ASSUME NEW p \in Seq(Nat), NEW q \in Seq(Nat), NEW r \in Seq(Nat),
         isPrefixOf(p, r), isPrefixOf(q, r), Len(p) < Len(q)
  PROVE  Less(p, q)
BY SeqNat DEF Less, isPrefixOf

-----------------------------------------------------------------------------
(* The searches.                                                           *)

LEMMA AgentFacts ==
  ASSUME NEW av \in Seq(SCRSubAgent)
  PROVE  /\ Len(av) \in Nat
         /\ \A i \in 1..Len(av) :
              av[i] \in SCRSubAgent /\ av[i].path \in Seq(Nat) /\ av[i].comp \in Components \cup {0}
<1>1. Len(av) \in Nat /\ \A i \in 1..Len(av) : av[i] \in SCRSubAgent
  OBVIOUS
<1> QED
  BY <1>1 DEF SCRSubAgent

LEMMA LowerBoundFacts ==
  ASSUME NEW av \in Seq(SCRSubAgent), NEW p \in Seq(Nat)
  PROVE  /\ LowerBound(av, p) \in 1..(Len(av) + 1)
         /\ \A j \in 1..(LowerBound(av, p) - 1) : Less(av[j].path, p)
         /\ LowerBound(av, p) <= Len(av) => ~Less(av[LowerBound(av, p)].path, p)
<1> DEFINE S == {i \in 1..(Len(av) + 1) : i <= Len(av) => ~Less(av[i].path, p)}
<1>0. Len(av) \in Nat
  OBVIOUS
<1>1. S \in SUBSET Nat /\ S # {}
  <2>1. Len(av) + 1 \in S
    BY <1>0
  <2> QED
    BY <2>1, <1>0
<1>2. PICK i \in S : \A j \in S : i <= j
  BY <1>1, LeastExists, ZenonT(60)
<1>3. i \in 1..(Len(av) + 1) /\ (i <= Len(av) => ~Less(av[i].path, p))
  BY <1>2
<1>4. ASSUME NEW j \in 1..(i - 1) PROVE Less(av[j].path, p)
  <2>1. j \in 1..(Len(av) + 1) /\ j <= Len(av) /\ ~(i <= j)
    BY <1>0, <1>3
  <2>2. j \notin S
    BY <1>2, <2>1
  <2> QED
    BY <2>1, <2>2
<1>5. \E k \in 1..(Len(av) + 1) :
        /\ \A j \in 1..(k - 1) : Less(av[j].path, p)
        /\ k <= Len(av) => ~Less(av[k].path, p)
  BY <1>3, <1>4
<1> HIDE DEF S
<1> QED
  BY <1>5 DEF LowerBound

\* The binary search of findByPath finds the agent at p exactly if there is one.
LEMMA FindByPathFacts ==
  ASSUME NEW av \in Seq(SCRSubAgent), Sorted(av), NEW p \in Seq(Nat)
  PROVE  /\ findByPath(av, p) \in 0..Len(av)
         /\ findByPath(av, p) # 0 => av[findByPath(av, p)].path = p
         /\ findByPath(av, p) # 0 <=> p \in PathsOf(av)
<1> DEFINE i == LowerBound(av, p)
<1>0. Len(av) \in Nat /\ \A j \in 1..Len(av) : av[j].path \in Seq(Nat)
  BY AgentFacts
<1>1. /\ i \in 1..(Len(av) + 1)
      /\ \A j \in 1..(i - 1) : Less(av[j].path, p)
      /\ i <= Len(av) => ~Less(av[i].path, p)
  BY LowerBoundFacts
<1>2. findByPath(av, p) = IF i <= Len(av) /\ av[i].path = p THEN i ELSE 0
  BY DEF findByPath
<1> HIDE DEF i
<1>3. findByPath(av, p) \in 0..Len(av) /\ (findByPath(av, p) # 0 => av[findByPath(av, p)].path = p)
  BY <1>0, <1>1, <1>2
<1>4. ASSUME NEW j \in 1..Len(av), av[j].path = p PROVE findByPath(av, p) # 0
  <2>1. ~(j < i)
    <3>1. ASSUME j < i PROVE FALSE
      <4>1. Less(p, p)
        BY <1>0, <1>1, <1>4, <3>1
      <4> QED
        BY <4>1, LessIrreflexive
    <3> QED
      BY <3>1
  <2>2. ~(i < j)
    <3>1. ASSUME i < j PROVE FALSE
      <4>1. i \in 1..Len(av)
        BY <1>0, <1>1, <3>1
      <4>2. Less(av[i].path, av[j].path)
        BY <3>1, <4>1 DEF Sorted
      <4> QED
        BY <4>1, <4>2, <1>1, <1>4, <1>0
    <3> QED
      BY <3>1
  <2>3. i = j
    BY <2>1, <2>2, <1>0, <1>1
  <2> QED
    BY <2>3, <1>0, <1>2, <1>4
<1>5. p \in PathsOf(av) => findByPath(av, p) # 0
  BY <1>4 DEF PathsOf
<1>6. findByPath(av, p) # 0 => p \in PathsOf(av)
  BY <1>3, <1>0 DEF PathsOf
<1> QED
  BY <1>3, <1>5, <1>6

\* The search backwards of findSubagent returns the last agent with a prefix of p.
LEMMA FindSubagentFacts ==
  ASSUME NEW av \in Seq(SCRSubAgent), NEW p
  PROVE  /\ findSubagent(av, p) \in 0..Len(av)
         /\ findSubagent(av, p) # 0 => isPrefixOf(av[findSubagent(av, p)].path, p)
         /\ \A j \in 1..Len(av) :
              isPrefixOf(av[j].path, p) => findSubagent(av, p) # 0 /\ j <= findSubagent(av, p)
<1> DEFINE I == {i \in 1..Len(av) : isPrefixOf(av[i].path, p)}
<1>0. Len(av) \in Nat
  OBVIOUS
<1>1. findSubagent(av, p) = IF I # {} THEN Max(I) ELSE 0
  BY DEF findSubagent, SelectLastInSeq
<1>2. CASE I = {}
  BY <1>0, <1>1, <1>2
<1>3. CASE I # {}
  <2>1. I \in SUBSET (0..Len(av))
    BY <1>0
  <2>2. \E m \in I : \A j \in I : j <= m
    BY <1>0, <1>3, <2>1, GreatestExists, ZenonT(60)
  <2>3. \E m \in I : \A j \in I : m >= j
    BY <2>1, <2>2, <1>0
  <2>4. Max(I) \in I /\ \A j \in I : Max(I) >= j
    BY <2>3 DEF Max
  <2>5. Max(I) \in 1..Len(av) /\ isPrefixOf(av[Max(I)].path, p)
    BY <2>4
  <2>6. \A j \in 1..Len(av) : isPrefixOf(av[j].path, p) => j <= Max(I)
    BY <2>4, <2>5, <1>0
  <2>7. findSubagent(av, p) = Max(I)
    BY <1>1, <1>3
  <2> HIDE DEF I
  <2> QED
    BY <2>5, <2>6, <2>7, <1>0
<1> QED
  BY <1>2, <1>3

-----------------------------------------------------------------------------
(* Insertion and removal.                                                  *)

LEMMA InsertAtFacts ==
  ASSUME NEW s \in Seq(SCRSubAgent), NEW i \in 1..(Len(s) + 1), NEW e \in SCRSubAgent
  PROVE  /\ InsertAt(s, i, e) \in Seq(SCRSubAgent)
         /\ Len(InsertAt(s, i, e)) = Len(s) + 1
         /\ \A k \in 1..(i - 1) : InsertAt(s, i, e)[k] = s[k]
         /\ InsertAt(s, i, e)[i] = e
         /\ \A k \in (i + 1)..(Len(s) + 1) : InsertAt(s, i, e)[k] = s[k - 1]
<1> DEFINE a == SubSeq(s, 1, i - 1)
           b == SubSeq(s, i, Len(s))
           t == a \o <<e>>
<1>0. Len(s) \in Nat /\ \A k \in 1..Len(s) : s[k] \in SCRSubAgent
  OBVIOUS
<1>1. /\ a \in Seq(SCRSubAgent) /\ Len(a) = i - 1
      /\ \A k \in 1..(i - 1) : a[k] = s[k]
  <2>1. \A k \in 1..(i - 1) : s[k] \in SCRSubAgent
    BY <1>0
  <2>2. /\ a \in Seq(SCRSubAgent)
        /\ Len(a) = IF 1 <= i - 1 THEN (i - 1) - 1 + 1 ELSE 0
        /\ \A k \in 1..((i - 1) - 1 + 1) : a[k] = s[1 + k - 1]
    BY <2>1, <1>0, SubSeqProperties
  <2> HIDE DEF a
  <2> QED
    BY <2>2, <1>0
<1>2. /\ b \in Seq(SCRSubAgent) /\ Len(b) = Len(s) - i + 1
      /\ \A k \in 1..(Len(s) - i + 1) : b[k] = s[i + k - 1]
  <2>1. \A k \in i..Len(s) : s[k] \in SCRSubAgent
    BY <1>0
  <2>2. /\ b \in Seq(SCRSubAgent)
        /\ Len(b) = IF i <= Len(s) THEN Len(s) - i + 1 ELSE 0
        /\ \A k \in 1..(Len(s) - i + 1) : b[k] = s[i + k - 1]
    BY <2>1, <1>0, SubSeqProperties
  <2> HIDE DEF b
  <2> QED
    BY <2>2, <1>0
<1>3. InsertAt(s, i, e) = t \o b
  BY DEF InsertAt
<1>4. <<e>> \in Seq(SCRSubAgent) /\ Len(<<e>>) = 1 /\ <<e>>[1] = e
  OBVIOUS
<1> HIDE DEF a, b
<1>5. /\ t \in Seq(SCRSubAgent) /\ Len(t) = i
      /\ \A k \in 1..(i - 1) : t[k] = s[k]
      /\ t[i] = e
  <2>1. /\ t \in Seq(SCRSubAgent) /\ Len(t) = Len(a) + 1
        /\ \A k \in 1..(Len(a) + 1) : t[k] = IF k <= Len(a) THEN a[k] ELSE <<e>>[k - Len(a)]
    BY <1>1, <1>4, ConcatProperties, ZenonT(60)
  <2> HIDE DEF t
  <2>2. t[i] = <<e>>[1]
    BY <2>1, <1>1, <1>0
  <2> QED
    BY <2>1, <2>2, <1>1, <1>4, <1>0
<1> HIDE DEF t
<1>6. /\ t \o b \in Seq(SCRSubAgent) /\ Len(t \o b) = Len(t) + Len(b)
      /\ \A k \in 1..(Len(t) + Len(b)) : (t \o b)[k] = IF k <= Len(t) THEN t[k] ELSE b[k - Len(t)]
  BY <1>2, <1>5, ConcatProperties
<1>7. \A k \in (i + 1)..(Len(s) + 1) : (t \o b)[k] = s[k - 1]
  <2>1. ASSUME NEW k \in (i + 1)..(Len(s) + 1) PROVE (t \o b)[k] = s[k - 1]
    <3>1. (t \o b)[k] = b[k - i] /\ k - i \in 1..(Len(s) - i + 1) /\ i + (k - i) - 1 = k - 1
      BY <1>0, <1>2, <1>5, <1>6
    <3> QED
      BY <3>1, <1>2
  <2> QED
    BY <2>1
<1> QED
  BY <1>0, <1>2, <1>3, <1>5, <1>6, <1>7

LEMMA RemoveAtFacts ==
  ASSUME NEW S, NEW s \in Seq(S), NEW i \in 1..Len(s)
  PROVE  /\ RemoveAt(s, i) \in Seq(S)
         /\ Len(RemoveAt(s, i)) = Len(s) - 1
         /\ \A k \in 1..(i - 1) : RemoveAt(s, i)[k] = s[k]
         /\ \A k \in i..(Len(s) - 1) : RemoveAt(s, i)[k] = s[k + 1]
<1> DEFINE a == SubSeq(s, 1, i - 1)
           b == SubSeq(s, i + 1, Len(s))
<1>0. Len(s) \in Nat /\ \A k \in 1..Len(s) : s[k] \in S
  OBVIOUS
<1>1. /\ a \in Seq(S) /\ Len(a) = i - 1
      /\ \A k \in 1..(i - 1) : a[k] = s[k]
  <2>1. \A k \in 1..(i - 1) : s[k] \in S
    BY <1>0
  <2>2. /\ a \in Seq(S)
        /\ Len(a) = IF 1 <= i - 1 THEN (i - 1) - 1 + 1 ELSE 0
        /\ \A k \in 1..((i - 1) - 1 + 1) : a[k] = s[1 + k - 1]
    BY <2>1, <1>0, SubSeqProperties
  <2> HIDE DEF a
  <2> QED
    BY <2>2, <1>0
<1>2. /\ b \in Seq(S) /\ Len(b) = Len(s) - i
      /\ \A k \in 1..(Len(s) - i) : b[k] = s[i + k]
  <2>1. \A k \in (i + 1)..Len(s) : s[k] \in S
    BY <1>0
  <2>2. /\ b \in Seq(S)
        /\ Len(b) = IF i + 1 <= Len(s) THEN Len(s) - (i + 1) + 1 ELSE 0
        /\ \A k \in 1..(Len(s) - (i + 1) + 1) : b[k] = s[i + 1 + k - 1]
    BY <2>1, <1>0, SubSeqProperties
  <2> HIDE DEF b
  <2> QED
    BY <2>2, <1>0
<1>3. RemoveAt(s, i) = a \o b
  BY DEF RemoveAt
<1> HIDE DEF a, b
<1>4. /\ a \o b \in Seq(S) /\ Len(a \o b) = Len(a) + Len(b)
      /\ \A k \in 1..(Len(a) + Len(b)) : (a \o b)[k] = IF k <= Len(a) THEN a[k] ELSE b[k - Len(a)]
  BY <1>1, <1>2, ConcatProperties
<1>5. \A k \in i..(Len(s) - 1) : (a \o b)[k] = s[k + 1]
  <2>1. ASSUME NEW k \in i..(Len(s) - 1) PROVE (a \o b)[k] = s[k + 1]
    <3>1. (a \o b)[k] = b[k - (i - 1)] /\ k - (i - 1) \in 1..(Len(s) - i) /\ i + (k - (i - 1)) = k + 1
      BY <1>0, <1>1, <1>2, <1>4
    <3> QED
      BY <3>1, <1>2
  <2> QED
    BY <2>1
<1> QED
  BY <1>0, <1>1, <1>2, <1>3, <1>4, <1>5

-----------------------------------------------------------------------------
(* What holds of the vector and of the components between two operations.  *)

Owned(av, cs) ==
  /\ cs = Comps(av) \ {0}
  /\ \A i, j \in 1..Len(av) : av[i].comp = av[j].comp /\ av[i].comp # 0 => i = j

AgentsOK(av, cs) == av \in Seq(SCRSubAgent) /\ Sorted(av) /\ cs \subseteq Components /\ Owned(av, cs)

LEMMA InsertOK ==
  ASSUME NEW av, NEW cs, AgentsOK(av, cs),
         NEW p \in Seq(Nat), p \notin PathsOf(av), NEW v \in RegisteredValues
  PROVE  /\ AgentsOK(Insert(av, NewAgent(p, v)), cs)
         /\ PathsOf(Insert(av, NewAgent(p, v))) = PathsOf(av) \cup {p}
<1> DEFINE a == NewAgent(p, v)
           i == LowerBound(av, p)
           bs == Insert(av, a)
<1>0. av \in Seq(SCRSubAgent) /\ Sorted(av) /\ cs \subseteq Components /\ Owned(av, cs)
  BY DEF AgentsOK
<1>1. Len(av) \in Nat /\ \A k \in 1..Len(av) : av[k].path \in Seq(Nat)
  BY <1>0, AgentFacts
<1>2. a \in SCRSubAgent /\ a.path = p /\ a.comp = 0
  BY DEF NewAgent, SCRSubAgent
<1>3. /\ i \in 1..(Len(av) + 1)
      /\ \A j \in 1..(i - 1) : Less(av[j].path, p)
      /\ i <= Len(av) => ~Less(av[i].path, p)
  BY <1>0, LowerBoundFacts
<1>4. bs = InsertAt(av, i, a)
  BY <1>2 DEF Insert
<1> HIDE DEF a, i, bs
<1>5. /\ bs \in Seq(SCRSubAgent)
      /\ Len(bs) = Len(av) + 1
      /\ \A k \in 1..(i - 1) : bs[k] = av[k]
      /\ bs[i] = a
      /\ \A k \in (i + 1)..(Len(av) + 1) : bs[k] = av[k - 1]
  <2>1. av \in Seq(SCRSubAgent) /\ a \in SCRSubAgent /\ i \in 1..(Len(av) + 1)
    BY <1>0, <1>2, <1>3
  <2>2. /\ InsertAt(av, i, a) \in Seq(SCRSubAgent)
        /\ Len(InsertAt(av, i, a)) = Len(av) + 1
        /\ \A k \in 1..(i - 1) : InsertAt(av, i, a)[k] = av[k]
        /\ InsertAt(av, i, a)[i] = a
        /\ \A k \in (i + 1)..(Len(av) + 1) : InsertAt(av, i, a)[k] = av[k - 1]
    BY <2>1, InsertAtFacts
  <2> QED
    BY <1>4, <2>2
<1>6. \A k \in i..Len(av) : Less(p, av[k].path)
  <2>1. ASSUME NEW k \in i..Len(av) PROVE Less(p, av[k].path)
    <3>1. i \in 1..Len(av) /\ k \in 1..Len(av)
      BY <1>1, <1>3
    <3>2. av[i].path # p
      BY <3>1 DEF PathsOf
    <3>3. Less(p, av[i].path)
      BY <3>1, <3>2, <1>1, <1>3, LessTotal
    <3>4. CASE k = i
      BY <3>3, <3>4
    <3>5. CASE i < k
      <4>1. Less(av[i].path, av[k].path)
        BY <1>0, <3>1, <3>5 DEF Sorted
      <4> QED
        BY <4>1, <3>1, <3>3, <1>1, LessTransitive
    <3> QED
      BY <3>1, <3>4, <3>5
  <2> QED
    BY <2>1
<1>7. Sorted(bs)
  <2>1. ASSUME NEW j \in 1..Len(bs), NEW k \in 1..Len(bs), j < k
        PROVE  Less(bs[j].path, bs[k].path)
    <3>1. CASE k < i
      <4>1. j \in 1..Len(av) /\ k \in 1..Len(av) /\ bs[j] = av[j] /\ bs[k] = av[k]
        BY <1>1, <1>3, <1>5, <2>1, <3>1
      <4> QED
        BY <4>1, <1>0, <2>1 DEF Sorted
    <3>2. CASE k = i
      <4>1. bs[j] = av[j] /\ bs[k] = a /\ j \in 1..(i - 1)
        BY <1>1, <1>3, <1>5, <2>1, <3>2
      <4> QED
        BY <4>1, <1>2, <1>3
    <3>3. CASE i < k
      <4>1. bs[k] = av[k - 1] /\ k - 1 \in i..Len(av) /\ k - 1 \in 1..Len(av)
        BY <1>1, <1>3, <1>5, <2>1, <3>3
      <4>2. CASE j = i
        BY <4>1, <4>2, <1>2, <1>5, <1>6
      <4>3. CASE j < i
        <5>1. bs[j] = av[j] /\ j \in 1..Len(av) /\ j < k - 1
          BY <1>1, <1>3, <1>5, <2>1, <3>3, <4>3
        <5> QED
          BY <5>1, <4>1, <1>0 DEF Sorted
      <4>4. CASE i < j
        <5>1. bs[j] = av[j - 1] /\ j - 1 \in 1..Len(av) /\ j - 1 < k - 1
          BY <1>1, <1>3, <1>5, <2>1, <3>3, <4>4
        <5> QED
          BY <5>1, <4>1, <1>0 DEF Sorted
      <4> QED
        BY <4>2, <4>3, <4>4, <1>3, <2>1
    <3> QED
      BY <3>1, <3>2, <3>3, <1>3, <2>1
  <2> QED
    BY <2>1 DEF Sorted
<1>8. \A k \in 1..Len(bs) : bs[k] = a \/ \E j \in 1..Len(av) : bs[k] = av[j]
  <2>1. ASSUME NEW k \in 1..Len(bs) PROVE bs[k] = a \/ \E j \in 1..Len(av) : bs[k] = av[j]
    <3>1. CASE k < i
      <4>1. k \in 1..(i - 1) /\ k \in 1..Len(av)
        BY <3>1, <1>1, <1>3, <1>5
      <4>2. bs[k] = av[k]
        BY <4>1, <1>5
      <4> QED
        BY <4>1, <4>2
    <3>2. CASE i < k
      <4>1. bs[k] = av[k - 1] /\ k - 1 \in 1..Len(av)
        BY <3>2, <1>1, <1>3, <1>5
      <4> QED
        BY <4>1
    <3> QED
      BY <3>1, <3>2, <1>3, <1>5
  <2> QED
    BY <2>1
<1>9. \A j \in 1..Len(av) : \E k \in 1..Len(bs) : bs[k] = av[j]
  <2>1. ASSUME NEW j \in 1..Len(av) PROVE \E k \in 1..Len(bs) : bs[k] = av[j]
    <3>1. CASE j < i
      <4>1. bs[j] = av[j] /\ j \in 1..Len(bs)
        BY <3>1, <1>1, <1>3, <1>5
      <4> QED
        BY <4>1
    <3>2. CASE i <= j
      <4>1. j + 1 \in (i + 1)..(Len(av) + 1) /\ j + 1 \in 1..Len(bs) /\ (j + 1) - 1 = j
        BY <3>2, <1>1, <1>3, <1>5
      <4>2. bs[j + 1] = av[(j + 1) - 1]
        BY <4>1, <1>5
      <4> QED
        BY <4>1, <4>2
    <3> QED
      BY <3>1, <3>2, <1>3
  <2> QED
    BY <2>1
<1>10. i \in 1..Len(bs) /\ bs[i] = a
  BY <1>1, <1>3, <1>5
<1>11. PathsOf(bs) = PathsOf(av) \cup {p}
  <2>1. PathsOf(bs) \subseteq PathsOf(av) \cup {p}
    BY <1>8, <1>2 DEF PathsOf
  <2>2. PathsOf(av) \subseteq PathsOf(bs)
    BY <1>9 DEF PathsOf
  <2>3. p \in PathsOf(bs)
    BY <1>10, <1>2 DEF PathsOf
  <2> QED
    BY <2>1, <2>2, <2>3
<1>12. Comps(bs) \ {0} = Comps(av) \ {0}
  <2>1. Comps(bs) \subseteq Comps(av) \cup {0}
    BY <1>8, <1>2 DEF Comps
  <2>2. Comps(av) \subseteq Comps(bs)
    BY <1>9, ZenonT(60) DEF Comps
  <2> QED
    BY <2>1, <2>2
<1>13. ASSUME NEW j \in 1..Len(bs), NEW k \in 1..Len(bs), bs[j].comp = bs[k].comp, bs[j].comp # 0
       PROVE  j = k
  <2>1. \A m, n \in 1..Len(av) : av[m].comp = av[n].comp /\ av[m].comp # 0 => m = n
    BY <1>0 DEF Owned
  <2>2. j # i /\ k # i
    BY <1>13, <1>10, <1>2
  <2> DEFINE was(x) == IF x < i THEN x ELSE x - 1
  <2>3. was(j) \in 1..Len(av) /\ bs[j] = av[was(j)]
    BY <2>2, <1>1, <1>3, <1>5
  <2>4. was(k) \in 1..Len(av) /\ bs[k] = av[was(k)]
    BY <2>2, <1>1, <1>3, <1>5
  <2>5. was(j) = was(k)
    <3> HIDE DEF was
    <3> QED
      BY <2>1, <2>3, <2>4, <1>13
  <2> QED
    BY <2>5, <2>2, <1>3, <1>5, <1>1
<1>14. Owned(bs, cs)
  BY <1>0, <1>12, <1>13 DEF Owned
<1> QED
  BY <1>0, <1>5, <1>7, <1>11, <1>14 DEF AgentsOK, bs, a

\* Removal (erase) of the agent at a position.
LEMMA RemoveOK ==
  ASSUME NEW av, NEW cs, AgentsOK(av, cs), NEW i \in 1..Len(av)
  PROVE  /\ AgentsOK(RemoveAt(av, i), cs \ {av[i].comp})
         /\ PathsOf(RemoveAt(av, i)) = PathsOf(av) \ {av[i].path}
<1> DEFINE bs == RemoveAt(av, i)
<1>0. av \in Seq(SCRSubAgent) /\ Sorted(av) /\ cs \subseteq Components /\ Owned(av, cs)
  BY DEF AgentsOK
<1>1. Len(av) \in Nat /\ \A k \in 1..Len(av) : av[k].path \in Seq(Nat)
  BY <1>0, AgentFacts
<1>2. /\ bs \in Seq(SCRSubAgent)
      /\ Len(bs) = Len(av) - 1
      /\ \A k \in 1..(i - 1) : bs[k] = av[k]
      /\ \A k \in i..(Len(av) - 1) : bs[k] = av[k + 1]
  BY <1>0, RemoveAtFacts
<1> HIDE DEF bs
<1> DEFINE was(x) == IF x < i THEN x ELSE x + 1
<1>3. \A k \in 1..Len(bs) : was(k) \in 1..Len(av) /\ was(k) # i /\ bs[k] = av[was(k)]
  BY <1>1, <1>2
<1>4. \A j, k \in 1..Len(bs) : j < k => was(j) < was(k)
  BY <1>1, <1>2
<1>5. \A j \in 1..Len(av) : j # i => \E k \in 1..Len(bs) : bs[k] = av[j]
  <2>1. ASSUME NEW j \in 1..Len(av), j # i PROVE \E k \in 1..Len(bs) : bs[k] = av[j]
    <3>1. CASE j < i
      <4>1. bs[j] = av[j] /\ j \in 1..Len(bs)
        BY <3>1, <1>1, <1>2
      <4> QED
        BY <4>1
    <3>2. CASE i < j
      <4>1. j - 1 \in i..(Len(av) - 1) /\ j - 1 \in 1..Len(bs) /\ (j - 1) + 1 = j
        BY <3>2, <1>1, <1>2
      <4>2. bs[j - 1] = av[(j - 1) + 1]
        BY <4>1, <1>2
      <4> QED
        BY <4>1, <4>2
    <3> QED
      BY <2>1, <3>1, <3>2
  <2> QED
    BY <2>1
<1> HIDE DEF was
<1>6. Sorted(bs)
  BY <1>0, <1>3, <1>4 DEF Sorted
<1>7. \A j \in 1..Len(av) : av[j].path = av[i].path => j = i
  <2>1. ASSUME NEW j \in 1..Len(av), av[j].path = av[i].path, j # i PROVE FALSE
    <3>1. Less(av[j].path, av[i].path) \/ Less(av[i].path, av[j].path)
      BY <1>0, <1>1, <2>1 DEF Sorted
    <3> QED
      BY <3>1, <2>1, <1>1, LessIrreflexive
  <2> QED
    BY <2>1
<1>8. PathsOf(bs) = PathsOf(av) \ {av[i].path}
  <2>1. PathsOf(bs) \subseteq PathsOf(av) \ {av[i].path}
    BY <1>3, <1>7 DEF PathsOf
  <2>2. PathsOf(av) \ {av[i].path} \subseteq PathsOf(bs)
    BY <1>5 DEF PathsOf
  <2> QED
    BY <2>1, <2>2
<1>9. \A m, n \in 1..Len(av) : av[m].comp = av[n].comp /\ av[m].comp # 0 => m = n
  BY <1>0 DEF Owned
<1>10. Comps(bs) \ {0} = (Comps(av) \ {0}) \ {av[i].comp}
  <2>1. Comps(bs) \ {0} \subseteq (Comps(av) \ {0}) \ {av[i].comp}
    BY <1>3, <1>9 DEF Comps
  <2>2. (Comps(av) \ {0}) \ {av[i].comp} \subseteq Comps(bs)
    BY <1>5 DEF Comps
  <2> QED
    BY <2>1, <2>2
<1>11. ASSUME NEW j \in 1..Len(bs), NEW k \in 1..Len(bs), bs[j].comp = bs[k].comp, bs[j].comp # 0
       PROVE  j = k
  <2>1. was(j) = was(k)
    BY <1>3, <1>9, <1>11, ZenonT(60)
  <2>2. was(j) \in 1..Len(av) /\ was(k) \in 1..Len(av)
    BY <1>3
  <2> QED
    BY <2>1, <2>2, <1>1, <1>2, <1>4
<1>12. Owned(bs, cs \ {av[i].comp})
  BY <1>0, <1>10, <1>11 DEF Owned
<1> QED
  BY <1>0, <1>2, <1>6, <1>8, <1>12 DEF AgentsOK, bs

\* Replacing the components of agents changes neither the paths nor their order.
LEMMA SamePathsOK ==
  ASSUME NEW av \in Seq(SCRSubAgent), NEW bs \in Seq(SCRSubAgent), Sorted(av),
         Len(bs) = Len(av), \A k \in 1..Len(av) : bs[k].path = av[k].path
  PROVE  Sorted(bs) /\ PathsOf(bs) = PathsOf(av)
<1>1. Sorted(bs)
  BY DEF Sorted
<1>2. PathsOf(bs) = PathsOf(av)
  BY DEF PathsOf
<1> QED
  BY <1>1, <1>2

LEMMA ReplaceOK ==
  ASSUME NEW av, NEW cs, AgentsOK(av, cs), NEW p \in Seq(Nat)
  PROVE  /\ AgentsOK(Replace(av, p), cs \ Replaced(av, p))
         /\ PathsOf(Replace(av, p)) = PathsOf(av) \ {p}
<1> DEFINE i == findByPath(av, p)
<1>0. av \in Seq(SCRSubAgent) /\ Sorted(av)
  BY DEF AgentsOK
<1>1. i \in 0..Len(av) /\ (i # 0 => av[i].path = p) /\ (i # 0 <=> p \in PathsOf(av))
  BY <1>0, FindByPathFacts
<1>2. /\ Replace(av, p) = IF i = 0 THEN av ELSE RemoveAt(av, i)
      /\ Replaced(av, p) = IF i = 0 THEN {} ELSE {av[i].comp}
  BY DEF Replace, Replaced
<1> HIDE DEF i
<1>3. CASE i = 0
  <2>1. cs \ {} = cs /\ PathsOf(av) \ {p} = PathsOf(av)
    BY <1>1, <1>3
  <2> QED
    BY <1>2, <1>3, <2>1
<1>4. CASE i # 0
  <2>1. i \in 1..Len(av)
    BY <1>1, <1>4
  <2> QED
    BY <1>1, <1>2, <1>4, <2>1, RemoveOK
<1> QED
  BY <1>3, <1>4

LEMMA FileFacts ==
  ASSUME NEW f \in FileSet
  PROVE  FilePath[f] \in Seq(Nat) /\ f \in RegisteredValues
BY ScrAssumption DEF RegisteredValues

LEMMA ParseOK ==
  ASSUME NEW av, NEW cs, AgentsOK(av, cs), NEW f \in FileSet
  PROVE  /\ AgentsOK(parseSingleConfigFile(av, f), cs)
         /\ PathsOf(av) \subseteq PathsOf(parseSingleConfigFile(av, f))
         /\ f \in disk => FilePath[f] \in PathsOf(parseSingleConfigFile(av, f))
<1>0. av \in Seq(SCRSubAgent) /\ Sorted(av)
  BY DEF AgentsOK
<1>1. FilePath[f] \in Seq(Nat) /\ f \in RegisteredValues
  BY FileFacts
<1>2. findByPath(av, FilePath[f]) # 0 <=> FilePath[f] \in PathsOf(av)
  BY <1>0, <1>1, FindByPathFacts
<1>3. CASE f \in disk /\ findByPath(av, FilePath[f]) = 0
  <2>1. parseSingleConfigFile(av, f) = Insert(av, NewAgent(FilePath[f], f))
    BY <1>3 DEF parseSingleConfigFile
  <2> QED
    BY <1>1, <1>2, <1>3, <2>1, InsertOK
<1>4. CASE ~(f \in disk /\ findByPath(av, FilePath[f]) = 0)
  <2>1. parseSingleConfigFile(av, f) = av
    BY <1>4 DEF parseSingleConfigFile
  <2> QED
    BY <1>2, <1>4, <2>1
<1> QED
  BY <1>3, <1>4

LEMMA TryRegisterOK ==
  ASSUME NEW av, NEW cs, AgentsOK(av, cs), NEW p
  PROVE  /\ AgentsOK(tryRegister(av, p), cs)
         /\ PathsOf(av) \subseteq PathsOf(tryRegister(av, p))
<1> DEFINE I == {i \in 1..Len(Files) : Files[i] \in disk /\ Basename[Files[i]] = Guess(p)}
           k == IF I # {} THEN Min(I) ELSE 0
<1>0. Len(Files) \in Nat
  BY ScrAssumption
<1>1. tryRegister(av, p) = IF k = 0 THEN av ELSE parseSingleConfigFile(av, Files[k])
  BY DEF tryRegister, SelectInSeq
<1>2. k \in 0..Len(Files)
  <2>1. CASE I = {}
    BY <2>1, <1>0
  <2>2. CASE I # {}
    <3>1. I \in SUBSET Nat
      BY <1>0
    <3>2. \E m \in I : \A j \in I : m <= j
      BY <2>2, <3>1, LeastExists, ZenonT(60)
    <3>3. Min(I) \in I
      BY <3>2 DEF Min
    <3> QED
      BY <2>2, <3>3, <1>0
  <2> QED
    BY <2>1, <2>2
<1> HIDE DEF k
<1>3. CASE k = 0
  BY <1>1, <1>3
<1>4. CASE k # 0
  <2>1. Files[k] \in FileSet
    BY <1>0, <1>2, <1>4 DEF FileSet
  <2> QED
    BY <1>1, <1>4, <2>1, ParseOK
<1> QED
  BY <1>3, <1>4

\* mount gives the agent a component of its own, or leaves everything as it is.
LEMMA MountOK ==
  ASSUME AgentsOK(agents, components), NEW i \in 1..Len(agents), Mount(i)
  PROVE  /\ AgentsOK(agents', components')
         /\ PathsOf(agents') = PathsOf(agents)
         /\ Len(agents') = Len(agents)
<1>0. /\ agents \in Seq(SCRSubAgent) /\ Sorted(agents) /\ components \subseteq Components
      /\ Owned(agents, components)
  BY DEF AgentsOK
<1>1. CASE agents' = agents /\ components' = components
  BY <1>1
<1>2. ASSUME NEW c \in Components \ components, agents[i].comp = 0,
             agents' = [agents EXCEPT ![i].comp = c], components' = components \cup {c}
      PROVE  /\ AgentsOK(agents', components')
             /\ PathsOf(agents') = PathsOf(agents)
             /\ Len(agents') = Len(agents)
  <2> DEFINE e == [agents[i] EXCEPT !.comp = c]
  <2>0. Len(agents) \in Nat /\ \A k \in 1..Len(agents) : agents[k] \in SCRSubAgent
    BY <1>0
  <2>1. e \in SCRSubAgent /\ e.path = agents[i].path /\ e.comp = c
    BY <2>0 DEF SCRSubAgent
  <2>2. agents' = [agents EXCEPT ![i] = e]
    BY <1>2
  <2> HIDE DEF e
  <2>3. /\ agents' \in Seq(SCRSubAgent) /\ Len(agents') = Len(agents)
        /\ \A k \in 1..Len(agents) : agents'[k] = IF k = i THEN e ELSE agents[k]
    BY <2>1, <2>2, <1>0, ExceptSeq
  <2>4. \A k \in 1..Len(agents) : agents'[k].path = agents[k].path
    BY <2>1, <2>3
  <2>5. Sorted(agents') /\ PathsOf(agents') = PathsOf(agents)
    BY <1>0, <2>3, <2>4, SamePathsOK
  <2>6. c # 0 /\ c \notin Comps(agents) /\ components = Comps(agents) \ {0}
    BY <1>0, <1>2, ScrAssumption DEF Owned
  <2>7. agents'[i].comp = c /\ \A k \in 1..Len(agents) : k # i => agents'[k].comp = agents[k].comp
    BY <2>1, <2>3
  <2>8. components' = Comps(agents') \ {0}
    <3>1. Comps(agents') \subseteq Comps(agents) \cup {c}
      BY <2>3, <2>7 DEF Comps
    <3>2. c \in Comps(agents')
      BY <2>3, <2>7 DEF Comps
    <3>3. Comps(agents) \ {0} \subseteq Comps(agents')
      BY <2>3, <2>7, <1>2 DEF Comps
    <3> QED
      BY <3>1, <3>2, <3>3, <2>6, <1>2, ZenonT(60)
  <2>9. \A k \in 1..Len(agents) : agents[k].comp # c
    BY <2>6 DEF Comps
  <2>10. ASSUME NEW j \in 1..Len(agents'), NEW k \in 1..Len(agents'),
                agents'[j].comp = agents'[k].comp, agents'[j].comp # 0
         PROVE  j = k
    <3>1. j \in 1..Len(agents) /\ k \in 1..Len(agents)
      BY <2>3
    <3>2. \A m, n \in 1..Len(agents) : agents[m].comp = agents[n].comp /\ agents[m].comp # 0 => m = n
      BY <1>0 DEF Owned
    <3> QED
      BY <3>1, <3>2, <2>7, <2>9, <2>10
  <2>11. Owned(agents', components')
    BY <2>8, <2>10 DEF Owned
  <2>12. components' \subseteq Components
    BY <1>0, <1>2
  <2> QED
    BY <2>3, <2>5, <2>11, <2>12 DEF AgentsOK
<1> QED
  BY <1>1, <1>2 DEF Mount

\* unmount of the agent at i deletes its component and no other.
LEMMA UnmountOK ==
  ASSUME AgentsOK(agents, components), NEW i \in 1..Len(agents),
         agents' = [agents EXCEPT ![i].comp = 0], components' = components \ {agents[i].comp}
  PROVE  AgentsOK(agents', components') /\ PathsOf(agents') = PathsOf(agents)
<1> DEFINE e == [agents[i] EXCEPT !.comp = 0]
<1>0. /\ agents \in Seq(SCRSubAgent) /\ Sorted(agents) /\ components \subseteq Components
      /\ Owned(agents, components)
  BY DEF AgentsOK
<1>1. Len(agents) \in Nat /\ \A k \in 1..Len(agents) : agents[k] \in SCRSubAgent
  BY <1>0
<1>2. e \in SCRSubAgent /\ e.path = agents[i].path /\ e.comp = 0
  BY <1>1 DEF SCRSubAgent
<1>3. agents' = [agents EXCEPT ![i] = e]
  OBVIOUS
<1> HIDE DEF e
<1>4. /\ agents' \in Seq(SCRSubAgent) /\ Len(agents') = Len(agents)
      /\ \A k \in 1..Len(agents) : agents'[k] = IF k = i THEN e ELSE agents[k]
  BY <1>2, <1>3, <1>0, ExceptSeq
<1>5. \A k \in 1..Len(agents) : agents'[k].path = agents[k].path
  BY <1>2, <1>4
<1>6. Sorted(agents') /\ PathsOf(agents') = PathsOf(agents)
  BY <1>0, <1>4, <1>5, SamePathsOK
<1>7. agents'[i].comp = 0 /\ \A k \in 1..Len(agents) : k # i => agents'[k].comp = agents[k].comp
  BY <1>2, <1>4
<1>8. /\ components = Comps(agents) \ {0}
      /\ \A m, n \in 1..Len(agents) : agents[m].comp = agents[n].comp /\ agents[m].comp # 0 => m = n
  BY <1>0 DEF Owned
<1>9. components' = Comps(agents') \ {0}
  <2>1. Comps(agents') \ {0} \subseteq (Comps(agents) \ {0}) \ {agents[i].comp}
    BY <1>4, <1>7, <1>8 DEF Comps
  <2>2. (Comps(agents) \ {0}) \ {agents[i].comp} \subseteq Comps(agents')
    BY <1>4, <1>7 DEF Comps
  <2> QED
    BY <2>1, <2>2, <1>8, ZenonT(60)
<1>10. \A m, n \in 1..Len(agents') : agents'[m].comp = agents'[n].comp /\ agents'[m].comp # 0 => m = n
  BY <1>4, <1>7, <1>8
<1>11. Owned(agents', components')
  BY <1>9, <1>10, ZenonT(60) DEF Owned
<1> QED
  BY <1>0, <1>4, <1>6, <1>11 DEF AgentsOK

LEMMA UnmountAllOK ==
  ASSUME NEW av, NEW cs, AgentsOK(av, cs), NEW bs \in Seq(SCRSubAgent), Len(bs) = Len(av),
         \A k \in 1..Len(av) : bs[k].path = av[k].path /\ bs[k].comp = 0
  PROVE  AgentsOK(bs, cs \ Comps(av)) /\ PathsOf(bs) = PathsOf(av)
<1>0. av \in Seq(SCRSubAgent) /\ Sorted(av) /\ cs \subseteq Components /\ Owned(av, cs)
  BY DEF AgentsOK
<1>1. Sorted(bs) /\ PathsOf(bs) = PathsOf(av)
  BY <1>0, SamePathsOK
<1>2. cs \ Comps(av) = {}
  BY <1>0 DEF Owned
<1>3. Comps(bs) \subseteq {0}
  BY DEF Comps
<1>4. Owned(bs, cs \ Comps(av))
  BY <1>2, <1>3 DEF Owned
<1> QED
  BY <1>1, <1>2, <1>4 DEF AgentsOK

-----------------------------------------------------------------------------
(* The inductive invariant.                                                *)

Typed == done_sweep \in BOOLEAN /\ stale \in BOOLEAN /\ disk \subseteq FileSet /\ TaskOK

\* What a command has found out still holds when it is used.
AnswerIsCurrent ==
  /\ task.kind = "found" => findSubagent(agents, task.path) # 0
  /\ task.kind = "missing" => findSubagent(agents, task.path) = 0

\* A sweep has registered the files it has passed.
SweptSoFar ==
  task.kind = "sweep" /\ ~stale =>
    \A m \in 1..(task.pos - 1) : Files[m] \in disk => FilePath[Files[m]] \in PathsOf(agents)

\* A sweep that has ended has registered every file.
SweptAll ==
  done_sweep /\ ~stale /\ task.kind # "sweep" => \A f \in disk : FilePath[f] \in PathsOf(agents)

IInv == AgentsOK(agents, components) /\ Typed /\ AnswerIsCurrent /\ SweptSoFar /\ SweptAll

\* The forms in which the run checks them.
LEMMA AgentsOKMeans ==
  AgentsOK(agents, components) /\ Typed <=> RegistryIsSound /\ ComponentsBelongToAgents
BY DEF AgentsOK, Owned, Typed, RegistryIsSound, TypeOK, AgentsSorted, ComponentsBelongToAgents

LEMMA IdleKind == Idle.kind = "idle"
BY DEF Idle

LEMMA BusyTask ==
  ASSUME TaskOK, task.kind \in Kinds
  PROVE  /\ task \in [kind : Kinds, command : Commands, path : Seq(Nat), pos : Nat]
         /\ task.kind = "guess" => task.pos \in 0..Len(task.path)
         /\ task.kind = "sweep" => task.pos \in 1..(Len(Files) + 1)
         /\ task.kind = "mount" => task.pos \in 1..Len(agents)
<1>1. task # Idle
  BY IdleKind DEF Kinds
<1> QED
  BY <1>1 DEF TaskOK

LEMMA InitIInv == Init => IInv
<1> SUFFICES ASSUME Init PROVE IInv
  OBVIOUS
<1>1. AgentsOK(agents, components)
  <2>1. agents \in Seq(SCRSubAgent) /\ Len(agents) = 0 /\ components = {}
    BY DEF Init
  <2>2. Comps(agents) = {}
    BY <2>1 DEF Comps
  <2> QED
    BY <2>1, <2>2 DEF AgentsOK, Owned, Sorted
<1>2. Typed
  BY ZenonT(60) DEF Init, Typed, TaskOK
<1>3. task.kind = "idle" /\ ~done_sweep
  BY IdleKind DEF Init
<1> QED
  BY <1>1, <1>2, <1>3 DEF IInv, AnswerIsCurrent, SweptSoFar, SweptAll

\* An operation on an idle agent that leaves it idle and takes away no path.
LEMMA IdleStep ==
  ASSUME IInv, task = Idle, task' = Idle, disk' = disk,
         AgentsOK(agents', components'),
         done_sweep' \in BOOLEAN, stale' \in BOOLEAN,
         stale' \/ (done_sweep' = done_sweep /\ stale' = stale /\ PathsOf(agents) \subseteq PathsOf(agents'))
  PROVE  IInv'
<1>1. Typed'
  BY DEF IInv, Typed, TaskOK
<1>2. task.kind = "idle" /\ task'.kind = "idle"
  BY IdleKind
<1>3. SweptAll'
  BY <1>2, ZenonT(60) DEF IInv, SweptAll
<1> QED
  BY <1>1, <1>2, <1>3 DEF IInv, AnswerIsCurrent, SweptSoFar

LEMMA CommandIInv ==
  ASSUME IInv, NEW p \in Paths, Command(p)
  PROVE  IInv'
<1>1. p \in Seq(Nat) /\ Len(p) \in Nat
  BY ScrAssumption
<1>2. /\ task.kind = "idle"
      /\ UNCHANGED <<agents, done_sweep, components, disk, stale>>
  BY IdleKind DEF Command
<1>3. CASE findSubagent(agents, p) # 0
  <2>1. task' = [kind |-> "found", command |-> "Command", path |-> p, pos |-> Len(p)]
    BY <1>3 DEF Command, Task
  <2>2. Typed'
    BY <1>1, <1>2, <2>1 DEF IInv, Typed, TaskOK, Kinds, Commands
  <2> QED
    BY <1>2, <1>3, <2>1, <2>2 DEF IInv, AnswerIsCurrent, SweptSoFar, SweptAll
<1>4. CASE findSubagent(agents, p) = 0
  <2>1. task' = [kind |-> "guess", command |-> "Command", path |-> p, pos |-> Len(p)]
    BY <1>4 DEF Command, Task
  <2>2. Typed'
    BY <1>1, <1>2, <2>1 DEF IInv, Typed, TaskOK, Kinds, Commands
  <2> QED
    BY <1>2, <2>1, <2>2 DEF IInv, AnswerIsCurrent, SweptSoFar, SweptAll
<1> QED
  BY <1>3, <1>4

LEMMA GuessFileIInv ==
  ASSUME IInv, GuessFile
  PROVE  IInv'
<1>0. /\ AgentsOK(agents, components) /\ Typed /\ SweptAll
      /\ task.kind = "guess"
      /\ agents' = tryRegister(agents, SubSeq(task.path, 1, task.pos))
      /\ UNCHANGED <<done_sweep, components, disk>>
      /\ stale' = (stale /\ task'.kind # "sweep")
  BY DEF IInv, GuessFile
<1>1. /\ task \in [kind : Kinds, command : Commands, path : Seq(Nat), pos : Nat]
      /\ task.pos \in 0..Len(task.path)
  BY <1>0, BusyTask DEF Typed, Kinds
<1>2. AgentsOK(agents', components') /\ PathsOf(agents) \subseteq PathsOf(agents')
  BY <1>0, TryRegisterOK
<1>3. stale' \in BOOLEAN /\ (~stale' => task'.kind = "sweep" \/ ~stale)
  BY <1>0 DEF Typed
<1>4. \A f \in disk : done_sweep' /\ ~stale' /\ task'.kind # "sweep" => FilePath[f] \in PathsOf(agents')
  BY <1>0, <1>2, <1>3 DEF SweptAll
<1>5. SweptAll'
  BY <1>0, <1>4 DEF SweptAll
<1> DEFINE found == findSubagent(agents', task.path) # 0
<1>6. task' = AfterGuess(found)
  BY DEF GuessFile
<1> HIDE DEF found
<1>7. CASE found
  <2>1. task' = [task EXCEPT !.kind = "found"]
    BY <1>6, <1>7 DEF AfterGuess
  <2>2. task'.kind = "found" /\ task'.path = task.path
    BY <1>1, <2>1
  <2>3. Typed'
    BY <1>0, <1>1, <1>3, <2>1 DEF Typed, TaskOK, Kinds
  <2>4. AnswerIsCurrent' /\ SweptSoFar'
    BY <1>7, <2>2 DEF AnswerIsCurrent, SweptSoFar, found
  <2> QED
    BY <1>2, <1>5, <2>3, <2>4 DEF IInv
<1>8. CASE ~found /\ task.pos > 0
  <2>1. task' = [task EXCEPT !.pos = task.pos - 1]
    BY <1>1, <1>6, <1>8 DEF AfterGuess
  <2>2. task'.kind = "guess" /\ task'.path = task.path /\ task'.pos = task.pos - 1
    BY <1>0, <1>1, <2>1
  <2>3. task' \in [kind : Kinds, command : Commands, path : Seq(Nat), pos : Nat]
    BY <1>1, <1>8, <2>1
  <2>4. Typed'
    BY <1>0, <1>1, <1>3, <1>8, <2>2, <2>3 DEF Typed, TaskOK
  <2>5. AnswerIsCurrent' /\ SweptSoFar'
    BY <2>2 DEF AnswerIsCurrent, SweptSoFar
  <2> QED
    BY <1>2, <1>5, <2>4, <2>5 DEF IInv
<1>9. CASE ~found /\ task.pos = 0 /\ ~done_sweep
  <2>1. task' = [task EXCEPT !.kind = "sweep", !.pos = 1]
    BY <1>1, <1>6, <1>9 DEF AfterGuess
  <2>2. task'.kind = "sweep" /\ task'.pos = 1
    BY <1>1, <2>1
  <2>3. task' \in [kind : Kinds, command : Commands, path : Seq(Nat), pos : Nat]
    BY <1>1, <2>1, ZenonT(60) DEF Kinds
  <2>4. Typed'
    BY <1>0, <1>3, <2>2, <2>3, ScrAssumption DEF Typed, TaskOK
  <2>5. AnswerIsCurrent' /\ SweptSoFar'
    BY <2>2 DEF AnswerIsCurrent, SweptSoFar
  <2> QED
    BY <1>2, <1>5, <2>4, <2>5 DEF IInv
<1>10. CASE ~found /\ task.pos = 0 /\ done_sweep
  <2>1. task' = [task EXCEPT !.kind = "missing"]
    BY <1>1, <1>6, <1>10 DEF AfterGuess
  <2>2. task'.kind = "missing" /\ task'.path = task.path
    BY <1>1, <2>1
  <2>3. Typed'
    BY <1>0, <1>1, <1>3, <2>1 DEF Typed, TaskOK, Kinds
  <2>4. AnswerIsCurrent' /\ SweptSoFar'
    BY <1>10, <2>2 DEF AnswerIsCurrent, SweptSoFar, found
  <2> QED
    BY <1>2, <1>5, <2>3, <2>4 DEF IInv
<1>11. done_sweep \in BOOLEAN /\ (task.pos > 0 \/ task.pos = 0)
  BY <1>0, <1>1 DEF Typed
<1> QED
  BY <1>7, <1>8, <1>9, <1>10, <1>11

LEMMA RegisterNewAgentsIInv ==
  ASSUME IInv, RegisterNewAgents
  PROVE  IInv'
<1>1. /\ task' = [kind |-> "sweep", command |-> "RegisterNewAgents", path |-> <<>>, pos |-> 1]
      /\ stale' = FALSE
      /\ UNCHANGED <<agents, done_sweep, components, disk>>
  BY DEF RegisterNewAgents, Task
<1>2. Len(Files) \in Nat
  BY ScrAssumption
<1>3. task' \in [kind : Kinds, command : Commands, path : Seq(Nat), pos : Nat]
  BY <1>1 DEF Kinds, Commands
<1>4. task'.kind = "sweep" /\ task'.pos = 1
  BY <1>1
<1>5. Typed'
  <2>1. TaskOK'
    BY <1>2, <1>3, <1>4 DEF TaskOK
  <2> QED
    BY <1>1, <2>1 DEF IInv, Typed
<1> QED
  BY <1>1, <1>4, <1>5 DEF IInv, AnswerIsCurrent, SweptSoFar, SweptAll

LEMMA SweepFileIInv ==
  ASSUME IInv, SweepFile
  PROVE  IInv'
<1>0. /\ AgentsOK(agents, components) /\ Typed /\ SweptSoFar
      /\ task.kind = "sweep" /\ task.pos <= Len(Files)
      /\ agents' = parseSingleConfigFile(agents, Files[task.pos])
      /\ task' = [task EXCEPT !.pos = @ + 1]
      /\ UNCHANGED <<done_sweep, components, disk, stale>>
  BY DEF IInv, SweepFile, MoreFiles
<1>1. /\ task \in [kind : Kinds, command : Commands, path : Seq(Nat), pos : Nat]
      /\ task.pos \in 1..(Len(Files) + 1)
  BY <1>0, BusyTask DEF Typed, Kinds
<1>2. Len(Files) \in Nat /\ Files[task.pos] \in FileSet
  <2>1. Len(Files) \in Nat /\ \A m \in 1..Len(Files) : Files[m] \in FileSet
    BY ScrAssumption
  <2>2. task.pos \in 1..Len(Files)
    BY <1>0, <1>1, <2>1
  <2> QED
    BY <2>1, <2>2
<1>3. /\ AgentsOK(agents', components')
      /\ PathsOf(agents) \subseteq PathsOf(agents')
      /\ Files[task.pos] \in disk => FilePath[Files[task.pos]] \in PathsOf(agents')
  BY <1>0, <1>2, ParseOK
<1>4. /\ task' \in [kind : Kinds, command : Commands, path : Seq(Nat), pos : Nat]
      /\ task'.kind = "sweep" /\ task'.pos = task.pos + 1
  <2>1. task.pos + 1 \in Nat
    BY <1>1
  <2>2. task' = [kind |-> task.kind, command |-> task.command, path |-> task.path, pos |-> task.pos + 1]
    BY <1>0, <1>1, Zenon
  <2>3. task.kind \in Kinds /\ task.command \in Commands /\ task.path \in Seq(Nat)
    BY <1>1
  <2>4. task' \in [kind : Kinds, command : Commands, path : Seq(Nat), pos : Nat]
    BY <2>1, <2>2, <2>3
  <2>5. task'.kind = task.kind /\ task'.pos = task.pos + 1
    BY <2>2
  <2> QED
    BY <1>0, <2>4, <2>5, Zenon
<1>5. Typed'
  BY <1>0, <1>1, <1>2, <1>4 DEF Typed, TaskOK
<1>6. SweptSoFar'
  <2>1. ASSUME ~stale, NEW m \in 1..task.pos, Files[m] \in disk
        PROVE  FilePath[Files[m]] \in PathsOf(agents')
    <3>1. CASE m = task.pos
      BY <1>3, <2>1, <3>1
    <3>2. CASE m \in 1..(task.pos - 1)
      BY <1>0, <1>3, <2>1, <3>2 DEF SweptSoFar
    <3> QED
      BY <1>1, <3>1, <3>2
  <2>2. 1..(task'.pos - 1) = 1..task.pos
    BY <1>1, <1>4
  <2> QED
    BY <1>0, <2>1, <2>2, ZenonT(60) DEF SweptSoFar
<1> QED
  BY <1>3, <1>4, <1>5, <1>6 DEF IInv, AnswerIsCurrent, SweptAll

LEMMA SweepDoneIInv ==
  ASSUME IInv, SweepDone
  PROVE  IInv'
<1>0. /\ AgentsOK(agents, components) /\ Typed /\ SweptSoFar
      /\ task.kind = "sweep" /\ ~(task.pos <= Len(Files))
      /\ done_sweep' = TRUE
      /\ UNCHANGED <<agents, components, disk, stale>>
  BY DEF IInv, SweepDone, MoreFiles
<1>1. /\ task \in [kind : Kinds, command : Commands, path : Seq(Nat), pos : Nat]
      /\ task.pos \in 1..(Len(Files) + 1)
  BY <1>0, BusyTask DEF Typed, Kinds
<1>2. Len(Files) \in Nat /\ task.pos = Len(Files) + 1
  BY <1>0, <1>1, ScrAssumption
<1>3. ASSUME ~stale, NEW f \in disk PROVE FilePath[f] \in PathsOf(agents)
  <2>1. PICK m \in 1..Len(Files) : f = Files[m]
    BY <1>0 DEF Typed, FileSet
  <2>2. m \in 1..(task.pos - 1)
    BY <1>2
  <2> QED
    BY <1>0, <1>3, <2>1, <2>2 DEF SweptSoFar
<1>4. SweptAll'
  BY <1>0, <1>3 DEF SweptAll
<1>5. CASE task.command = "RegisterNewAgents"
  <2>1. task' = Idle /\ task'.kind = "idle"
    BY <1>5, IdleKind DEF SweepDone
  <2>2. Typed'
    BY <1>0, <2>1 DEF Typed, TaskOK
  <2> QED
    BY <1>0, <1>4, <2>1, <2>2 DEF IInv, AnswerIsCurrent, SweptSoFar
<1>6. CASE task.command # "RegisterNewAgents" /\ findSubagent(agents, task.path) # 0
  <2>1. task' = [task EXCEPT !.kind = "found"]
    BY <1>6 DEF SweepDone
  <2>2. task'.kind = "found" /\ task'.path = task.path
    BY <1>1, <2>1
  <2>3. Typed'
    BY <1>0, <1>1, <2>1 DEF Typed, TaskOK, Kinds
  <2> QED
    BY <1>0, <1>4, <1>6, <2>2, <2>3 DEF IInv, AnswerIsCurrent, SweptSoFar
<1>7. CASE task.command # "RegisterNewAgents" /\ findSubagent(agents, task.path) = 0
  <2>1. task' = [task EXCEPT !.kind = "missing"]
    BY <1>7 DEF SweepDone
  <2>2. task'.kind = "missing" /\ task'.path = task.path
    BY <1>1, <2>1
  <2>3. Typed'
    BY <1>0, <1>1, <2>1 DEF Typed, TaskOK, Kinds
  <2> QED
    BY <1>0, <1>4, <1>7, <2>2, <2>3 DEF IInv, AnswerIsCurrent, SweptSoFar
<1> QED
  BY <1>5, <1>6, <1>7

LEMMA ExecuteIInv ==
  ASSUME IInv, Execute
  PROVE  IInv'
<1>0. /\ AgentsOK(agents, components) /\ Typed /\ AnswerIsCurrent /\ SweptAll
      /\ task.kind = "found" /\ Mount(findSubagent(agents, task.path))
      /\ task' = Idle
      /\ UNCHANGED <<done_sweep, disk, stale>>
  BY DEF IInv, Execute
<1>1. agents \in Seq(SCRSubAgent) /\ Len(agents) \in Nat
  BY <1>0 DEF AgentsOK
<1>2. findSubagent(agents, task.path) \in 1..Len(agents)
  BY <1>0, <1>1, FindSubagentFacts DEF AnswerIsCurrent
<1>3. AgentsOK(agents', components') /\ PathsOf(agents') = PathsOf(agents)
  BY <1>0, <1>2, MountOK
<1>4. task'.kind = "idle"
  BY <1>0, IdleKind
<1>5. Typed'
  BY <1>0 DEF Typed, TaskOK
<1>6. SweptAll'
  BY <1>0, <1>3 DEF SweptAll
<1> QED
  BY <1>3, <1>4, <1>5, <1>6 DEF IInv, AnswerIsCurrent, SweptSoFar

LEMMA NotFoundIInv ==
  ASSUME IInv, NotFound
  PROVE  IInv'
<1>0. /\ task.kind = "missing" /\ task' = Idle /\ task'.kind = "idle"
      /\ UNCHANGED <<agents, done_sweep, components, disk, stale>>
  BY IdleKind DEF NotFound
<1>1. Typed'
  BY <1>0 DEF IInv, Typed, TaskOK
<1> QED
  BY <1>0, <1>1 DEF IInv, AnswerIsCurrent, SweptSoFar, SweptAll

LEMMA RegisterAgentIInv ==
  ASSUME IInv, NEW p \in Paths, RegisterAgent(p, "term")
  PROVE  IInv'
<1> DEFINE av == Replace(agents, p)
<1>0. /\ AgentsOK(agents, components) /\ p \in Seq(Nat) /\ "term" \in RegisteredValues
      /\ agents' = Insert(av, NewAgent(p, "term"))
      /\ components' = components \ Replaced(agents, p)
      /\ task = Idle
      /\ UNCHANGED <<done_sweep, disk, task, stale>>
  BY ScrAssumption DEF IInv, RegisterAgent, Unmounted, RegisteredValues
<1>1. AgentsOK(av, components') /\ PathsOf(av) = PathsOf(agents) \ {p}
  BY <1>0, ReplaceOK, ZenonT(60)
<1> HIDE DEF av
<1>2. p \notin PathsOf(av)
  BY <1>1
<1>3. AgentsOK(agents', components') /\ PathsOf(agents') = PathsOf(av) \cup {p}
  BY <1>0, <1>1, <1>2, InsertOK
<1>4. PathsOf(agents) \subseteq PathsOf(agents')
  BY <1>1, <1>3
<1> QED
  BY <1>0, <1>3, <1>4, IdleStep DEF IInv, Typed

LEMMA UnregisterAgentIInv ==
  ASSUME IInv, NEW p \in Paths, UnregisterAgent(p)
  PROVE  IInv'
<1>0. /\ AgentsOK(agents, components) /\ p \in Seq(Nat)
      /\ agents' = Replace(agents, p)
      /\ components' = components \ Replaced(agents, p)
      /\ task = Idle /\ stale' = TRUE
      /\ UNCHANGED <<done_sweep, disk, task>>
  BY ScrAssumption DEF IInv, UnregisterAgent, Unmounted, Unregistered
<1>1. AgentsOK(agents', components')
  BY <1>0, ReplaceOK
<1> QED
  BY <1>0, <1>1, IdleStep DEF IInv, Typed

LEMMA UnregisterAllAgentsIInv ==
  ASSUME IInv, UnregisterAllAgents
  PROVE  IInv'
<1>0. /\ AgentsOK(agents, components)
      /\ agents' = <<>>
      /\ components' = components \ Comps(agents)
      /\ task = Idle /\ stale' = TRUE /\ done_sweep' = TRUE
      /\ UNCHANGED <<disk, task>>
  BY DEF IInv, UnregisterAllAgents, Unmounted
<1>1. components' = {}
  BY <1>0 DEF AgentsOK, Owned
<1>2. agents' \in Seq(SCRSubAgent) /\ Len(agents') = 0
  BY <1>0
<1>3. Comps(agents') = {}
  BY <1>2 DEF Comps
<1>4. AgentsOK(agents', components')
  BY <1>1, <1>2, <1>3 DEF AgentsOK, Owned, Sorted
<1> QED
  BY <1>0, <1>4, IdleStep DEF IInv, Typed

LEMMA MountAgentIInv ==
  ASSUME IInv, NEW p \in Paths, MountAgent(p)
  PROVE  IInv'
<1>0. /\ AgentsOK(agents, components) /\ p \in Seq(Nat)
      /\ task = Idle /\ findByPath(agents, p) # 0 /\ Mount(findByPath(agents, p))
      /\ UNCHANGED <<done_sweep, disk, task, stale>>
  BY ScrAssumption DEF IInv, MountAgent
<1>1. findByPath(agents, p) \in 1..Len(agents)
  BY <1>0, FindByPathFacts DEF AgentsOK
<1>2. AgentsOK(agents', components') /\ PathsOf(agents') = PathsOf(agents)
  BY <1>0, <1>1, MountOK
<1> QED
  BY <1>0, <1>2, IdleStep DEF IInv, Typed

LEMMA MountAllAgentsIInv ==
  ASSUME IInv, MountAllAgents
  PROVE  IInv'
<1>0. /\ AgentsOK(agents, components) /\ agents # <<>> /\ task.kind = "idle"
      /\ task' = [kind |-> "mount", command |-> "MountAllAgents", path |-> <<>>, pos |-> 1]
      /\ UNCHANGED <<agents, done_sweep, components, disk, stale>>
  BY IdleKind DEF IInv, MountAllAgents, Task
<1>1. 1 \in 1..Len(agents)
  BY <1>0 DEF AgentsOK
<1>2. Typed'
  BY <1>0, <1>1 DEF IInv, Typed, TaskOK, Kinds, Commands
<1> QED
  BY <1>0, <1>2 DEF IInv, AnswerIsCurrent, SweptSoFar, SweptAll

LEMMA MountNextIInv ==
  ASSUME IInv, MountNext
  PROVE  IInv'
<1>0. /\ AgentsOK(agents, components) /\ Typed /\ SweptAll
      /\ task.kind = "mount" /\ Mount(task.pos)
      /\ UNCHANGED <<done_sweep, disk, stale>>
  BY DEF IInv, MountNext
<1>1. /\ task \in [kind : Kinds, command : Commands, path : Seq(Nat), pos : Nat]
      /\ task.pos \in 1..Len(agents)
  BY <1>0, BusyTask DEF Typed, Kinds
<1>2. AgentsOK(agents', components') /\ PathsOf(agents') = PathsOf(agents) /\ Len(agents') = Len(agents)
  BY <1>0, <1>1, MountOK
<1>3. CASE task' = Idle
  <2>1. task'.kind = "idle"
    BY <1>3, IdleKind
  <2>2. Typed'
    BY <1>0, <1>3 DEF Typed, TaskOK
  <2> QED
    BY <1>0, <1>2, <2>1, <2>2 DEF IInv, AnswerIsCurrent, SweptSoFar, SweptAll
<1>4. CASE task.pos < Len(agents) /\ task' = [task EXCEPT !.pos = @ + 1]
  <2>1. /\ task' \in [kind : Kinds, command : Commands, path : Seq(Nat), pos : Nat]
        /\ task'.kind = "mount" /\ task'.pos = task.pos + 1
    BY <1>0, <1>1, <1>4
  <2>2. Len(agents) \in Nat
    BY <1>0 DEF AgentsOK
  <2>3. task'.pos \in 1..Len(agents')
    BY <1>1, <1>2, <1>4, <2>1, <2>2
  <2>4. Typed'
    BY <1>0, <2>1, <2>3 DEF Typed, TaskOK
  <2> QED
    BY <1>0, <1>2, <2>1, <2>4 DEF IInv, AnswerIsCurrent, SweptSoFar, SweptAll
<1> QED
  BY <1>3, <1>4 DEF MountNext

LEMMA UnmountAgentIInv ==
  ASSUME IInv, NEW p \in Paths, UnmountAgent(p)
  PROVE  IInv'
<1> DEFINE i == findByPath(agents, p)
<1>0. /\ AgentsOK(agents, components) /\ p \in Seq(Nat)
      /\ task = Idle /\ i # 0
      /\ agents' = [agents EXCEPT ![i].comp = 0] /\ components' = components \ {agents[i].comp}
      /\ UNCHANGED <<done_sweep, disk, task, stale>>
  BY ScrAssumption DEF IInv, UnmountAgent, Unmounted
<1>1. i \in 1..Len(agents)
  BY <1>0, FindByPathFacts DEF AgentsOK
<1> HIDE DEF i
<1>2. AgentsOK(agents', components') /\ PathsOf(agents') = PathsOf(agents)
  BY <1>0, <1>1, UnmountOK, ZenonT(60)
<1> QED
  BY <1>0, <1>2, IdleStep DEF IInv, Typed

LEMMA UnmountAllAgentsIInv ==
  ASSUME IInv, UnmountAllAgents
  PROVE  IInv'
<1>0. /\ AgentsOK(agents, components) /\ task = Idle
      /\ agents' = [i \in 1..Len(agents) |-> [agents[i] EXCEPT !.comp = 0]]
      /\ components' = components \ Comps(agents)
      /\ UNCHANGED <<done_sweep, disk, task, stale>>
  BY DEF IInv, UnmountAllAgents, Unmounted
<1>1. Len(agents) \in Nat /\ \A k \in 1..Len(agents) : agents[k] \in SCRSubAgent
  BY <1>0 DEF AgentsOK
<1>2. \A k \in 1..Len(agents) :
        /\ [agents[k] EXCEPT !.comp = 0] \in SCRSubAgent
        /\ [agents[k] EXCEPT !.comp = 0].path = agents[k].path
        /\ [agents[k] EXCEPT !.comp = 0].comp = 0
  BY <1>1 DEF SCRSubAgent
<1>3. agents' \in Seq(SCRSubAgent) /\ Len(agents') = Len(agents)
  BY <1>0, <1>1, <1>2
<1>4. \A k \in 1..Len(agents) : agents'[k].path = agents[k].path /\ agents'[k].comp = 0
  BY <1>0, <1>2, ZenonT(60)
<1>5. AgentsOK(agents', components \ Comps(agents)) /\ PathsOf(agents') = PathsOf(agents)
  <2>1. AgentsOK(agents, components)
    BY <1>0
  <2> QED
    BY <2>1, <1>3, <1>4, UnmountAllOK
<1> QED
  BY <1>0, <1>5, IdleStep DEF IInv, Typed

LEMMA DiskIInv ==
  ASSUME IInv, NEW f \in FileSet, InstallFile(f) \/ RemoveFile(f)
  PROVE  IInv'
<1>1. /\ UNCHANGED <<agents, done_sweep, components, task>>
      /\ disk' \subseteq FileSet /\ stale' \in BOOLEAN
      /\ stale' \/ (stale' = stale /\ disk' \subseteq disk)
  BY ZenonT(60) DEF IInv, Typed, InstallFile, RemoveFile
<1>2. Typed'
  BY <1>1 DEF IInv, Typed, TaskOK
<1> QED
  BY <1>1, <1>2 DEF IInv, AnswerIsCurrent, SweptSoFar, SweptAll

LEMMA NextIInv == IInv /\ [Next]_vars => IInv'
<1> SUFFICES ASSUME IInv, [Next]_vars PROVE IInv'
  OBVIOUS
<1>1. CASE UNCHANGED vars
  BY <1>1 DEF vars, IInv, Typed, TaskOK, AnswerIsCurrent, SweptSoFar, SweptAll
<1>2. CASE Step
  BY <1>2, GuessFileIInv, SweepFileIInv, SweepDoneIInv, ExecuteIInv, NotFoundIInv, MountNextIInv DEF Step
<1>3. ASSUME NEW p \in Paths,
             Command(p) \/ RegisterAgent(p, "term") \/ UnregisterAgent(p) \/ MountAgent(p) \/ UnmountAgent(p)
      PROVE  IInv'
  BY <1>3, CommandIInv, RegisterAgentIInv, UnregisterAgentIInv, MountAgentIInv, UnmountAgentIInv
<1>4. CASE RegisterNewAgents \/ UnregisterAllAgents \/ MountAllAgents \/ UnmountAllAgents
  BY <1>4, RegisterNewAgentsIInv, UnregisterAllAgentsIInv, MountAllAgentsIInv, UnmountAllAgentsIInv
<1>5. ASSUME NEW f \in FileSet, InstallFile(f) \/ RemoveFile(f) PROVE IInv'
  BY <1>5, DiskIInv
<1> QED
  BY <1>1, <1>2, <1>3, <1>4, <1>5 DEF Next

LEMMA Invariance == Spec => []IInv
BY InitIInv, NextIInv, PTL DEF Spec

-----------------------------------------------------------------------------
(* The theorems.                                                           *)

\* The vector of agents is sorted by path and holds no path twice, whatever
\* RegisterAgent, UnregisterAgent and the sweeps did before: lower_bound may be used.
THEOREM RegistrySound == Spec => []RegistryIsSound
<1>1. IInv => RegistryIsSound
  BY AgentsOKMeans DEF IInv
<1> QED
  BY <1>1, Invariance, PTL

\* Each component belongs to one registered agent: none is leaked, none deleted twice
\* (SCRSubAgent::mount, unmount and the destructor).
THEOREM ComponentsOwned == Spec => []ComponentsBelongToAgents
<1>1. IInv => ComponentsBelongToAgents
  BY AgentsOKMeans DEF IInv
<1> QED
  BY <1>1, Invariance, PTL

\* The last agent with a prefix of the path, which findSubagent returns, is the
\* one with the longest match.
THEOREM FindsLongestMatch == Spec => []LongestMatch
<1>1. IInv => LongestMatch
  <2> SUFFICES ASSUME IInv, NEW p \in Paths, NEW j \in 1..Len(agents), isPrefixOf(agents[j].path, p)
               PROVE  LET i == findSubagent(agents, p) IN
                      /\ i # 0 /\ isPrefixOf(agents[i].path, p)
                      /\ Len(agents[j].path) <= Len(agents[i].path)
    BY DEF LongestMatch
  <2> DEFINE i == findSubagent(agents, p)
  <2>0. agents \in Seq(SCRSubAgent) /\ Sorted(agents) /\ p \in Seq(Nat)
    BY ScrAssumption DEF IInv, AgentsOK
  <2>1. Len(agents) \in Nat /\ \A k \in 1..Len(agents) : agents[k].path \in Seq(Nat)
    BY <2>0, AgentFacts
  <2>2. i \in 0..Len(agents) /\ i # 0 /\ j <= i /\ isPrefixOf(agents[i].path, p)
    BY <2>0, FindSubagentFacts
  <2> HIDE DEF i
  <2>3. i \in 1..Len(agents) /\ agents[i].path \in Seq(Nat) /\ agents[j].path \in Seq(Nat)
    BY <2>1, <2>2
  <2>4. ~(Len(agents[i].path) < Len(agents[j].path))
    <3>1. ASSUME Len(agents[i].path) < Len(agents[j].path) PROVE FALSE
      <4>1. Less(agents[i].path, agents[j].path)
        BY <2>0, <2>2, <2>3, <3>1, ShorterPrefixIsLess
      <4>2. i # j
        BY <2>3, <3>1, SeqNat
      <4>3. Less(agents[j].path, agents[i].path)
        BY <2>0, <2>2, <2>3, <4>2 DEF Sorted
      <4>4. Less(agents[i].path, agents[i].path)
        BY <2>3, <4>1, <4>3, LessTransitive
      <4> QED
        BY <2>3, <4>4, LessIrreflexive
    <3> QED
      BY <3>1
  <2>5. Len(agents[j].path) <= Len(agents[i].path)
    BY <2>3, <2>4, SeqNat
  <2> QED
    BY <2>2, <2>5 DEF i
<1> QED
  BY <1>1, Invariance, PTL

\* Among agents below p in a sorted vector the next components do not decrease.
LEMMA NamesAscend ==
  ASSUME NEW p \in Seq(Nat), NEW q \in Seq(Nat), NEW r \in Seq(Nat),
         isPrefixOf(p, q), isPrefixOf(p, r), Len(p) < Len(q), Len(p) < Len(r), Less(q, r)
  PROVE  q[Len(p) + 1] <= r[Len(p) + 1]
<1>0. /\ Len(p) \in Nat /\ Len(q) \in Nat /\ Len(r) \in Nat
      /\ q[Len(p) + 1] \in Nat /\ r[Len(p) + 1] \in Nat
  BY SeqNat
<1>1. \A c \in 1..Len(p) : q[c] = r[c] /\ q[c] \in Nat
  <2>1. ASSUME NEW c \in 1..Len(p) PROVE q[c] = r[c] /\ q[c] \in Nat
    <3>1. p[c] = q[c] /\ p[c] = r[c]
      BY DEF isPrefixOf
    <3>2. p[c] \in Nat
      BY SeqNat
    <3> QED
      BY <3>1, <3>2
  <2> QED
    BY <2>1
<1>2. CASE isPrefixOf(q, r)
  BY <1>0, <1>2 DEF isPrefixOf
<1>3. ASSUME NEW c \in 1..Len(q), c <= Len(r), q[c] < r[c], \A d \in 1..(c - 1) : q[d] = r[d]
      PROVE  q[Len(p) + 1] <= r[Len(p) + 1]
  <2>1. ~(c <= Len(p))
    <3>1. ASSUME c <= Len(p) PROVE FALSE
      <4>1. q[c] = r[c] /\ q[c] \in Nat
        BY <1>0, <1>1, <3>1
      <4> QED
        BY <4>1, <1>3
    <3> QED
      BY <3>1
  <2>2. CASE c = Len(p) + 1
    BY <1>0, <1>3, <2>2
  <2>3. CASE c > Len(p) + 1
    BY <1>0, <1>3, <2>3
  <2> QED
    BY <1>0, <2>1, <2>2, <2>3
<1> QED
  BY <1>2, <1>3 DEF Less

\* dirSubagents compares a name only with the last one it added, and yet the
\* listing of Dir has no name twice; no path in it is too short for component_str.
THEOREM DirHasNoDuplicates == Spec => []DirListsOnce
<1>1. IInv => DirListsOnce
  <2> SUFFICES ASSUME IInv, task.kind = "missing" PROVE
         /\ \A i \in 1..Len(agents) : isPrefixOf(task.path, agents[i].path) => Len(agents[i].path) > Len(task.path)
         /\ \A d, e \in dirSubagents(agents, task.path) : d[2] = e[2] => d = e
    BY DEF DirListsOnce
  <2> DEFINE p == task.path
             below == {i \in 1..Len(agents) : isPrefixOf(p, agents[i].path)}
             Name(i) == agents[i].path[Len(p) + 1]
             New(i) == \A k \in below : k < i /\ Name(k) = Name(i) => \E l \in below : k < l /\ l < i
  <2>0. agents \in Seq(SCRSubAgent) /\ Sorted(agents) /\ findSubagent(agents, p) = 0
    BY DEF IInv, AgentsOK, AnswerIsCurrent
  <2>1. p \in Seq(Nat)
    BY BusyTask DEF IInv, Typed, Kinds
  <2>2. Len(agents) \in Nat /\ \A k \in 1..Len(agents) : agents[k].path \in Seq(Nat)
    BY <2>0, AgentFacts
  <2>3. dirSubagents(agents, p) = {<<i, Name(i)>> : i \in {j \in below : New(j)}}
    BY DEF dirSubagents
  <2> HIDE DEF p
  <2>4. ASSUME NEW i \in 1..Len(agents), isPrefixOf(p, agents[i].path)
        PROVE  Len(agents[i].path) > Len(p)
    <3>1. ~isPrefixOf(agents[i].path, p)
      BY <2>0, FindSubagentFacts
    <3>2. agents[i].path \in Seq(Nat) /\ Len(agents[i].path) \in Nat /\ Len(p) \in Nat
      BY <2>1, <2>2, SeqNat
    <3> QED
      BY <2>4, <3>1, <3>2 DEF isPrefixOf
  <2>5. \A i \in below : /\ i \in 1..Len(agents) /\ agents[i].path \in Seq(Nat)
                         /\ isPrefixOf(p, agents[i].path) /\ Len(p) < Len(agents[i].path)
                         /\ Name(i) \in Nat
    <3>1. ASSUME NEW i \in below
          PROVE  /\ i \in 1..Len(agents) /\ agents[i].path \in Seq(Nat)
                 /\ isPrefixOf(p, agents[i].path) /\ Len(p) < Len(agents[i].path)
                 /\ Name(i) \in Nat
      <4>1. i \in 1..Len(agents) /\ isPrefixOf(p, agents[i].path) /\ agents[i].path \in Seq(Nat)
        BY <2>2
      <4>2. Len(agents[i].path) > Len(p) /\ Len(p) \in Nat /\ Len(agents[i].path) \in Nat
        BY <4>1, <2>1, <2>4, SeqNat
      <4> QED
        BY <4>1, <4>2, SeqNat
    <3> QED
      BY <3>1
  <2>6. \A i, j \in below : i < j => Name(i) <= Name(j)
    <3>1. ASSUME NEW i \in below, NEW j \in below, i < j PROVE Name(i) <= Name(j)
      <4>1. Less(agents[i].path, agents[j].path)
        BY <2>0, <2>5, <3>1 DEF Sorted
      <4> HIDE DEF below
      <4> QED
        BY <4>1, <2>1, <2>5, NamesAscend, ZenonT(60)
    <3> QED
      BY <3>1
  <2>7. ASSUME NEW i \in below, NEW j \in below, i < j, New(j), Name(i) = Name(j)
        PROVE  FALSE
    <3> DEFINE before == {l \in below : l < j}
    <3>1. i \in before /\ before \in SUBSET (0..Len(agents))
      BY <2>2, <2>7
    <3>2. PICK k \in before : \A l \in before : l <= k
      BY <2>2, <3>1, GreatestExists
    <3>3. k \in below /\ k < j /\ i <= k
      BY <3>1, <3>2
    <3>4. Name(k) \in Nat /\ Name(i) \in Nat /\ Name(j) \in Nat
      BY <2>5, <3>3
    <3>5. Name(i) <= Name(k) /\ Name(k) <= Name(j)
      <4>1. k \in 1..Len(agents) /\ i \in 1..Len(agents)
        BY <2>5, <3>3
      <4> HIDE DEF below, Name
      <4> QED
        BY <2>6, <3>3, <3>4, <4>1
    <3>6. Name(k) = Name(j)
      <4> HIDE DEF below, Name
      <4> QED
        BY <3>4, <3>5, <2>7
    <3>7. PICK l \in below : k < l /\ l < j
      BY <2>7, <3>3, <3>6
    <3>8. l \in before
      BY <3>7
    <3>9. l <= k /\ l \in 1..Len(agents) /\ k \in 1..Len(agents)
      BY <3>2, <3>3, <3>8, <2>5
    <3> QED
      BY <3>7, <3>9, <2>2
  <2> HIDE DEF Name, New
  <2>8. ASSUME NEW d \in dirSubagents(agents, p), NEW e \in dirSubagents(agents, p), d[2] = e[2]
        PROVE  d = e
    <3>1. PICK i \in below : New(i) /\ d = <<i, Name(i)>>
      BY <2>3
    <3>2. PICK j \in below : New(j) /\ e = <<j, Name(j)>>
      BY <2>3
    <3>3. Name(i) = Name(j)
      BY <2>8, <3>1, <3>2
    <3>4. i \in 1..Len(agents) /\ j \in 1..Len(agents)
      OBVIOUS
    <3>5. i = j
      BY <2>2, <2>7, <3>1, <3>2, <3>3, <3>4
    <3> QED
      BY <3>1, <3>2, <3>5
  <2> QED
    BY <2>4, <2>8 DEF p
<1> QED
  BY <1>1, Invariance, PTL

\* done_sweep: after a sweep every file there is has its agent, unless a file came
\* or an agent was unregistered since the sweep began.
THEOREM SweepIsComplete == Spec => []SweepRegistersEverything
<1>1. IInv => SweepRegistersEverything
  <2> SUFFICES ASSUME IInv, done_sweep, ~stale, task = Idle \/ task.kind # "sweep", NEW f \in disk
               PROVE  findByPath(agents, FilePath[f]) # 0
    BY DEF SweepRegistersEverything
  <2>1. task.kind # "sweep"
    BY IdleKind
  <2>2. f \in FileSet /\ FilePath[f] \in PathsOf(agents)
    BY <2>1 DEF IInv, Typed, SweptAll
  <2> QED
    BY <2>2, FileFacts, FindByPathFacts DEF IInv, AgentsOK
<1> QED
  BY <1>1, Invariance, PTL
=============================================================================
