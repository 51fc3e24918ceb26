------------------------ MODULE ProcessAgent_proofs -------------------------
(***************************************************************************)
(* For any number of processes, pids and any amount of output: the process *)
(* agent accounts for every child it started, and the caller gets a        *)
(* child's output in order.                                                *)
(*                                                                         *)
(* The first needs to know that the kernel's table of pids and the objects *)
(* agree (a child that was not waited for has the pid its object holds)    *)
(* and, as long as no pid is used again, that the ID of a child is a key   *)
(* of _processes with its own object.                                      *)
(***************************************************************************)
EXTENDS ProcessAgent, NaturalsInduction, WellFoundedInduction, SequenceTheorems, TLAPS

\* What the theorems assume of the constants: pids are not negative (NoPid is), and
\* exit() takes a number.
ConstantsOK == Pids \subseteq Nat /\ MaxStarts \in Nat /\ ExitCodes \subseteq Nat

-----------------------------------------------------------------------------
(* The inductive invariant.                                                *)

Unreaped(o) == life[o] \in {"run", "zombie"}

\* Objects that were not created yet.
Fresh ==
  \A o \in Objs : o > nobj =>
    ~alive[o] /\ pid[o] = NoPid /\ life[o] = "none" /\ ~open[o] /\ exitStatus[o] = 0

\* The kernel's table and the objects agree.
ChildHasPid == \A o \in Objs : Unreaped(o) => pid[o] \in Pids /\ owner[pid[o]] = o
PidHasChild == \A p \in Pids : owner[p] \in Objs => Unreaped(owner[p]) /\ pid[owner[p]] = p

\* A key of _processes leads to an object of its own that has had a child.
IdsAreObjects ==
  \A p \in Pids : Managed(p) =>
    /\ processes[p] \in 1..nobj /\ life[processes[p]] # "none"
    /\ \A q \in Pids : processes[q] = processes[p] => q = p

\* close() closes the streams before it waits.
Waiting == wait # NoObj => wait \in 1..nobj /\ ~open[wait]

\* As long as no pid is used again: a child is reached through its ID, and a status
\* that is kept is that of the object's own child.
Reachable == \A o \in Objs : Unreaped(o) => processes[pid[o]] = o \/ wait = o
StatusKept ==
  \A o \in Objs :
    /\ exitStatus[o] # 0 => pid[o] = NoPid /\ life[o] = "gone" /\ exitStatus[o] = code[o]
    /\ open[o] /\ pid[o] = NoPid => life[o] = "gone" /\ exitStatus[o] = code[o]

KInv ==
  /\ Fresh /\ ChildHasPid /\ PidHasChild /\ IdsAreObjects /\ HandleCoherent /\ ReleasedIsReaped /\ Waiting
  /\ ~reuse => Reachable /\ StatusKept

\* An answer about a process names the process.
AInv ==
  /\ ret.op \in {"status", "running"} => ret.obj \in Objs
  /\ PolledStatus /\ FailureIsNotRunning

IInv == TypeOK /\ KInv /\ AInv

-----------------------------------------------------------------------------
(* What pids and IDs lead to.                                              *)

LEMMA ObjFacts ==
  ASSUME ConstantsOK
  PROVE  /\ NoObj \notin Objs /\ Foreign \notin Objs /\ Free \notin Objs /\ NoPid \notin Pids
         /\ Objs \subseteq Int /\ Pids \subseteq Int
BY DEF ConstantsOK, Objs, NoObj, Foreign, Free, NoPid

\* A child that was not waited for is what its object's pid leads to; whatever a pid
\* leads to holds that pid.
LEMMA TargetFacts ==
  ASSUME ConstantsOK, TypeOK, KInv, NEW o \in Objs
  PROVE  /\ Unreaped(o) => HasChild(o) /\ Target(o) = o
         /\ HasChild(o) => /\ pid[o] \in Pids /\ Target(o) \in Objs
                           /\ Unreaped(Target(o)) /\ pid[Target(o)] = pid[o]
<1>1. Unreaped(o) => HasChild(o) /\ Target(o) = o
  BY ObjFacts DEF KInv, ChildHasPid, HasChild, Target
<1>2. HasChild(o) => pid[o] \in Pids /\ Target(o) \in Objs
  BY DEF HasChild, TypeOK
<1>3. HasChild(o) => Unreaped(Target(o)) /\ pid[Target(o)] = pid[o]
  BY <1>2 DEF KInv, PidHasChild, Target
<1> QED
  BY <1>1, <1>2, <1>3

\* The object of an ID and, unless pids are used again, its child.
LEMMA IdFacts ==
  ASSUME ConstantsOK, TypeOK, KInv, NEW p \in Pids, Managed(p)
  PROVE  /\ processes[p] \in Objs /\ processes[p] \in 1..nobj
         /\ alive[processes[p]] /\ life[processes[p]] # "none"
         /\ pid[processes[p]] \in {p, NoPid}
         /\ ~reuse /\ wait = NoObj /\ HasChild(processes[p]) => Target(processes[p]) = processes[p]
<1> DEFINE o == processes[p]
<1>1. o \in Objs
  BY DEF TypeOK, Managed
<1>2. o \in 1..nobj /\ alive[o] /\ life[o] # "none" /\ pid[o] \in {p, NoPid}
  BY DEF KInv, IdsAreObjects, HandleCoherent
<1>3. ASSUME ~reuse, wait = NoObj, HasChild(o) PROVE Target(o) = o
  <2>1. pid[o] = p
    BY <1>2, <1>3 DEF HasChild
  <2>2. Target(o) \in Objs /\ Unreaped(Target(o)) /\ pid[Target(o)] = p
    BY <1>1, <1>3, <2>1, TargetFacts
  <2>3. processes[p] = Target(o) \/ wait = Target(o)
    BY <1>3, <2>2 DEF KInv, Reachable
  <2> QED
    BY <1>3, <2>2, <2>3, ObjFacts
<1> QED
  BY <1>1, <1>2, <1>3

-----------------------------------------------------------------------------
(* Steps that leave the objects and the kernel's table alone.              *)

kernelVars == <<nobj, alive, pid, exitStatus, open, processes, wait, reuse, owner, life, code>>

LEMMA SameKernel ==
  ASSUME KInv, UNCHANGED kernelVars
  PROVE  KInv'
BY DEF KInv, kernelVars, Fresh, ChildHasPid, PidHasChild, IdsAreObjects, HandleCoherent, ReleasedIsReaped, Waiting,
       Reachable, StatusKept, Unreaped, Managed

LEMMA OtherAnswer ==
  ASSUME ret'.op \notin {"status", "running"}
  PROVE  AInv'
BY DEF AInv, PolledStatus, FailureIsNotRunning

\* A child ends: exit(), SIGPIPE or a signal of the agent.
LEMMA ChildEnds ==
  ASSUME ConstantsOK, TypeOK, KInv, NEW t \in Objs, life[t] = "run", NEW c \in Nat,
         life' = [life EXCEPT ![t] = "zombie"], code' = [code EXCEPT ![t] = c],
         UNCHANGED <<nobj, alive, pid, exitStatus, open, processes, wait, reuse, owner>>
  PROVE  KInv'
<1>1. /\ life'[t] = "zombie" /\ \A o \in Objs : o # t => life'[o] = life[o] /\ code'[o] = code[o]
      /\ Unreaped(t) /\ \A o \in Objs : Unreaped(o)' <=> Unreaped(o)
  BY DEF TypeOK, Unreaped
<1>2. Fresh'
  BY <1>1 DEF KInv, Fresh, Unreaped
<1>3. ChildHasPid' /\ PidHasChild'
  BY <1>1 DEF KInv, ChildHasPid, PidHasChild
<1>4. HandleCoherent' /\ Waiting'
  BY DEF KInv, HandleCoherent, Waiting, Managed
<1>5. IdsAreObjects'
  <2>1. ASSUME NEW p \in Pids, Managed(p) PROVE life'[processes[p]] # "none"
    BY <1>1, <2>1, IdFacts
  <2> QED
    BY <2>1 DEF KInv, IdsAreObjects, Managed
<1>6. ReleasedIsReaped'
  <2>1. ASSUME NEW o \in 1..nobj, ~alive[o] PROVE life'[o] = "gone"
    <3>1. life[o] = "gone" /\ o \in Objs
      BY <2>1 DEF KInv, ReleasedIsReaped, TypeOK, Objs, ConstantsOK
    <3> QED
      BY <1>1, <3>1
  <2> QED
    BY <2>1 DEF ReleasedIsReaped
<1>7. ~reuse' => Reachable'
  BY <1>1 DEF KInv, Reachable
<1>8. ~reuse' => StatusKept'
  <2>1. ASSUME ~reuse, NEW o \in Objs
        PROVE  /\ exitStatus[o] # 0 => pid[o] = NoPid /\ life'[o] = "gone" /\ exitStatus[o] = code'[o]
               /\ open[o] /\ pid[o] = NoPid => life'[o] = "gone" /\ exitStatus[o] = code'[o]
    <3>1. /\ exitStatus[o] # 0 => pid[o] = NoPid /\ life[o] = "gone" /\ exitStatus[o] = code[o]
          /\ open[o] /\ pid[o] = NoPid => life[o] = "gone" /\ exitStatus[o] = code[o]
      BY <2>1 DEF KInv, StatusKept
    <3> QED
      BY <1>1, <3>1
  <2> QED
    BY <2>1 DEF StatusKept
<1> QED
  BY <1>2, <1>3, <1>4, <1>5, <1>6, <1>7, <1>8 DEF KInv

\* The answers given before stay true while children run and end.
LEMMA SameAnswer ==
  ASSUME ConstantsOK, TypeOK, AInv, UNCHANGED <<ret, open, reuse>>,
         \A o \in Objs : /\ life'[o] = "gone" <=> life[o] = "gone"
                         /\ life[o] = "gone" => code'[o] = code[o]
  PROVE  AInv'
<1>1. CASE ret.op \notin {"status", "running"}
  BY <1>1, OtherAnswer
<1>2. CASE ret.op \in {"status", "running"}
  <2>1. ret.obj \in Objs
    BY <1>2 DEF AInv
  <2>2. PolledStatus'
    BY <2>1 DEF AInv, PolledStatus
  <2>3. FailureIsNotRunning'
    BY <2>1 DEF AInv, FailureIsNotRunning
  <2> QED
    BY <2>1, <2>2, <2>3 DEF AInv
<1> QED
  BY <1>1, <1>2

-----------------------------------------------------------------------------
(* Steps that wait for a child, end an object's hold on its pid, or both.  *)

Reaped(o) == HasChild(o) => life'[Target(o)] = "gone"

\* A step on behalf of object o: it may wait for the child that o's pid leads to; it
\* takes o's pid and o's ID away only together with such a child.
ReapStep(o) ==
  /\ wait' = NoObj /\ UNCHANGED <<nobj, reuse>>
  /\ wait # NoObj => wait = o /\ Reaped(o)
  /\ \A x \in Objs : life'[x] = life[x] \/ (life'[x] = "gone" /\ HasChild(o) /\ x = Target(o))
  /\ \A q \in Pids : owner'[q] = owner[q] \/ (owner'[q] = Free /\ q = pid[o] /\ Reaped(o))
  /\ HasChild(o) /\ life'[Target(o)] = "gone" => owner'[pid[o]] = Free
  /\ \A x \in Objs : pid'[x] = pid[x] \/ (pid'[x] = NoPid /\ x = o /\ Reaped(o))
  /\ \A q \in Pids : processes'[q] = processes[q] \/ (processes'[q] = NoObj /\ processes[q] = o /\ Reaped(o))
  /\ \A x \in Objs : x # o => /\ exitStatus'[x] = exitStatus[x] /\ open'[x] = open[x] /\ alive'[x] = alive[x]
                             /\ (~reuse => code'[x] = code[x])
  /\ alive'[o] = alive[o] \/ (life'[o] = "gone" /\ \A q \in Pids : processes'[q] # o)

StatusOf(o) ==
  /\ exitStatus'[o] # 0 => pid'[o] = NoPid /\ life'[o] = "gone" /\ exitStatus'[o] = code'[o]
  /\ open'[o] /\ pid'[o] = NoPid => life'[o] = "gone" /\ exitStatus'[o] = code'[o]

LEMMA Reaps ==
  ASSUME ConstantsOK, TypeOK, KInv, NEW o \in 1..nobj, ReapStep(o), ~reuse => StatusOf(o)
  PROVE  KInv'
<1>0. o \in Objs /\ nobj \in Nat
  BY DEF TypeOK, Objs, ConstantsOK
<1>1. ASSUME NEW x \in Objs, Unreaped(x)'
      PROVE  /\ Unreaped(x) /\ life'[x] # "gone" /\ pid'[x] = pid[x]
             /\ pid[x] \in Pids /\ owner[pid[x]] = x
             /\ pid[x] = pid[o] => ~Reaped(o)
  <2>1. Unreaped(x) /\ life'[x] # "gone"
    BY <1>1 DEF ReapStep, Unreaped
  <2>2. pid[x] \in Pids /\ owner[pid[x]] = x
    BY <2>1 DEF KInv, ChildHasPid
  <2>3. pid[x] = pid[o] => ~Reaped(o)
    BY <2>1, <2>2, ObjFacts DEF Reaped, HasChild, Target
  <2>4. pid'[x] = pid[x]
    BY <2>3 DEF ReapStep
  <2> QED
    BY <2>1, <2>2, <2>3, <2>4
<1>2. ChildHasPid'
  <2>1. ASSUME NEW x \in Objs, Unreaped(x)' PROVE pid'[x] \in Pids /\ owner'[pid'[x]] = x
    BY <1>1, <2>1 DEF ReapStep
  <2> QED
    BY <2>1 DEF ChildHasPid
<1>3. PidHasChild'
  <2>1. ASSUME NEW q \in Pids, owner'[q] \in Objs
        PROVE  life'[owner'[q]] \in {"run", "zombie"} /\ pid'[owner'[q]] = q
    <3> DEFINE x == owner[q]
    <3>1. owner'[q] = x /\ x \in Objs
      BY <2>1, ObjFacts DEF ReapStep
    <3>2. Unreaped(x) /\ pid[x] = q
      BY <3>1 DEF KInv, PidHasChild
    <3>3. q = pid[o] => HasChild(o) /\ Target(o) = x
      BY <3>1, ObjFacts DEF HasChild, Target
    <3>4. q = pid[o] => life'[x] # "gone"
      BY <3>1, <3>3, ObjFacts DEF ReapStep
    <3>5. life'[x] = life[x]
      <4>1. CASE life'[x] # "gone"
        BY <3>1, <4>1 DEF ReapStep
      <4>2. CASE life'[x] = "gone" /\ HasChild(o) /\ x = Target(o)
        <5>1. pid[o] = q
          BY <3>2, <4>2, <1>0, TargetFacts
        <5> QED
          BY <5>1, <4>2, <3>4
      <4> QED
        BY <3>1, <4>1, <4>2 DEF ReapStep
    <3>6. pid'[x] = q
      <4>1. CASE x # o
        BY <3>1, <3>2, <4>1 DEF ReapStep
      <4>2. CASE x = o
        BY <3>1, <3>2, <3>3, <3>4, <4>2 DEF ReapStep, Reaped
      <4> QED
        BY <4>1, <4>2
    <3> HIDE DEF x
    <3> QED
      BY <3>1, <3>2, <3>5, <3>6 DEF Unreaped
  <2> QED
    BY <2>1 DEF PidHasChild, Unreaped
<1>4. Fresh'
  <2>1. ASSUME NEW x \in Objs, x > nobj
        PROVE  ~alive'[x] /\ pid'[x] = NoPid /\ life'[x] = "none" /\ ~open'[x] /\ exitStatus'[x] = 0
    <3>1. ~alive[x] /\ pid[x] = NoPid /\ life[x] = "none" /\ ~open[x] /\ exitStatus[x] = 0
      BY <2>1 DEF KInv, Fresh
    <3>2. x # o
      BY <2>1, <1>0
    <3>3. ~(HasChild(o) /\ x = Target(o))
      BY <3>1, <1>0, TargetFacts DEF Unreaped
    <3> QED
      BY <3>1, <3>2, <3>3 DEF ReapStep
  <2> QED
    BY <2>1 DEF Fresh, ReapStep
<1>5. ASSUME NEW q \in Pids, Managed(q)'
      PROVE  Managed(q) /\ processes'[q] = processes[q] /\ processes[q] \in Objs
  BY <1>5 DEF ReapStep, Managed, TypeOK
<1>6. IdsAreObjects'
  <2>1. ASSUME NEW q \in Pids, Managed(q)'
        PROVE  /\ processes'[q] \in 1..nobj /\ life'[processes'[q]] # "none"
               /\ \A r \in Pids : processes'[r] = processes'[q] => r = q
    <3>1. Managed(q) /\ processes'[q] = processes[q] /\ processes[q] \in Objs
      BY <1>5, <2>1
    <3>2. processes[q] \in 1..nobj /\ life[processes[q]] # "none"
      BY <3>1 DEF KInv, IdsAreObjects
    <3>3. life'[processes[q]] # "none"
      BY <3>1, <3>2 DEF ReapStep
    <3>4. ASSUME NEW r \in Pids, processes'[r] = processes'[q] PROVE r = q
      <4>1. processes[r] = processes[q]
        BY <3>1, <3>4, ObjFacts DEF ReapStep
      <4> QED
        BY <3>1, <4>1 DEF KInv, IdsAreObjects
    <3> QED
      BY <3>1, <3>2, <3>3, <3>4
  <2> QED
    BY <2>1 DEF IdsAreObjects, ReapStep
<1>7. HandleCoherent'
  <2>1. ASSUME NEW q \in Pids, Managed(q)'
        PROVE  alive'[processes'[q]] /\ pid'[processes'[q]] \in {q, NoPid}
    <3>1. Managed(q) /\ processes'[q] = processes[q] /\ processes[q] \in Objs
      BY <1>5, <2>1
    <3>2. alive[processes[q]] /\ pid[processes[q]] \in {q, NoPid}
      BY <3>1 DEF KInv, HandleCoherent
    <3>3. alive'[processes[q]]
      BY <3>1, <3>2 DEF ReapStep
    <3>4. pid'[processes[q]] \in {q, NoPid}
      BY <3>1, <3>2 DEF ReapStep
    <3> QED
      BY <3>1, <3>3, <3>4
  <2> QED
    BY <2>1 DEF HandleCoherent
<1>8. ReleasedIsReaped'
  <2>1. ASSUME NEW x \in 1..nobj, ~alive'[x] PROVE life'[x] = "gone"
    <3>1. x \in Objs
      BY <1>0 DEF TypeOK, Objs, ConstantsOK
    <3>2. ~alive[x] => life[x] = "gone"
      BY DEF KInv, ReleasedIsReaped
    <3>3. alive'[x] = alive[x] \/ life'[x] = "gone"
      BY <3>1 DEF ReapStep
    <3> QED
      BY <2>1, <3>1, <3>2, <3>3 DEF ReapStep
  <2> QED
    BY <2>1 DEF ReleasedIsReaped, ReapStep
<1>9. Waiting'
  BY DEF Waiting, ReapStep
<1>10. ~reuse' => Reachable'
  <2>1. ASSUME ~reuse, NEW x \in Objs, Unreaped(x)' PROVE processes'[pid'[x]] = x
    <3>1. Unreaped(x) /\ pid'[x] = pid[x] /\ pid[x] \in Pids /\ (pid[x] = pid[o] => ~Reaped(o))
      BY <1>1, <2>1
    <3>2. processes[pid[x]] = x \/ wait = x
      BY <2>1, <3>1 DEF KInv, Reachable
    <3>3. wait # x
      BY <3>1, ObjFacts DEF ReapStep
    <3>4. processes'[pid[x]] = x
      BY <3>1, <3>2, <3>3 DEF ReapStep
    <3> QED
      BY <3>1, <3>4
  <2> QED
    BY <2>1 DEF Reachable, ReapStep
<1>11. ~reuse' => StatusKept'
  <2>1. ASSUME ~reuse, NEW x \in Objs PROVE StatusOf(x)
    <3>1. CASE x = o
      BY <2>1, <3>1
    <3>2. CASE x # o
      <4>1. /\ exitStatus[x] # 0 => pid[x] = NoPid /\ life[x] = "gone" /\ exitStatus[x] = code[x]
            /\ open[x] /\ pid[x] = NoPid => life[x] = "gone" /\ exitStatus[x] = code[x]
        BY <2>1 DEF KInv, StatusKept
      <4>2. /\ exitStatus'[x] = exitStatus[x] /\ open'[x] = open[x] /\ code'[x] = code[x] /\ pid'[x] = pid[x]
            /\ life[x] = "gone" => life'[x] = "gone"
        BY <2>1, <3>2 DEF ReapStep
      <4> QED
        BY <4>1, <4>2 DEF StatusOf
    <3> QED
      BY <3>1, <3>2
  <2> QED
    BY <2>1 DEF StatusKept, StatusOf, ReapStep
<1> QED
  BY <1>2, <1>3, <1>4, <1>6, <1>7, <1>8, <1>9, <1>10, <1>11 DEF KInv, ReapStep

-----------------------------------------------------------------------------
(* The types, in three groups.                                             *)

KType ==
  /\ nobj \in 0..MaxStarts
  /\ alive \in [Objs -> BOOLEAN]
  /\ pid \in [Objs -> Pids \cup {NoPid}]
  /\ exitStatus \in [Objs -> Nat]
  /\ open \in [Objs -> BOOLEAN]
  /\ processes \in [Pids -> Objs \cup {NoObj}]
  /\ wait \in Objs \cup {NoObj}
  /\ down \in BOOLEAN
  /\ reuse \in BOOLEAN
  /\ owner \in [Pids -> Objs \cup {Free, Foreign}]
  /\ life \in [Objs -> {"none", "run", "zombie", "gone"}]
  /\ code \in [Objs -> Nat]

RType == ret \in [op : Ops, obj : Objs \cup {NoObj}, val : Int]

SType ==
  /\ buf \in [Objs -> [Streams -> Seq(Chars)]]
  /\ chan \in [Objs -> [Streams -> Seq(Chars)]]
  /\ written \in [Objs -> [Streams -> Seq(Chars)]]
  /\ delivered \in [Objs -> [Streams -> Seq(Chars)]]

LEMMA TypeGroups == TypeOK <=> KType /\ RType /\ SType
BY DEF TypeOK, KType, RType, SType

LEMMA AnswerType ==
  ASSUME NEW op \in Ops, NEW o \in Objs \cup {NoObj}, NEW val \in Int, Answer(op, o, val)
  PROVE  RType' /\ ret'.op = op /\ ret'.obj = o /\ ret'.val = val
BY DEF Answer, RType

-----------------------------------------------------------------------------
(* The buffers.                                                            *)

LEMMA LeastExists ==
  ASSUME NEW S \in SUBSET Nat, S # {}
  PROVE  \E m \in S : \A j \in S : m <= j
<1>1. PICK x \in S : \A y \in S : ~(<<y, x>> \in OpToRel(<, Nat))
  BY NatLessThanWellFounded, WFMin
<1>2. \A y \in S : ~(y < x)
  BY <1>1 DEF OpToRel
<1> QED
  BY <1>2

LEMMA LineEndRange ==
  ASSUME NEW s \in Seq(Chars)
  PROVE  LineEnd(s) \in 0..Len(s)
<1>0. Len(s) \in Nat
  BY LenProperties
<1>1. CASE ~\E i \in 1..Len(s) : s[i] = "nl"
  BY <1>0, <1>1 DEF LineEnd
<1>2. CASE \E i \in 1..Len(s) : s[i] = "nl"
  <2> DEFINE Ends == {i \in 1..Len(s) : s[i] = "nl"}
  <2>1. Ends \subseteq Nat /\ Ends # {}
    BY <1>0, <1>2
  <2>2. PICK i \in Ends : \A j \in Ends : i <= j
    BY <2>1, LeastExists
  <2>3. i \in 1..Len(s) /\ s[i] = "nl" /\ \A j \in 1..(i-1) : s[j] # "nl"
    BY <1>0, <2>2
  <2>4. LineEnd(s) = CHOOSE k \in 1..Len(s) : s[k] = "nl" /\ \A j \in 1..(k-1) : s[j] # "nl"
    BY <1>2 DEF LineEnd
  <2>5. LineEnd(s) \in 1..Len(s)
    BY <2>3, <2>4
  <2> QED
    BY <1>0, <2>5
<1> QED
  BY <1>1, <1>2

LEMMA Cat ==
  ASSUME NEW s \in Seq(Chars), NEW t \in Seq(Chars)
  PROVE  s \o t \in Seq(Chars) /\ Len(s \o t) = Len(s) + Len(t)
BY ConcatProperties

LEMMA CatAssociative ==
  ASSUME NEW s \in Seq(Chars), NEW t \in Seq(Chars), NEW u \in Seq(Chars)
  PROVE  (s \o t) \o u = s \o (t \o u)
BY ConcatAssociative

\* A sequence is cut in two.
LEMMA TakeDrop ==
  ASSUME NEW s \in Seq(Chars), NEW n \in 0..Len(s)
  PROVE  /\ Take(s, n) \in Seq(Chars) /\ Drop(s, n) \in Seq(Chars)
         /\ Len(Take(s, n)) = n /\ Take(s, n) \o Drop(s, n) = s
<1>0. Len(s) \in Nat /\ \A i \in 1..Len(s) : s[i] \in Chars
  BY LenProperties, ElementOfSeq
<1>1. Take(s, n) \in Seq(Chars) /\ Len(Take(s, n)) = n
  <2>1. \A i \in 1..n : s[i] \in Chars
    BY <1>0
  <2> QED
    BY <1>0, <2>1, SubSeqProperties DEF Take
<1>2. Drop(s, n) \in Seq(Chars)
  <2>1. \A i \in (n + 1)..Len(s) : s[i] \in Chars
    BY <1>0
  <2>2. n + 1 \in Int /\ Len(s) \in Int
    BY <1>0
  <2> QED
    BY <2>1, <2>2, SubSeqProperties DEF Drop
<1>3. SubSeq(s, 1, n) \o SubSeq(s, n + 1, Len(s)) = SubSeq(s, 1, Len(s))
  <2>1. 1 \in 1..Len(s)+1 /\ n \in 1-1..Len(s) /\ Len(s) \in n..Len(s)
    BY <1>0
  <2> QED
    BY <2>1, ConcatAdjacentSubSeq
<1> QED
  BY <1>1, <1>2, <1>3, SubSeqFull DEF Take, Drop

StreamsKept == SType' /\ (OutputInOrder => OutputInOrder')

LEMMA SameStreams ==
  ASSUME SType, UNCHANGED <<buf, chan, written, delivered>>
  PROVE  StreamsKept
BY ZenonT(30) DEF SType, StreamsKept, OutputInOrder

LEMMA TransferKeeps ==
  ASSUME SType, NEW o \in Objs, NEW s \in Streams, NEW n \in 0..Len(chan[o][s]),
         NEW k \in 0..Len(buf[o][s] \o Take(chan[o][s], n)), Transfer(o, s, n, k), UNCHANGED written
  PROVE  StreamsKept
<1> DEFINE b == buf[o][s]
           c == chan[o][s]
           d == delivered[o][s]
           full == b \o Take(c, n)
<1>1. b \in Seq(Chars) /\ c \in Seq(Chars) /\ d \in Seq(Chars)
  BY DEF SType
<1>2. /\ Drop(c, n) \in Seq(Chars) /\ Drop(full, k) \in Seq(Chars) /\ d \o Take(full, k) \in Seq(Chars)
      /\ (d \o Take(full, k)) \o (Drop(full, k) \o Drop(c, n)) = d \o (b \o c)
  <2> DEFINE moved == Take(c, n)
             left == Drop(c, n)
             given == Take(full, k)
             kept == Drop(full, k)
  <2>1. moved \in Seq(Chars) /\ left \in Seq(Chars) /\ moved \o left = c
    BY <1>1, TakeDrop, Zenon
  <2>2. full = b \o moved /\ full \in Seq(Chars)
    BY <1>1, <2>1, Cat, Zenon
  <2>3. given \in Seq(Chars) /\ kept \in Seq(Chars) /\ given \o kept = full
    <3>1. k \in 0..Len(full)
      OBVIOUS
    <3> HIDE DEF full
    <3> QED
      BY <2>2, <3>1, TakeDrop, Zenon
  <2> HIDE DEF moved, left, given, kept, full, b, c, d
  <2>4. (d \o given) \o (kept \o left) = d \o ((given \o kept) \o left)
    <3>1. d \in Seq(Chars) /\ given \in Seq(Chars) /\ kept \in Seq(Chars) /\ left \in Seq(Chars)
      BY <1>1, <2>1, <2>3, Zenon
    <3>2. kept \o left \in Seq(Chars)
      BY <3>1, Cat, Zenon
    <3>3. (d \o given) \o (kept \o left) = d \o (given \o (kept \o left))
      BY <3>1, <3>2, CatAssociative, Zenon
    <3>4. (given \o kept) \o left = given \o (kept \o left)
      BY <3>1, CatAssociative, Zenon
    <3> QED
      BY <3>3, <3>4, Zenon
  <2>5. (b \o moved) \o left = b \o (moved \o left)
    BY <1>1, <2>1, CatAssociative, ZenonT(60)
  <2>6. d \o given \in Seq(Chars)
    BY <1>1, <2>3, Cat
  <2>7. (d \o given) \o (kept \o left) = d \o (b \o c)
    BY <2>1, <2>2, <2>3, <2>4, <2>5, Zenon
  <2> QED
    BY <2>1, <2>3, <2>6, <2>7 DEF moved, left, given, kept
<1>3. /\ chan' = [chan EXCEPT ![o][s] = Drop(c, n)]
      /\ buf' = [buf EXCEPT ![o][s] = Drop(full, k)]
      /\ delivered' = [delivered EXCEPT ![o][s] = d \o Take(full, k)]
  BY DEF Transfer
<1> DEFINE c2 == Drop(c, n)
           b2 == Drop(full, k)
           d2 == d \o Take(full, k)
<1>4. /\ c2 \in Seq(Chars) /\ b2 \in Seq(Chars) /\ d2 \in Seq(Chars) /\ d2 \o (b2 \o c2) = d \o (b \o c)
      /\ chan' = [chan EXCEPT ![o][s] = c2] /\ buf' = [buf EXCEPT ![o][s] = b2] /\ delivered' = [delivered EXCEPT ![o][s] = d2]
  BY <1>2, <1>3
<1> HIDE DEF c2, b2, d2
<1>5. SType'
  BY <1>4 DEF SType
<1>6. ASSUME OutputInOrder, NEW x \in Objs, NEW t \in Streams
      PROVE  delivered'[x][t] \o (buf'[x][t] \o chan'[x][t]) = written'[x][t]
  <2>1. delivered[x][t] \o (buf[x][t] \o chan[x][t]) = written[x][t]
    BY <1>6, ZenonT(60) DEF OutputInOrder
  <2>2. CASE x = o /\ t = s
    <3>1. chan'[x][t] = c2 /\ buf'[x][t] = b2 /\ delivered'[x][t] = d2
      BY <1>4, <2>2 DEF SType
    <3> QED
      BY <1>4, <2>1, <2>2, <3>1
  <2>3. CASE ~(x = o /\ t = s)
    <3>1. chan'[x][t] = chan[x][t] /\ buf'[x][t] = buf[x][t] /\ delivered'[x][t] = delivered[x][t]
      BY <1>4, <2>3 DEF SType
    <3> QED
      BY <2>1, <3>1
  <2> QED
    BY <2>2, <2>3
<1> QED
  BY <1>5, <1>6 DEF StreamsKept, OutputInOrder

\* What the reads take from a pipe is there.
LEMMA InputRange ==
  ASSUME SType, NEW o \in Objs, NEW s \in Streams
  PROVE  /\ Readable(o, s) \in 0..Len(chan[o][s]) /\ LineInput(o, s) \in 0..Len(chan[o][s])
<1>1. chan[o][s] \in Seq(Chars)
  BY DEF SType
<1>2. Len(chan[o][s]) \in Nat /\ LineEnd(chan[o][s]) \in 0..Len(chan[o][s])
  BY <1>1, LenProperties, LineEndRange
<1>3. Readable(o, s) \in 0..Len(chan[o][s])
  BY <1>2 DEF Readable
<1>4. UptoLine(chan[o][s]) \in 0..Len(chan[o][s])
  BY <1>2 DEF UptoLine
<1> QED
  BY <1>3, <1>4 DEF LineInput

\* The buffer and what is added to it.
LEMMA FullRange ==
  ASSUME SType, NEW o \in Objs, NEW s \in Streams, NEW n \in 0..Len(chan[o][s])
  PROVE  /\ buf[o][s] \o Take(chan[o][s], n) \in Seq(Chars)
         /\ Len(buf[o][s] \o Take(chan[o][s], n)) = Len(buf[o][s]) + n
         /\ Len(buf[o][s]) \in Nat /\ n \in Nat
         /\ LineEnd(buf[o][s] \o Take(chan[o][s], n)) \in 0..Len(buf[o][s] \o Take(chan[o][s], n))
<1>1. buf[o][s] \in Seq(Chars) /\ chan[o][s] \in Seq(Chars)
  BY DEF SType
<1>2. Take(chan[o][s], n) \in Seq(Chars) /\ Len(Take(chan[o][s], n)) = n
  BY <1>1, TakeDrop
<1>3. /\ buf[o][s] \o Take(chan[o][s], n) \in Seq(Chars)
      /\ Len(buf[o][s] \o Take(chan[o][s], n)) = Len(buf[o][s]) + n
  BY <1>1, <1>2, Cat, ZenonT(60)
<1>4. Len(buf[o][s]) \in Nat /\ Len(chan[o][s]) \in Nat
  BY <1>1, LenProperties
<1>5. LineEnd(buf[o][s] \o Take(chan[o][s], n)) \in 0..Len(buf[o][s] \o Take(chan[o][s], n))
  BY <1>3, LineEndRange, Zenon
<1>6. n \in Nat
  BY <1>4
<1> QED
  BY <1>3, <1>4, <1>5, <1>6, Zenon

-----------------------------------------------------------------------------
(* The actions.  Each keeps the types, KInv and AInv.                      *)

LEMMA InitIInv ==
  ASSUME ConstantsOK, Init
  PROVE  IInv
<1>1. KType
  <2>1. nobj \in 0..MaxStarts
    BY DEF Init, ConstantsOK
  <2>2. pid \in [Objs -> Pids \cup {NoPid}] /\ exitStatus \in [Objs -> Nat] /\ code \in [Objs -> Nat]
    BY DEF Init
  <2>3. processes \in [Pids -> Objs \cup {NoObj}] /\ owner \in [Pids -> Objs \cup {Free, Foreign}]
    BY DEF Init
  <2>4. life \in [Objs -> {"none", "run", "zombie", "gone"}]
    BY DEF Init
  <2>5. alive \in [Objs -> BOOLEAN] /\ open \in [Objs -> BOOLEAN] /\ down \in BOOLEAN /\ reuse \in BOOLEAN
    BY DEF Init
  <2>6. wait \in Objs \cup {NoObj}
    BY DEF Init
  <2> QED
    BY <2>1, <2>2, <2>3, <2>4, <2>5, <2>6 DEF KType
<1>2. RType
  BY DEF Init, RType, Ops, NoObj, Null
<1>3. SType
  BY DEF Init, SType, Empty
<1>4. Fresh /\ ChildHasPid /\ PidHasChild /\ Waiting /\ ReleasedIsReaped
  BY ObjFacts DEF Init, Fresh, ChildHasPid, PidHasChild, Unreaped, Waiting, ReleasedIsReaped
<1>5. IdsAreObjects /\ HandleCoherent
  BY DEF Init, IdsAreObjects, HandleCoherent, Managed
<1>6. Reachable /\ StatusKept
  BY DEF Init, Reachable, StatusKept, Unreaped
<1>7. AInv
  BY DEF Init, AInv, PolledStatus, FailureIsNotRunning
<1> QED
  BY <1>1, <1>2, <1>3, <1>4, <1>5, <1>6, <1>7, TypeGroups DEF IInv, KInv

Kept == KType' /\ RType' /\ KInv' /\ AInv'

\* Requests that change nothing but the streams.
LEMMA StreamRequest ==
  ASSUME ConstantsOK, IInv, UNCHANGED kernelVars, UNCHANGED down,
         NEW op \in Ops \ {"status", "running"}, NEW o \in Objs \cup {NoObj}, NEW val \in Int, Answer(op, o, val)
  PROVE  Kept
<1>1. KType'
  BY TypeGroups DEF IInv, KType, kernelVars
<1>2. RType' /\ ret'.op = op
  BY AnswerType
<1>3. KInv'
  BY SameKernel DEF IInv
<1>4. AInv'
  BY <1>2, OtherAnswer
<1> QED
  BY <1>1, <1>2, <1>3, <1>4 DEF Kept

LEMMA KeepsReject ==
  ASSUME ConstantsOK, IInv, Reject
  PROVE  Kept /\ StreamsKept
<1>1. Kept
  <2>1. "reject" \in Ops \ {"status", "running"} /\ NoObj \in Objs \cup {NoObj} /\ Null \in Int
    BY DEF Ops, Null
  <2> QED
    BY <2>1, StreamRequest DEF Reject, kernelVars, osVars
<1>2. StreamsKept
  BY SameStreams, TypeGroups DEF IInv, Reject, osVars
<1> QED
  BY <1>1, <1>2

LEMMA KeepsReadLine ==
  ASSUME ConstantsOK, IInv, NEW p \in Pids, NEW s \in Streams, ReadLine(p, s)
  PROVE  Kept /\ StreamsKept
<1> DEFINE o == processes[p]
           n == LineInput(o, s)
           full == buf[o][s] \o Take(chan[o][s], n)
           k == LineEnd(full)
<1>1. o \in Objs /\ SType
  BY IdFacts, TypeGroups DEF IInv, ReadLine
<1> HIDE DEF o
<1>2. n \in 0..Len(chan[o][s])
  BY <1>1, InputRange
<1> HIDE DEF n
<1>3. k \in 0..Len(full) /\ Len(full) \in Nat
  <2>1. k \in 0..Len(full) /\ full \in Seq(Chars)
    BY <1>1, <1>2, FullRange, Zenon
  <2> HIDE DEF k, full
  <2> QED
    BY <2>1, LenProperties
<1> HIDE DEF full, k
<1>4. Transfer(o, s, n, k) /\ Answer("read_line", o, IF k = 0 THEN Nil ELSE k - 1)
  BY DEF ReadLine, o, n, k, full
<1>5. Kept
  <2>1. "read_line" \in Ops \ {"status", "running"} /\ o \in Objs \cup {NoObj} /\ (IF k = 0 THEN Nil ELSE k - 1) \in Int
    BY <1>1, <1>3 DEF Ops, Nil
  <2>2. UNCHANGED kernelVars /\ UNCHANGED down
    BY DEF ReadLine, kernelVars
  <2> QED
    BY <1>4, <2>1, <2>2, StreamRequest
<1>6. StreamsKept
  <2>1. UNCHANGED written
    BY DEF ReadLine
  <2>2. k \in 0..Len(buf[o][s] \o Take(chan[o][s], n))
    BY <1>3, ZenonT(60) DEF full
  <2> QED
    BY <1>1, <1>2, <1>4, <2>1, <2>2, TransferKeeps
<1> QED
  BY <1>5, <1>6

LEMMA KeepsRead ==
  ASSUME ConstantsOK, IInv, NEW p \in Pids, NEW s \in Streams, Read(p, s)
  PROVE  Kept /\ StreamsKept
<1> DEFINE o == processes[p]
           n == Readable(o, s)
           k == Len(buf[o][s]) + n
<1>1. o \in Objs /\ SType
  BY IdFacts, TypeGroups DEF IInv, Read
<1> HIDE DEF o
<1>2. n \in 0..Len(chan[o][s])
  BY <1>1, InputRange
<1> HIDE DEF n
<1>3. k \in Nat /\ k \in 0..Len(buf[o][s] \o Take(chan[o][s], n))
  <2>1. /\ Len(buf[o][s] \o Take(chan[o][s], n)) = Len(buf[o][s]) + n
        /\ Len(buf[o][s]) \in Nat /\ n \in Nat
    BY <1>1, <1>2, FullRange, Zenon
  <2> QED
    BY <2>1
<1> HIDE DEF k
<1>4. Transfer(o, s, n, k) /\ Answer("read", o, IF k = 0 THEN Nil ELSE k)
  BY DEF Read, o, n, k
<1>5. Kept
  <2>1. "read" \in Ops \ {"status", "running"} /\ o \in Objs \cup {NoObj} /\ (IF k = 0 THEN Nil ELSE k) \in Int
    BY <1>1, <1>3 DEF Ops, Nil
  <2>2. UNCHANGED kernelVars /\ UNCHANGED down
    BY DEF Read, kernelVars
  <2> QED
    BY <1>4, <2>1, <2>2, StreamRequest
<1>6. StreamsKept
  <2>1. UNCHANGED written
    BY DEF Read
  <2> QED
    BY <1>1, <1>2, <1>3, <1>4, <2>1, TransferKeeps
<1> QED
  BY <1>5, <1>6

LEMMA KeepsBufferEmpty ==
  ASSUME ConstantsOK, IInv, NEW p \in Pids, BufferEmpty(p)
  PROVE  Kept /\ StreamsKept
<1> DEFINE o == processes[p]
           n == LineInput(o, "out")
           val == IF Len(buf[o]["out"]) + n = 0 THEN 1 ELSE 0
<1>1. o \in Objs /\ SType /\ "out" \in Streams
  BY IdFacts, TypeGroups DEF IInv, BufferEmpty, Streams
<1> HIDE DEF o
<1>2. n \in 0..Len(chan[o]["out"])
  BY <1>1, InputRange
<1> HIDE DEF n
<1>3. 0 \in 0..Len(buf[o]["out"] \o Take(chan[o]["out"], n)) /\ val \in Int
  <2>1. /\ Len(buf[o]["out"] \o Take(chan[o]["out"], n)) = Len(buf[o]["out"]) + n
        /\ Len(buf[o]["out"]) \in Nat /\ n \in Nat
    BY <1>1, <1>2, FullRange, Zenon
  <2> QED
    BY <2>1
<1>4. Transfer(o, "out", n, 0) /\ Answer("buffer_empty", o, val)
  BY DEF BufferEmpty, o, n
<1> HIDE DEF val
<1>5. Kept
  <2>1. "buffer_empty" \in Ops \ {"status", "running"} /\ o \in Objs \cup {NoObj}
    BY <1>1 DEF Ops
  <2>2. UNCHANGED kernelVars /\ UNCHANGED down
    BY DEF BufferEmpty, kernelVars
  <2> QED
    BY <1>3, <1>4, <2>1, <2>2, StreamRequest
<1>6. StreamsKept
  <2>1. UNCHANGED written
    BY DEF BufferEmpty
  <2> QED
    BY <1>1, <1>2, <1>3, <1>4, <2>1, TransferKeeps
<1> QED
  BY <1>5, <1>6

\* Steps without a new answer that leave the objects alone.
LEMMA SilentStep ==
  ASSUME ConstantsOK, IInv, UNCHANGED kernelVars, down' \in BOOLEAN, UNCHANGED ret
  PROVE  Kept
<1>1. KType'
  BY TypeGroups DEF IInv, KType, kernelVars
<1>2. RType'
  BY TypeGroups DEF IInv, RType
<1>3. KInv'
  BY SameKernel DEF IInv
<1>4. AInv'
  BY SameAnswer DEF IInv, kernelVars
<1> QED
  BY <1>1, <1>2, <1>3, <1>4 DEF Kept

LEMMA KeepsShutdown ==
  ASSUME ConstantsOK, IInv, Shutdown
  PROVE  Kept /\ StreamsKept
<1>1. Kept
  BY SilentStep DEF Shutdown, kernelVars, osVars
<1>2. StreamsKept
  BY SameStreams, TypeGroups DEF IInv, Shutdown, osVars
<1> QED
  BY <1>1, <1>2

LEMMA KeepsStutter ==
  ASSUME ConstantsOK, IInv, UNCHANGED vars
  PROVE  Kept /\ StreamsKept
<1>1. down' \in BOOLEAN
  BY DEF IInv, TypeOK, vars, agentVars
<1>2. Kept
  BY <1>1, SilentStep DEF vars, agentVars, kernelVars, osVars
<1>3. StreamsKept
  BY SameStreams, TypeGroups DEF IInv, vars, agentVars, osVars
<1> QED
  BY <1>2, <1>3

\* A child ends: what the step leaves of it.
LEMMA EndStep ==
  ASSUME ConstantsOK, IInv, NEW t \in Objs, life[t] = "run", NEW c \in Nat,
         life' = [life EXCEPT ![t] = "zombie"], code' = [code EXCEPT ![t] = c],
         UNCHANGED <<nobj, alive, pid, exitStatus, open, processes, wait, reuse, owner, down>>
  PROVE  /\ KType' /\ KInv'
         /\ ret' = ret => AInv'
<1>1. KType'
  BY TypeGroups DEF IInv, KType
<1>2. KInv'
  BY ChildEnds DEF IInv
<1>3. ASSUME NEW x \in Objs
      PROVE  (life'[x] = "gone" <=> life[x] = "gone") /\ (life[x] = "gone" => code'[x] = code[x])
  BY DEF IInv, TypeOK
<1>4. ret' = ret => AInv'
  BY <1>3, SameAnswer DEF IInv
<1> QED
  BY <1>1, <1>2, <1>4

LEMMA KeepsChildExits ==
  ASSUME ConstantsOK, IInv, NEW o \in Objs, NEW c \in ExitCodes, ChildExits(o, c)
  PROVE  Kept /\ StreamsKept
<1>1. KType' /\ KInv' /\ AInv'
  BY EndStep DEF ConstantsOK, ChildExits, agentVars
<1>2. RType'
  BY TypeGroups DEF IInv, RType, ChildExits, agentVars
<1>3. StreamsKept
  BY SameStreams, TypeGroups DEF IInv, ChildExits, agentVars
<1> QED
  BY <1>1, <1>2, <1>3 DEF Kept

LEMMA KeepsChildWrites ==
  ASSUME ConstantsOK, IInv, NEW o \in Objs, NEW s \in Streams, NEW c \in Chars, ChildWrites(o, s, c)
  PROVE  Kept /\ StreamsKept
<1>1. CASE ~(s = "err" \/ open[o])
  <2>1. /\ life[o] = "run" /\ life' = [life EXCEPT ![o] = "zombie"] /\ code' = [code EXCEPT ![o] = Status(SIGPIPE)]
        /\ UNCHANGED <<chan, written>>
    BY <1>1 DEF ChildWrites
  <2>2. Status(SIGPIPE) \in Nat
    BY DEF Status, SIGPIPE
  <2>3. KType' /\ KInv' /\ AInv'
    BY <2>1, <2>2, EndStep, ZenonT(60) DEF ChildWrites, agentVars
  <2>4. RType'
    BY TypeGroups DEF IInv, RType, ChildWrites, agentVars
  <2>5. StreamsKept
    BY <2>1, SameStreams, TypeGroups DEF IInv, ChildWrites, agentVars
  <2> QED
    BY <2>3, <2>4, <2>5 DEF Kept
<1>2. CASE s = "err" \/ open[o]
  <2>1. Kept
    <3>1. down' \in BOOLEAN
      BY DEF IInv, TypeOK, ChildWrites, agentVars
    <3> QED
      BY <1>2, <3>1, SilentStep DEF ChildWrites, agentVars, kernelVars
  <2> DEFINE ch == chan[o][s]
             w == written[o][s]
  <2>2. ch \in Seq(Chars) /\ w \in Seq(Chars) /\ SType
    BY TypeGroups DEF IInv, SType
  <2>3. /\ chan' = [chan EXCEPT ![o][s] = Append(ch, c)] /\ written' = [written EXCEPT ![o][s] = Append(w, c)]
        /\ UNCHANGED <<buf, delivered>>
    BY <1>2 DEF ChildWrites, agentVars
  <2> HIDE DEF ch, w
  <2>4. Append(ch, c) \in Seq(Chars) /\ Append(w, c) \in Seq(Chars)
    BY <2>2, AppendProperties
  <2>5. SType'
    BY <2>2, <2>3, <2>4 DEF SType
  <2>6. ASSUME OutputInOrder, NEW x \in Objs, NEW t \in Streams
        PROVE  delivered'[x][t] \o (buf'[x][t] \o chan'[x][t]) = written'[x][t]
    <3>1. delivered[x][t] \o (buf[x][t] \o chan[x][t]) = written[x][t]
      BY <2>6 DEF OutputInOrder
    <3>2. CASE ~(x = o /\ t = s)
      <4>1. chan'[x][t] = chan[x][t] /\ buf'[x][t] = buf[x][t] /\ delivered'[x][t] = delivered[x][t] /\ written'[x][t] = written[x][t]
        BY <2>2, <2>3, <3>2, ZenonT(60) DEF SType
      <4> QED
        BY <3>1, <4>1
    <3>3. CASE x = o /\ t = s
      <4> DEFINE b == buf[o][s]
                 d == delivered[o][s]
                 e == <<c>>
      <4>1. b \in Seq(Chars) /\ d \in Seq(Chars) /\ e \in Seq(Chars)
        BY <2>2 DEF SType
      <4>2. chan'[x][t] = Append(ch, c) /\ buf'[x][t] = b /\ delivered'[x][t] = d /\ written'[x][t] = Append(w, c)
        BY <2>2, <2>3, <3>3 DEF SType
      <4>3. Append(ch, c) = ch \o e /\ Append(w, c) = w \o e
        BY <2>2, AppendIsConcat
      <4>4. d \o (b \o ch) = w
        BY <3>1, <3>3 DEF ch, w
      <4> HIDE DEF b, d, e
      <4>5. b \o (ch \o e) = (b \o ch) \o e /\ b \o ch \in Seq(Chars)
        <5>1. b \o ch \in Seq(Chars)
          BY <2>2, <4>1, Cat, Zenon
        <5>2. (b \o ch) \o e = b \o (ch \o e)
          BY <2>2, <4>1, CatAssociative, ZenonT(60)
        <5> QED
          BY <5>1, <5>2, Zenon
      <4>6. d \o ((b \o ch) \o e) = (d \o (b \o ch)) \o e
        BY <4>1, <4>5, CatAssociative, Zenon
      <4>7. d \o (b \o (ch \o e)) = w \o e
        BY <4>4, <4>5, <4>6, Zenon
      <4> QED
        BY <4>2, <4>3, <4>7, Zenon
    <3> QED
      BY <3>2, <3>3
  <2> QED
    BY <2>1, <2>5, <2>6, ZenonT(60) DEF StreamsKept, OutputInOrder
<1> QED
  BY <1>1, <1>2

-----------------------------------------------------------------------------
(* The actions that wait for children.                                     *)

\* waitpid on the pid that object o holds.
LEMMA WaitpidFacts ==
  ASSUME ConstantsOK, IInv, NEW o \in Objs, waitpid(o)
  PROVE  /\ \A x \in Objs : life'[x] = life[x] \/ (life'[x] = "gone" /\ HasChild(o) /\ x = Target(o))
         /\ \A q \in Pids : owner'[q] = owner[q] \/ (owner'[q] = Free /\ q = pid[o] /\ Reaped(o))
         /\ HasChild(o) /\ life'[Target(o)] = "gone" => owner'[pid[o]] = Free
         /\ Reapable(o) => life'[Target(o)] = "gone"
         /\ ~Reapable(o) => life' = life
         /\ life' \in [Objs -> {"none", "run", "zombie", "gone"}]
         /\ owner' \in [Pids -> Objs \cup {Free, Foreign}]
<1>0. /\ life \in [Objs -> {"none", "run", "zombie", "gone"}] /\ owner \in [Pids -> Objs \cup {Free, Foreign}]
  BY DEF IInv, TypeOK
<1>1. HasChild(o) => pid[o] \in Pids /\ Target(o) \in Objs /\ Unreaped(Target(o))
  BY TargetFacts DEF IInv
<1>2. CASE Reapable(o)
  <2>1. HasChild(o)
    BY <1>2 DEF Reapable
  <2>2. life' = [life EXCEPT ![Target(o)] = "gone"] /\ owner' = [owner EXCEPT ![pid[o]] = Free]
    BY <1>2 DEF waitpid
  <2>3. life'[Target(o)] = "gone" /\ owner'[pid[o]] = Free /\ Reaped(o)
    BY <1>0, <1>1, <2>1, <2>2 DEF Reaped
  <2> QED
    BY <1>0, <1>1, <1>2, <2>1, <2>2, <2>3
<1>3. CASE ~Reapable(o)
  <2>1. life' = life /\ owner' = owner
    BY <1>3 DEF waitpid
  <2> QED
    BY <1>0, <1>1, <1>3, <2>1 DEF Unreaped
<1> QED
  BY <1>2, <1>3

\* A poll of object o that has an ID: running().
LEMMA PollKeeps ==
  ASSUME ConstantsOK, IInv, NEW p \in Pids, Managed(p), wait = NoObj, NEW o, o = processes[p], running(o),
         UNCHANGED <<nobj, alive, open, processes, wait, down, code, reuse>>
  PROVE  /\ KType' /\ KInv'
         /\ ~reuse /\ RunningAnswer(o) => (life'[o] = "gone" => code'[o] = 0)
<1>0. TypeOK /\ KInv /\ KType
  BY TypeGroups DEF IInv
<1>1. o \in Objs /\ o \in 1..nobj /\ (~reuse /\ HasChild(o) => Target(o) = o)
  BY <1>0, IdFacts
<1>2. waitpid(o)
  BY DEF running
<1>3. DropsPid(o) => HasChild(o) /\ Reapable(o) /\ life'[Target(o)] = "gone" /\ Reaped(o)
  BY <1>1, <1>2, WaitpidFacts DEF DropsPid, Reapable, Reaped
<1>4. \A x \in Objs : pid'[x] = pid[x] \/ (pid'[x] = NoPid /\ x = o /\ Reaped(o))
  BY <1>0, <1>1, <1>3 DEF running, KType
<1>5. \A x \in Objs : x # o => exitStatus'[x] = exitStatus[x]
  BY <1>0, <1>1 DEF running, KType
<1>6. ReapStep(o)
  BY <1>1, <1>2, <1>4, <1>5, WaitpidFacts DEF ReapStep
<1>7. KType'
  <2>1. pid' \in [Objs -> Pids \cup {NoPid}]
    BY <1>0, <1>1 DEF running, KType
  <2>2. exitStatus' \in [Objs -> Nat]
    <3>1. DropsPid(o) => code[Target(o)] \in Nat
      BY <1>0, <1>3 DEF KType, HasChild
    <3> QED
      BY <1>0, <1>1, <3>1 DEF running, KType
  <2> QED
    BY <1>0, <1>1, <1>2, <2>1, <2>2, WaitpidFacts DEF KType
<1>8. ASSUME ~reuse PROVE StatusOf(o)
  <2>1. /\ exitStatus[o] # 0 => pid[o] = NoPid /\ life[o] = "gone" /\ exitStatus[o] = code[o]
        /\ open[o] /\ pid[o] = NoPid => life[o] = "gone" /\ exitStatus[o] = code[o]
    BY <1>0, <1>1, <1>8 DEF KInv, StatusKept
  <2>2. CASE DropsPid(o)
    <3>1. Target(o) = o
      BY <1>1, <1>3, <1>8, <2>2
    <3>2. exitStatus'[o] = code[o] /\ pid'[o] = NoPid /\ life'[o] = "gone"
      BY <1>0, <1>1, <1>3, <2>2, <3>1 DEF running, KType
    <3> QED
      BY <3>2 DEF StatusOf
  <2>3. CASE ~DropsPid(o)
    <3>1. exitStatus' = exitStatus /\ pid' = pid
      BY <2>3 DEF running
    <3>2. life[o] = "gone" => life'[o] = "gone"
      BY <1>1, <1>2, WaitpidFacts
    <3> QED
      BY <2>1, <3>1, <3>2 DEF StatusOf
  <2> QED
    BY <2>2, <2>3
<1>9. KInv'
  BY <1>0, <1>1, <1>6, <1>8, Reaps
<1>10. ASSUME ~reuse, RunningAnswer(o), life'[o] = "gone" PROVE code'[o] = 0
  <2>1. HasChild(o) /\ Target(o) = o /\ (Reapable(o) => code[o] = 0)
    BY <1>1, <1>10 DEF RunningAnswer
  <2>2. Unreaped(o)
    BY <1>0, <1>1, <2>1, TargetFacts
  <2>3. Reapable(o)
    BY <1>1, <1>2, <1>10, <2>2, WaitpidFacts DEF Unreaped
  <2> QED
    BY <2>1, <2>3
<1> QED
  BY <1>7, <1>9, <1>10

LEMMA KeepsWrite ==
  ASSUME ConstantsOK, IInv, NEW p \in Pids, Write(p)
  PROVE  Kept /\ StreamsKept
<1> DEFINE o == processes[p]
           val == IF RunningAnswer(o) /\ open[o] THEN 1 ELSE 0
<1>1. o \in Objs
  BY IdFacts DEF IInv, Write
<1>2. KType' /\ KInv'
  BY PollKeeps DEF Write, Idle
<1>3. "write" \in Ops /\ o \in Objs \cup {NoObj} /\ val \in Int /\ Answer("write", o, val)
  BY <1>1 DEF Ops, Write
<1> HIDE DEF o, val
<1>4. RType' /\ ret'.op = "write"
  BY <1>3, AnswerType
<1>5. AInv'
  BY <1>4, OtherAnswer
<1>6. StreamsKept
  BY SameStreams, TypeGroups DEF IInv, Write
<1> QED
  BY <1>2, <1>4, <1>5, <1>6 DEF Kept

LEMMA KeepsReadRunning ==
  ASSUME ConstantsOK, IInv, NEW p \in Pids, ReadRunning(p)
  PROVE  Kept /\ StreamsKept
<1> DEFINE o == processes[p]
           val == IF RunningAnswer(o) THEN 1 ELSE 0
<1>1. o \in Objs /\ SType
  BY IdFacts, TypeGroups DEF IInv, ReadRunning
<1>2. /\ KType' /\ KInv'
      /\ ~reuse /\ RunningAnswer(o) => (life'[o] = "gone" => code'[o] = 0)
  BY PollKeeps DEF ReadRunning, Idle
<1>3. "running" \in Ops /\ o \in Objs \cup {NoObj} /\ val \in Int /\ Answer("running", o, val)
  BY <1>1 DEF Ops, ReadRunning
<1>4. RType' /\ ret'.op = "running" /\ ret'.obj = o /\ ret'.val = val
  <2> HIDE DEF o, val
  <2> QED
    BY <1>3, AnswerType
<1>5. AInv'
  <2>1. ret'.obj \in Objs /\ PolledStatus'
    BY <1>1, <1>4 DEF PolledStatus
  <2>2. FailureIsNotRunning'
    <3>1. reuse' = reuse
      BY DEF ReadRunning
    <3>2. val = 1 => RunningAnswer(o)
      OBVIOUS
    <3> HIDE DEF o, val
    <3>3. ~reuse /\ val = 1 => (life'[o] = "gone" => code'[o] = 0)
      BY <1>2, <3>2
    <3>4. ret'.op # "status"
      BY <1>4
    <3> QED
      BY <1>4, <3>1, <3>3, <3>4 DEF FailureIsNotRunning
  <2> QED
    BY <2>1, <2>2 DEF AInv
<1>6. /\ chan' = [chan EXCEPT ![o] = [s \in Streams |-> Drop(chan[o][s], Readable(o, s))]]
      /\ buf' = [buf EXCEPT ![o] = [s \in Streams |-> buf[o][s] \o Take(chan[o][s], Readable(o, s))]]
      /\ UNCHANGED <<written, delivered>>
  BY DEF ReadRunning
<1> HIDE DEF o, val
<1>7. ASSUME NEW s \in Streams
      PROVE  /\ Drop(chan[o][s], Readable(o, s)) \in Seq(Chars)
             /\ buf[o][s] \o Take(chan[o][s], Readable(o, s)) \in Seq(Chars)
             /\ (buf[o][s] \o Take(chan[o][s], Readable(o, s))) \o Drop(chan[o][s], Readable(o, s)) = buf[o][s] \o chan[o][s]
  <2> DEFINE b == buf[o][s]
             c == chan[o][s]
             moved == Take(c, Readable(o, s))
             left == Drop(c, Readable(o, s))
  <2>1. b \in Seq(Chars) /\ c \in Seq(Chars) /\ Readable(o, s) \in 0..Len(c)
    BY <1>1, InputRange DEF SType
  <2> HIDE DEF b, c
  <2>2. moved \in Seq(Chars) /\ left \in Seq(Chars) /\ moved \o left = c
    BY <2>1, TakeDrop, Zenon
  <2> HIDE DEF moved, left
  <2>3. b \o moved \in Seq(Chars)
    BY <2>1, <2>2, Cat, Zenon
  <2>4. (b \o moved) \o left = b \o (moved \o left)
    BY <2>1, <2>2, CatAssociative, Zenon
  <2>5. left \in Seq(Chars) /\ b \o moved \in Seq(Chars) /\ (b \o moved) \o left = b \o c
    BY <2>2, <2>3, <2>4, Zenon
  <2> QED
    BY <2>5, Zenon DEF b, c, moved, left
<1>8. SType'
  BY <1>1, <1>6, <1>7 DEF SType
<1>9. ASSUME OutputInOrder, NEW x \in Objs, NEW t \in Streams
      PROVE  delivered'[x][t] \o (buf'[x][t] \o chan'[x][t]) = written'[x][t]
  <2>1. delivered[x][t] \o (buf[x][t] \o chan[x][t]) = written[x][t]
    BY <1>9 DEF OutputInOrder
  <2>2. buf'[x][t] \o chan'[x][t] = buf[x][t] \o chan[x][t]
    <3>1. CASE x # o
      BY <1>1, <1>6, <3>1 DEF SType
    <3>2. CASE x = o
      <4>1. /\ chan'[x][t] = Drop(chan[o][t], Readable(o, t))
            /\ buf'[x][t] = buf[o][t] \o Take(chan[o][t], Readable(o, t))
        BY <1>1, <1>6, <3>2 DEF SType
      <4> QED
        BY <1>7, <3>2, <4>1, Zenon
    <3> QED
      BY <3>1, <3>2
  <2> QED
    BY <1>6, <2>1, <2>2
<1> QED
  BY <1>2, <1>4, <1>5, <1>8, <1>9, ZenonT(60) DEF Kept, StreamsKept, OutputInOrder

LEMMA KeepsReadStatus ==
  ASSUME ConstantsOK, IInv, NEW p \in Pids, ReadStatus(p)
  PROVE  Kept /\ StreamsKept
<1> DEFINE o == processes[p]
           val == CASE RunningAnswer(o) -> Nil [] StalePid(o) -> 0 [] OTHER -> exitStatus'[o]
<1>0. TypeOK /\ KInv /\ KType
  BY TypeGroups DEF IInv
<1>1. /\ o \in Objs /\ o \in 1..nobj /\ (~reuse /\ HasChild(o) => Target(o) = o)
      /\ wait = NoObj
  BY <1>0, IdFacts DEF ReadStatus, Idle
<1>2. /\ waitpid(o)
      /\ exitStatus' = IF DropsPid(o) THEN [exitStatus EXCEPT ![o] = code[Target(o)]] ELSE exitStatus
      /\ pid' = IF RunningAnswer(o) THEN pid ELSE [pid EXCEPT ![o] = NoPid]
      /\ open' = IF StalePid(o) THEN [open EXCEPT ![o] = FALSE] ELSE open
      /\ Answer("status", o, val)
      /\ UNCHANGED <<nobj, alive, buf, processes, wait, down, code, chan, written, delivered, reuse>>
  BY DEF ReadStatus
<1> HIDE DEF o
<1>3. DropsPid(o) => HasChild(o) /\ Reapable(o) /\ life'[Target(o)] = "gone" /\ Reaped(o)
  BY <1>1, <1>2, WaitpidFacts DEF DropsPid, Reapable, Reaped
<1>4. ~RunningAnswer(o) => Reaped(o)
  BY <1>3 DEF RunningAnswer, DropsPid, Reaped
<1>5. \A x \in Objs : pid'[x] = pid[x] \/ (pid'[x] = NoPid /\ x = o /\ Reaped(o))
  BY <1>0, <1>1, <1>2, <1>4 DEF KType
<1>6. \A x \in Objs : x # o => exitStatus'[x] = exitStatus[x] /\ open'[x] = open[x]
  BY <1>0, <1>1, <1>2 DEF KType
<1>7. ReapStep(o)
  BY <1>1, <1>2, <1>5, <1>6, WaitpidFacts DEF ReapStep
<1>8. KType'
  <2>1. pid' \in [Objs -> Pids \cup {NoPid}]
    BY <1>0, <1>1, <1>2 DEF KType
  <2>2. exitStatus' \in [Objs -> Nat]
    <3>1. DropsPid(o) => code[Target(o)] \in Nat
      BY <1>0, <1>3 DEF KType, HasChild
    <3> QED
      BY <1>0, <1>1, <1>2, <3>1 DEF KType
  <2>3. open' \in [Objs -> BOOLEAN]
    BY <1>0, <1>1, <1>2 DEF KType
  <2> QED
    BY <1>0, <1>1, <1>2, <2>1, <2>2, <2>3, WaitpidFacts DEF KType
<1>9. ASSUME ~reuse PROVE StatusOf(o)
  <2>1. /\ exitStatus[o] # 0 => pid[o] = NoPid /\ life[o] = "gone" /\ exitStatus[o] = code[o]
        /\ open[o] /\ pid[o] = NoPid => life[o] = "gone" /\ exitStatus[o] = code[o]
    BY <1>0, <1>1, <1>9 DEF KInv, StatusKept
  <2>2. life[o] = "gone" => life'[o] = "gone"
    BY <1>1, <1>2, WaitpidFacts
  <2>3. CASE DropsPid(o)
    <3>1. Target(o) = o
      BY <1>1, <1>3, <1>9, <2>3
    <3>2. ~RunningAnswer(o)
      BY <2>3 DEF DropsPid, RunningAnswer
    <3>3. exitStatus'[o] = code[o] /\ pid'[o] = NoPid /\ life'[o] = "gone"
      BY <1>0, <1>1, <1>2, <1>3, <2>3, <3>1, <3>2 DEF KType
    <3> QED
      BY <1>2, <3>3 DEF StatusOf
  <2>4. CASE ~DropsPid(o) /\ RunningAnswer(o)
    <3>1. exitStatus' = exitStatus /\ pid' = pid /\ open' = open
      BY <1>2, <2>4 DEF RunningAnswer, StalePid
    <3> QED
      BY <1>2, <2>1, <2>2, <3>1 DEF StatusOf
  <2>5. CASE ~DropsPid(o) /\ ~RunningAnswer(o)
    <3>1. ~HasChild(o)
      BY <2>5 DEF RunningAnswer, DropsPid
    <3>2. exitStatus' = exitStatus /\ pid'[o] = NoPid
      BY <1>0, <1>1, <1>2, <2>5 DEF KType
    <3>3. CASE StalePid(o)
      <4>1. ~open'[o]
        BY <1>0, <1>1, <1>2, <3>3 DEF KType
      <4> QED
        BY <1>2, <2>1, <2>2, <3>2, <4>1 DEF StatusOf
    <3>4. CASE ~StalePid(o)
      <4>1. pid[o] = NoPid /\ open' = open
        BY <1>2, <3>1, <3>4 DEF StalePid
      <4> QED
        BY <1>2, <2>1, <2>2, <3>2, <4>1 DEF StatusOf
    <3> QED
      BY <3>3, <3>4
  <2> QED
    BY <2>3, <2>4, <2>5
<1>10. KInv'
  BY <1>0, <1>1, <1>7, <1>9, Reaps
<1>11. exitStatus'[o] \in Nat
  BY <1>1, <1>8 DEF KType
<1>12. RType' /\ ret'.op = "status" /\ ret'.obj = o /\ ret'.val = val
  <2>1. val \in Int
    BY <1>11 DEF Nil
  <2>2. "status" \in Ops /\ o \in Objs \cup {NoObj}
    BY <1>1 DEF Ops
  <2> HIDE DEF val
  <2> QED
    BY <1>2, <2>1, <2>2, AnswerType
<1>13. PolledStatus'
  <2>1. ASSUME ~reuse, val # Nil, open'[o] \/ val # 0 PROVE life'[o] = "gone" /\ val = code'[o]
    <3>1. ~RunningAnswer(o)
      <4>1. RunningAnswer(o) => val = Nil
        <5>1. RunningAnswer(o) => ~StalePid(o)
          BY DEF RunningAnswer, StalePid
        <5> QED
          BY <5>1
      <4> HIDE DEF val
      <4> QED
        BY <2>1, <4>1
    <3>2. ~StalePid(o)
      <4>1. ASSUME StalePid(o) PROVE FALSE
        <5>1. val = 0
          BY <3>1, <4>1
        <5>2. ~open'[o]
          BY <1>0, <1>1, <1>2, <4>1 DEF KType
        <5> QED
          BY <2>1, <5>1, <5>2
      <4> QED
        BY <4>1
    <3>3. val = exitStatus'[o] /\ pid'[o] = NoPid
      BY <1>0, <1>1, <1>2, <3>1, <3>2 DEF KType
    <3> HIDE DEF val
    <3>4. StatusOf(o)
      BY <1>9, <2>1
    <3> QED
      BY <2>1, <3>3, <3>4 DEF StatusOf
  <2> HIDE DEF val
  <2> QED
    BY <1>2, <1>12, <2>1 DEF PolledStatus
<1>14. FailureIsNotRunning'
  <2>1. ASSUME ~reuse, val = Nil, life'[o] = "gone" PROVE code'[o] = 0
    <3>1. RunningAnswer(o)
      BY <1>11, <2>1 DEF Nil
    <3>2. HasChild(o) /\ Target(o) = o /\ (Reapable(o) => code[o] = 0)
      BY <1>1, <2>1, <3>1 DEF RunningAnswer
    <3>3. Unreaped(o)
      BY <1>0, <1>1, <3>2, TargetFacts
    <3>4. Reapable(o)
      BY <1>1, <1>2, <2>1, <3>3, WaitpidFacts DEF Unreaped
    <3> QED
      BY <1>2, <3>2, <3>4
  <2> HIDE DEF val
  <2> QED
    BY <1>2, <1>12, <2>1 DEF FailureIsNotRunning
<1>15. AInv'
  BY <1>1, <1>12, <1>13, <1>14 DEF AInv
<1>16. StreamsKept
  BY <1>2, SameStreams, TypeGroups DEF IInv
<1> QED
  BY <1>8, <1>10, <1>12, <1>15, <1>16 DEF Kept

LEMMA KeepsKillSignal ==
  ASSUME ConstantsOK, IInv, NEW p \in Pids, KillSignal(p, 15)
  PROVE  Kept /\ StreamsKept
<1> DEFINE o == processes[p]
<1>0. TypeOK /\ KInv
  BY DEF IInv
<1>1. o \in Objs
  BY <1>0, IdFacts DEF KillSignal
<1>2. /\ UNCHANGED <<nobj, alive, pid, exitStatus, open, buf, processes, wait, down, owner, chan, written, delivered, reuse>>
      /\ Answer("kill", o, Hit(o))
  BY DEF KillSignal
<1>3. Hit(o) \in Int
  <2>1. pid[o] # NoPid => Target(o) \in Objs \cup {Free, Foreign}
    BY <1>0, <1>1 DEF TypeOK, Target
  <2> QED
    BY <2>1, ObjFacts DEF Hit, Free, Foreign
<1>4. "kill" \in Ops \ {"status", "running"} /\ o \in Objs \cup {NoObj}
  BY <1>1 DEF Ops
<1>5. StreamsKept
  BY <1>2, SameStreams, TypeGroups DEF IInv
<1>6. CASE UNCHANGED <<life, code>>
  BY <1>2, <1>3, <1>4, <1>5, <1>6, StreamRequest DEF kernelVars
<1>7. CASE /\ HasChild(o) /\ life[Target(o)] = "run"
           /\ life' = [life EXCEPT ![Target(o)] = "zombie"]
           /\ code' = [code EXCEPT ![Target(o)] = Status(15)]
  <2>1. Target(o) \in Objs /\ Status(15) \in Nat
    BY <1>7 DEF HasChild, Status
  <2>2. KType' /\ KInv'
    BY <1>2, <1>7, <2>1, EndStep
  <2>3. RType' /\ ret'.op = "kill"
    BY <1>2, <1>3, <1>4, AnswerType
  <2>4. AInv'
    BY <2>3, OtherAnswer
  <2> QED
    BY <1>5, <2>2, <2>3, <2>4 DEF Kept
<1> QED
  BY <1>6, <1>7 DEF KillSignal

\* SIGKILL and waitpid on the child that the pid of object o, which has an ID, leads to.
LEMMA SlayFacts ==
  ASSUME ConstantsOK, IInv, NEW o \in Objs, Slay(o)
  PROVE  /\ Reaped(o)
         /\ \A x \in Objs : life'[x] = life[x] \/ (life'[x] = "gone" /\ HasChild(o) /\ x = Target(o))
         /\ \A x \in Objs : code'[x] = code[x] \/ (HasChild(o) /\ x = Target(o))
         /\ life' \in [Objs -> {"none", "run", "zombie", "gone"}]
         /\ code' \in [Objs -> Nat]
         /\ life[o] # "none" => life'[o] = "gone"
<1>0. life \in [Objs -> {"none", "run", "zombie", "gone"}] /\ code \in [Objs -> Nat]
  BY DEF IInv, TypeOK
<1>1. CASE HasChild(o)
  <2>1. Target(o) \in Objs
    BY <1>1 DEF HasChild
  <2> DEFINE c == IF life[Target(o)] = "run" THEN Status(SIGKILL) ELSE code[Target(o)]
  <2>2. c \in Nat
    BY <1>0, <2>1 DEF Status, SIGKILL
  <2>3. life' = [life EXCEPT ![Target(o)] = "gone"] /\ code' = [code EXCEPT ![Target(o)] = c]
    BY <1>1 DEF Slay
  <2> HIDE DEF c
  <2>4. life'[o] = "gone" \/ life'[o] = life[o]
    BY <1>0, <2>1, <2>3
  <2>5. Unreaped(o) => Target(o) = o
    BY TargetFacts DEF IInv
  <2>6. life[o] # "none" => life'[o] = "gone"
    BY <1>0, <2>1, <2>3, <2>4, <2>5 DEF Unreaped
  <2> QED
    BY <1>0, <1>1, <2>1, <2>2, <2>3, <2>6 DEF Reaped
<1>2. CASE ~HasChild(o)
  <2>1. life' = life /\ code' = code
    BY <1>2 DEF Slay
  <2>2. ~Unreaped(o)
    BY <1>2, TargetFacts DEF IInv
  <2> QED
    BY <1>0, <1>2, <2>1, <2>2 DEF Reaped, Unreaped
<1> QED
  BY <1>1, <1>2

LEMMA KeepsKill ==
  ASSUME ConstantsOK, IInv, NEW p \in Pids, Kill(p)
  PROVE  Kept /\ StreamsKept
<1> DEFINE o == processes[p]
<1>0. TypeOK /\ KInv /\ KType
  BY TypeGroups DEF IInv
<1>1. /\ o \in Objs /\ o \in 1..nobj /\ (~reuse /\ HasChild(o) => Target(o) = o)
      /\ wait = NoObj
  BY <1>0, IdFacts DEF Kill, Idle
<1>2. /\ Slay(o)
      /\ owner' = IF pid[o] # NoPid THEN [owner EXCEPT ![pid[o]] = Free] ELSE owner
      /\ open' = IF pid[o] # NoPid THEN [open EXCEPT ![o] = FALSE] ELSE open
      /\ pid' = [pid EXCEPT ![o] = NoPid]
      /\ Answer("kill", o, Hit(o))
      /\ UNCHANGED <<nobj, alive, exitStatus, buf, processes, wait, down, chan, written, delivered, reuse>>
  BY DEF Kill
<1> HIDE DEF o
<1>3. /\ Reaped(o)
      /\ \A x \in Objs : life'[x] = life[x] \/ (life'[x] = "gone" /\ HasChild(o) /\ x = Target(o))
      /\ \A x \in Objs : code'[x] = code[x] \/ (HasChild(o) /\ x = Target(o))
      /\ life' \in [Objs -> {"none", "run", "zombie", "gone"}] /\ code' \in [Objs -> Nat]
  BY <1>1, <1>2, SlayFacts
<1>4. \A q \in Pids : owner'[q] = owner[q] \/ (owner'[q] = Free /\ q = pid[o] /\ Reaped(o))
  BY <1>0, <1>1, <1>2, <1>3 DEF KType
<1>5. HasChild(o) => owner'[pid[o]] = Free
  BY <1>0, <1>1, <1>2 DEF KType, HasChild
<1>6. \A x \in Objs : pid'[x] = pid[x] \/ (pid'[x] = NoPid /\ x = o /\ Reaped(o))
  BY <1>0, <1>1, <1>2, <1>3 DEF KType
<1>7. \A x \in Objs : x # o => open'[x] = open[x] /\ (~reuse => code'[x] = code[x])
  BY <1>0, <1>1, <1>2, <1>3 DEF KType
<1>8. ReapStep(o)
  BY <1>1, <1>2, <1>3, <1>4, <1>5, <1>6, <1>7 DEF ReapStep
<1>9. KType'
  <2>1. pid' \in [Objs -> Pids \cup {NoPid}]
    BY <1>0, <1>1, <1>2 DEF KType
  <2>2. owner' \in [Pids -> Objs \cup {Free, Foreign}]
    BY <1>0, <1>2, ZenonT(60) DEF KType
  <2>3. open' \in [Objs -> BOOLEAN]
    BY <1>0, <1>1, <1>2 DEF KType
  <2> QED
    BY <1>0, <1>2, <1>3, <2>1, <2>2, <2>3 DEF KType
<1>10. ASSUME ~reuse PROVE StatusOf(o)
  <2>1. /\ exitStatus[o] # 0 => pid[o] = NoPid /\ life[o] = "gone" /\ exitStatus[o] = code[o]
        /\ open[o] /\ pid[o] = NoPid => life[o] = "gone" /\ exitStatus[o] = code[o]
    BY <1>0, <1>1, <1>10 DEF KInv, StatusKept
  <2>2. pid'[o] = NoPid
    BY <1>0, <1>1, <1>2 DEF KType
  <2>3. CASE pid[o] = NoPid
    <3>1. life'[o] = life[o] /\ code'[o] = code[o] /\ open' = open
      BY <1>1, <1>2, <1>3, <2>3 DEF HasChild
    <3> QED
      BY <1>2, <2>1, <2>2, <2>3, <3>1 DEF StatusOf
  <2>4. CASE pid[o] # NoPid
    <3>1. ~open'[o]
      BY <1>0, <1>1, <1>2, <2>4 DEF KType
    <3>2. exitStatus'[o] = 0
      BY <1>2, <2>1, <2>4
    <3> QED
      BY <3>1, <3>2 DEF StatusOf
  <2> QED
    BY <2>3, <2>4
<1>11. KInv'
  BY <1>0, <1>1, <1>8, <1>10, Reaps
<1>12. Hit(o) \in Int
  <2>1. pid[o] # NoPid => Target(o) \in Objs \cup {Free, Foreign}
    BY <1>0, <1>1 DEF TypeOK, Target
  <2> QED
    BY <2>1, ObjFacts DEF Hit, Free, Foreign
<1>13. RType' /\ ret'.op = "kill"
  <2>1. "kill" \in Ops /\ o \in Objs \cup {NoObj}
    BY <1>1 DEF Ops
  <2> QED
    BY <1>2, <1>12, <2>1, AnswerType
<1>14. AInv'
  BY <1>13, OtherAnswer
<1>15. StreamsKept
  BY <1>2, SameStreams, TypeGroups DEF IInv
<1> QED
  BY <1>9, <1>11, <1>13, <1>14, <1>15 DEF Kept

\* release, and the agent's destructor.
LEMMA KeepsDelete ==
  ASSUME ConstantsOK, IInv, NEW p \in Pids, NEW op \in {"release", "delete"}, Delete(p, op)
  PROVE  Kept /\ StreamsKept
<1> DEFINE o == processes[p]
<1>0. TypeOK /\ KInv /\ KType
  BY TypeGroups DEF IInv
<1>1. /\ o \in Objs /\ o \in 1..nobj /\ (~reuse /\ HasChild(o) => Target(o) = o)
      /\ wait = NoObj /\ life[o] # "none" /\ Managed(p)
  BY <1>0, IdFacts DEF Delete
<1>2. /\ Slay(o)
      /\ owner' = IF HasChild(o) THEN [owner EXCEPT ![pid[o]] = Free] ELSE owner
      /\ pid' = [pid EXCEPT ![o] = NoPid]
      /\ open' = [open EXCEPT ![o] = FALSE]
      /\ alive' = [alive EXCEPT ![o] = FALSE]
      /\ processes' = [processes EXCEPT ![p] = NoObj]
      /\ Answer(op, o, 1)
      /\ UNCHANGED <<nobj, exitStatus, buf, wait, down, chan, written, delivered, reuse>>
  BY DEF Delete, Erase
<1>3. processes[p] = o /\ \A q \in Pids : processes[q] = o => q = p
  BY <1>0, <1>1 DEF KInv, IdsAreObjects
<1> HIDE DEF o
<1>4. /\ Reaped(o) /\ life'[o] = "gone"
      /\ \A x \in Objs : life'[x] = life[x] \/ (life'[x] = "gone" /\ HasChild(o) /\ x = Target(o))
      /\ \A x \in Objs : code'[x] = code[x] \/ (HasChild(o) /\ x = Target(o))
      /\ life' \in [Objs -> {"none", "run", "zombie", "gone"}] /\ code' \in [Objs -> Nat]
  BY <1>1, <1>2, SlayFacts
<1>5. \A q \in Pids : owner'[q] = owner[q] \/ (owner'[q] = Free /\ q = pid[o] /\ Reaped(o))
  BY <1>0, <1>1, <1>2, <1>4 DEF KType
<1>6. HasChild(o) => owner'[pid[o]] = Free
  BY <1>0, <1>1, <1>2 DEF KType, HasChild
<1>7. \A x \in Objs : pid'[x] = pid[x] \/ (pid'[x] = NoPid /\ x = o /\ Reaped(o))
  BY <1>0, <1>1, <1>2, <1>4 DEF KType
<1>8. \A x \in Objs : x # o => open'[x] = open[x] /\ alive'[x] = alive[x] /\ (~reuse => code'[x] = code[x])
  BY <1>0, <1>1, <1>2, <1>4 DEF KType
<1>9. \A q \in Pids : processes'[q] = processes[q] \/ (processes'[q] = NoObj /\ processes[q] = o /\ Reaped(o))
  BY <1>0, <1>2, <1>3, <1>4 DEF KType
<1>10. \A q \in Pids : processes'[q] # o
  BY <1>0, <1>1, <1>2, <1>3, ObjFacts DEF KType
<1>11. ReapStep(o)
  BY <1>1, <1>2, <1>4, <1>5, <1>6, <1>7, <1>8, <1>9, <1>10 DEF ReapStep
<1>12. KType'
  <2>1. pid' \in [Objs -> Pids \cup {NoPid}]
    BY <1>0, <1>1, <1>2 DEF KType
  <2>2. owner' \in [Pids -> Objs \cup {Free, Foreign}]
    BY <1>0, <1>2, ZenonT(60) DEF KType
  <2>3. open' \in [Objs -> BOOLEAN] /\ alive' \in [Objs -> BOOLEAN]
    BY <1>0, <1>1, <1>2 DEF KType
  <2>4. processes' \in [Pids -> Objs \cup {NoObj}]
    BY <1>0, <1>2 DEF KType
  <2> QED
    BY <1>0, <1>2, <1>4, <2>1, <2>2, <2>3, <2>4 DEF KType
<1>13. ASSUME ~reuse PROVE StatusOf(o)
  <2>1. exitStatus[o] # 0 => pid[o] = NoPid /\ exitStatus[o] = code[o]
    BY <1>0, <1>1, <1>13 DEF KInv, StatusKept
  <2>2. pid'[o] = NoPid /\ ~open'[o]
    BY <1>0, <1>1, <1>2 DEF KType
  <2>3. pid[o] = NoPid => code'[o] = code[o]
    BY <1>1, <1>4 DEF HasChild
  <2> QED
    BY <1>2, <1>4, <2>1, <2>2, <2>3 DEF StatusOf
<1>14. KInv'
  BY <1>0, <1>1, <1>11, <1>13, Reaps
<1>15. RType' /\ ret'.op = op
  <2>1. op \in Ops /\ o \in Objs \cup {NoObj} /\ 1 \in Int
    BY <1>1 DEF Ops
  <2> QED
    BY <1>2, <2>1, AnswerType
<1>16. AInv'
  BY <1>15, OtherAnswer
<1>17. StreamsKept
  BY <1>2, SameStreams, TypeGroups DEF IInv
<1> QED
  BY <1>12, <1>14, <1>15, <1>16, <1>17 DEF Kept

LEMMA KeepsCloseReturns ==
  ASSUME ConstantsOK, IInv, CloseReturns
  PROVE  Kept /\ StreamsKept
<1> DEFINE o == wait
           val == IF HasChild(o) THEN code[Target(o)] ELSE 0
<1>0. TypeOK /\ KInv /\ KType
  BY TypeGroups DEF IInv
<1>1. /\ o \in Objs /\ o \in 1..nobj /\ ~open[o]
      /\ HasChild(o) => Reapable(o)
  BY <1>0 DEF CloseReturns, KInv, Waiting, KType
<1>2. /\ waitpid(o)
      /\ pid' = [pid EXCEPT ![o] = NoPid] /\ wait' = NoObj /\ wait = o
      /\ Answer("start", o, Null) \/ Answer("close", o, val)
      /\ UNCHANGED <<nobj, alive, exitStatus, open, buf, processes, down, code, chan, written, delivered, reuse>>
  BY DEF CloseReturns
<1>3. val \in Int /\ Null \in Int /\ {"start", "close"} \subseteq Ops /\ o \in Objs \cup {NoObj}
  <2>1. val \in Nat
    BY <1>0, <1>1, ZenonT(60) DEF KType, HasChild
  <2>2. {"start", "close"} \subseteq Ops
    BY DEF Ops
  <2>3. Null \in Int
    BY DEF Null
  <2> QED
    BY <1>1, <2>1, <2>2, <2>3
<1> HIDE DEF o, val
<1>4. Reaped(o)
  BY <1>1, <1>2, WaitpidFacts DEF Reaped
<1>5. \A x \in Objs : pid'[x] = pid[x] \/ (pid'[x] = NoPid /\ x = o /\ Reaped(o))
  BY <1>0, <1>1, <1>2, <1>4 DEF KType
<1>6. ReapStep(o)
  BY <1>1, <1>2, <1>4, <1>5, WaitpidFacts DEF ReapStep
<1>7. KType'
  <2>1. pid' \in [Objs -> Pids \cup {NoPid}]
    BY <1>0, <1>1, <1>2 DEF KType
  <2> QED
    BY <1>0, <1>1, <1>2, <2>1, WaitpidFacts DEF KType
<1>8. ASSUME ~reuse PROVE StatusOf(o)
  <2>1. exitStatus[o] # 0 => pid[o] = NoPid /\ life[o] = "gone" /\ exitStatus[o] = code[o]
    BY <1>0, <1>1, <1>8 DEF KInv, StatusKept
  <2>2. pid'[o] = NoPid
    BY <1>0, <1>1, <1>2 DEF KType
  <2>3. life[o] = "gone" => life'[o] = "gone"
    BY <1>1, <1>2, WaitpidFacts
  <2> QED
    BY <1>1, <1>2, <2>1, <2>2, <2>3 DEF StatusOf
<1>9. KInv'
  BY <1>0, <1>1, <1>6, <1>8, Reaps
<1>10. RType' /\ ret'.op \in {"start", "close"}
  BY <1>2, <1>3, AnswerType
<1>11. AInv'
  BY <1>10, OtherAnswer
<1>12. StreamsKept
  BY <1>2, SameStreams, TypeGroups DEF IInv
<1> QED
  BY <1>7, <1>9, <1>10, <1>11, <1>12 DEF Kept

-----------------------------------------------------------------------------
(* The remaining actions.                                                  *)

\* closeAll(): the streams are closed before the agent waits.
LEMMA KeepsClose ==
  ASSUME ConstantsOK, IInv, NEW p \in Pids, Close(p)
  PROVE  Kept /\ StreamsKept
<1> DEFINE o == processes[p]
<1>0. TypeOK /\ KInv /\ KType
  BY TypeGroups DEF IInv
<1>1. o \in Objs /\ o \in 1..nobj /\ wait = NoObj
  BY <1>0, IdFacts DEF Close, Idle
<1>2. UNCHANGED <<nobj, alive, pid, exitStatus, buf, processes, down, reuse, owner, life, code, chan, written, delivered>>
  BY DEF Close, osVars
<1>3. StreamsKept
  BY <1>2, SameStreams, TypeGroups DEF IInv
<1>4. CASE pid[o] = NoPid
  <2>1. Answer("close", o, exitStatus[o]) /\ UNCHANGED <<open, wait>>
    BY <1>4 DEF Close
  <2>2. "close" \in Ops \ {"status", "running"} /\ o \in Objs \cup {NoObj} /\ exitStatus[o] \in Int
    BY <1>0, <1>1 DEF Ops, KType
  <2> QED
    BY <1>2, <1>3, <2>1, <2>2, StreamRequest DEF kernelVars
<1>5. CASE pid[o] # NoPid
  <2>1. open' = [open EXCEPT ![o] = FALSE] /\ wait' = o /\ Answer("closing", o, Nil)
    BY <1>5 DEF Close
  <2> HIDE DEF o
  <2>2. ~open'[o] /\ \A x \in Objs : open'[x] => open[x]
    BY <1>0, <1>1, <2>1 DEF KType
  <2>3. KType'
    <3>1. open' \in [Objs -> BOOLEAN]
      BY <1>0, <1>1, <2>1 DEF KType
    <3> QED
      BY <1>0, <1>1, <1>2, <2>1, <3>1 DEF KType
  <2>4. RType' /\ ret'.op = "closing"
    <3>1. "closing" \in Ops /\ o \in Objs \cup {NoObj} /\ Nil \in Int
      BY <1>1 DEF Ops, Nil
    <3> QED
      BY <2>1, <3>1, AnswerType
  <2>5. AInv'
    BY <2>4, OtherAnswer
  <2>6. Fresh'
    BY <1>0, <1>2, <2>2 DEF KInv, Fresh
  <2>7. ChildHasPid' /\ PidHasChild' /\ ReleasedIsReaped'
    BY <1>0, <1>2 DEF KInv, ChildHasPid, PidHasChild, ReleasedIsReaped, Unreaped
  <2>8. IdsAreObjects' /\ HandleCoherent'
    BY <1>0, <1>2 DEF KInv, IdsAreObjects, HandleCoherent, Managed
  <2>9. Waiting'
    BY <1>1, <1>2, <2>1, <2>2 DEF Waiting
  <2>10. ~reuse' => Reachable'
    BY <1>0, <1>1, <1>2, ObjFacts DEF KInv, Reachable, Unreaped
  <2>11. ~reuse' => StatusKept'
    BY <1>0, <1>2, <2>2 DEF KInv, StatusKept
  <2> QED
    BY <1>3, <2>3, <2>4, <2>5, <2>6, <2>7, <2>8, <2>9, <2>10, <2>11 DEF Kept, KInv
<1> QED
  BY <1>4, <1>5

\* start_program without a child.
LEMMA KeepsStartFails ==
  ASSUME ConstantsOK, IInv, StartFails
  PROVE  Kept /\ StreamsKept
<1> DEFINE o == nobj + 1
<1>0. TypeOK /\ KInv /\ KType
  BY TypeGroups DEF IInv
<1>1. /\ o \in Objs /\ nobj' = o /\ alive' = [alive EXCEPT ![o] = TRUE] /\ Answer("start", o, Null) /\ nobj \in Nat
      /\ UNCHANGED <<pid, exitStatus, open, buf, processes, wait, down, reuse, owner, life, code, chan, written, delivered>>
  BY <1>0 DEF StartFails, osVars, KType, ConstantsOK
<1>2. StreamsKept
  BY <1>1, SameStreams, TypeGroups DEF IInv
<1>3. RType' /\ ret'.op = "start"
  <2>1. "start" \in Ops /\ o \in Objs \cup {NoObj} /\ Null \in Int
    BY <1>1 DEF Ops, Null
  <2> QED
    BY <1>1, <2>1, AnswerType
<1>4. AInv'
  BY <1>3, OtherAnswer
<1>5. KType'
  <2>1. alive' \in [Objs -> BOOLEAN]
    BY <1>0, <1>1 DEF KType
  <2>2. nobj' \in 0..MaxStarts
    BY <1>1 DEF Objs, ConstantsOK
  <2> QED
    BY <1>0, <1>1, <2>1, <2>2 DEF KType
<1>6. alive'[o] /\ \A x \in Objs : x # o => alive'[x] = alive[x]
  BY <1>0, <1>1 DEF KType
<1>7. Fresh'
  <2>1. ASSUME NEW x \in Objs, x > nobj + 1 PROVE x > nobj /\ x # o
    BY <1>1, <2>1 DEF Objs
  <2> QED
    BY <1>0, <1>1, <1>6, <2>1 DEF KInv, Fresh
<1>8. ChildHasPid' /\ PidHasChild'
  BY <1>0, <1>1 DEF KInv, ChildHasPid, PidHasChild, Unreaped
<1>9. \A x \in 1..nobj : x \in 1..(nobj + 1) /\ x # o
  BY <1>1
<1>10. IdsAreObjects' /\ HandleCoherent'
  <2>1. ASSUME NEW q \in Pids, Managed(q)
        PROVE  /\ processes[q] \in 1..nobj' /\ life[processes[q]] # "none"
               /\ alive'[processes[q]] /\ pid[processes[q]] \in {q, NoPid}
    <3>1. /\ processes[q] \in Objs /\ processes[q] \in 1..nobj /\ alive[processes[q]] /\ life[processes[q]] # "none"
          /\ pid[processes[q]] \in {q, NoPid}
      BY <1>0, <2>1, IdFacts
    <3> QED
      BY <1>1, <1>6, <1>9, <3>1
  <2> QED
    BY <1>0, <1>1, <2>1 DEF KInv, IdsAreObjects, HandleCoherent, Managed
<1>11. ReleasedIsReaped'
  <2>1. ASSUME NEW x \in 1..(nobj + 1), ~alive'[x] PROVE life[x] = "gone"
    <3>1. x # o /\ x \in 1..nobj /\ x \in Objs
      BY <1>1, <1>6, <2>1 DEF Objs, ConstantsOK
    <3>2. ~alive[x]
      BY <1>6, <2>1, <3>1
    <3> QED
      BY <1>0, <3>1, <3>2 DEF KInv, ReleasedIsReaped
  <2> QED
    BY <1>1, <2>1 DEF ReleasedIsReaped
<1>12. Waiting'
  BY <1>0, <1>1, <1>9 DEF KInv, Waiting
<1>13. ~reuse' => Reachable' /\ StatusKept'
  BY <1>0, <1>1 DEF KInv, Reachable, StatusKept, Unreaped
<1> QED
  BY <1>2, <1>3, <1>4, <1>5, <1>7, <1>8, <1>10, <1>11, <1>12, <1>13 DEF Kept, KInv

\* Other processes take and give back pids that no child has.
LEMMA KeepsForeign ==
  ASSUME ConstantsOK, IInv, NEW p \in Pids, ForeignStarts(p) \/ ForeignExits(p)
  PROVE  Kept /\ StreamsKept
<1>0. TypeOK /\ KInv /\ KType
  BY TypeGroups DEF IInv
<1>1. /\ owner[p] \notin Objs
      /\ \E w \in {Free, Foreign} : owner' = [owner EXCEPT ![p] = w]
      /\ UNCHANGED <<nobj, alive, pid, exitStatus, open, buf, processes, wait, down, ret, life, code, chan, written, delivered, reuse>>
  BY ObjFacts DEF ForeignStarts, ForeignExits, Available, agentVars
<1>2. StreamsKept
  BY <1>1, SameStreams, TypeGroups DEF IInv
<1>3. KType' /\ RType'
  BY <1>0, <1>1, TypeGroups DEF KType, RType
<1>4. owner'[p] \notin Objs /\ \A q \in Pids : q # p => owner'[q] = owner[q]
  BY <1>0, <1>1, ObjFacts DEF KType
<1>5. ChildHasPid' /\ PidHasChild'
  <2>1. ASSUME NEW x \in Objs, Unreaped(x)' PROVE pid'[x] \in Pids /\ owner'[pid'[x]] = x
    <3>1. Unreaped(x) /\ pid'[x] = pid[x]
      BY <1>1, <2>1 DEF Unreaped
    <3>2. pid[x] \in Pids /\ owner[pid[x]] = x
      BY <1>0, <3>1 DEF KInv, ChildHasPid
    <3>3. pid[x] # p
      BY <1>1, <3>2
    <3> QED
      BY <1>4, <3>1, <3>2, <3>3
  <2>2. ASSUME NEW q \in Pids, owner'[q] \in Objs
        PROVE  life'[owner'[q]] \in {"run", "zombie"} /\ pid'[owner'[q]] = q
    <3>1. q # p
      BY <1>4, <2>2
    <3>2. owner'[q] = owner[q]
      BY <1>4, <3>1
    <3>3. Unreaped(owner[q]) /\ pid[owner[q]] = q
      BY <1>0, <2>2, <3>2 DEF KInv, PidHasChild
    <3> QED
      BY <1>1, <3>2, <3>3 DEF Unreaped
  <2> QED
    BY <2>1, <2>2 DEF ChildHasPid, PidHasChild, Unreaped
<1>6. Fresh' /\ ReleasedIsReaped' /\ Waiting'
  BY <1>0, <1>1 DEF KInv, Fresh, ReleasedIsReaped, Waiting
<1>7. IdsAreObjects' /\ HandleCoherent'
  BY <1>0, <1>1 DEF KInv, IdsAreObjects, HandleCoherent, Managed
<1>8. ~reuse' => Reachable' /\ StatusKept'
  BY <1>0, <1>1 DEF KInv, Reachable, StatusKept, Unreaped
<1>9. AInv'
  BY <1>0, <1>1, SameAnswer DEF IInv
<1> QED
  BY <1>2, <1>3, <1>5, <1>6, <1>7, <1>8, <1>9 DEF Kept, KInv

\* start_program: the new child has a pid that no child had and, unless pids are used
\* again, no key of _processes was; without streams the constructor waits for it.
LEMMA KeepsStart ==
  ASSUME ConstantsOK, IInv, NEW p \in Pids, NEW streams \in BOOLEAN, Start(p, streams)
  PROVE  Kept /\ StreamsKept
<1> DEFINE o == nobj + 1
<1>0. TypeOK /\ KInv /\ KType /\ nobj \in Nat
  BY TypeGroups DEF IInv, KType
<1>1. /\ wait = NoObj /\ o \in Objs /\ owner[p] = Free /\ (~reuse => ~Managed(p))
      /\ nobj' = o /\ alive' = [alive EXCEPT ![o] = TRUE] /\ pid' = [pid EXCEPT ![o] = p]
      /\ owner' = [owner EXCEPT ![p] = o] /\ life' = [life EXCEPT ![o] = "run"]
      /\ open' = [open EXCEPT ![o] = streams]
      /\ UNCHANGED <<exitStatus, buf, down, reuse, code, chan, written, delivered>>
  BY DEF Start, Idle, Available
<1>2. \/ processes' = Insert(p, o) /\ wait' = NoObj /\ Answer("start", o, p) /\ streams
      \/ processes' = processes /\ wait' = o /\ Answer("starting", o, Nil) /\ ~streams
  BY <1>1 DEF Start
<1>3. /\ ~alive[o] /\ pid[o] = NoPid /\ life[o] = "none" /\ ~open[o] /\ exitStatus[o] = 0
      /\ \A x \in 1..nobj : x \in 1..(nobj + 1) /\ x # o
      /\ \A x \in 1..(nobj + 1) : x # o => x \in 1..nobj
  BY <1>0, <1>1 DEF KInv, Fresh
<1>4. NoObj \in Objs \cup {NoObj} /\ "start" \in Ops /\ "starting" \in Ops /\ Nil \in Int /\ p \in Int
  BY ObjFacts DEF Ops, Nil
<1>5. o \in 1..(nobj + 1)
  BY <1>0
<1> HIDE DEF o
<1>6. RType' /\ ret'.op \in {"start", "starting"}
  BY <1>1, <1>2, <1>4, AnswerType
<1>7. AInv'
  BY <1>6, OtherAnswer
<1>8. StreamsKept
  BY <1>1, SameStreams, TypeGroups DEF IInv
<1>9. /\ alive'[o] /\ pid'[o] = p /\ life'[o] = "run" /\ open'[o] = streams
      /\ \A x \in Objs : x # o => alive'[x] = alive[x] /\ pid'[x] = pid[x] /\ life'[x] = life[x] /\ open'[x] = open[x]
      /\ owner'[p] = o /\ \A q \in Pids : q # p => owner'[q] = owner[q]
  BY <1>0, <1>1 DEF KType
<1>10. /\ \A q \in Pids : q # p => processes'[q] = processes[q]
       /\ processes'[p] = processes[p] \/ (processes'[p] = o /\ ~Managed(p))
       /\ processes' \in [Pids -> Objs \cup {NoObj}]
  <2>1. CASE processes' = processes
    BY <1>0, <2>1 DEF KType
  <2>2. CASE processes' = [processes EXCEPT ![p] = o] /\ ~Managed(p)
    BY <1>0, <1>1, <2>2 DEF KType
  <2> QED
    BY <1>2, <2>1, <2>2 DEF Insert
<1>11. KType'
  <2>1. alive' \in [Objs -> BOOLEAN] /\ open' \in [Objs -> BOOLEAN]
    BY <1>0, <1>1 DEF KType
  <2>2. pid' \in [Objs -> Pids \cup {NoPid}]
    BY <1>0, <1>1 DEF KType
  <2>3. owner' \in [Pids -> Objs \cup {Free, Foreign}]
    BY <1>0, <1>1 DEF KType
  <2>4. life' \in [Objs -> {"none", "run", "zombie", "gone"}]
    BY <1>0, <1>1 DEF KType
  <2>5. nobj' \in 0..MaxStarts
    BY <1>1 DEF Objs, ConstantsOK
  <2>6. wait' \in Objs \cup {NoObj}
    BY <1>1, <1>2
  <2> QED
    BY <1>0, <1>1, <1>10, <2>1, <2>2, <2>3, <2>4, <2>5, <2>6 DEF KType
<1>12. Fresh'
  <2>1. ASSUME NEW x \in Objs, x > nobj' PROVE x > nobj /\ x # o
    BY <1>0, <1>1, <2>1 DEF Objs, ConstantsOK, o
  <2> QED
    BY <1>0, <1>1, <1>9, <2>1 DEF KInv, Fresh
<1>13. ChildHasPid'
  <2>1. ASSUME NEW x \in Objs, Unreaped(x)' PROVE pid'[x] \in Pids /\ owner'[pid'[x]] = x
    <3>1. CASE x = o
      BY <1>9, <3>1
    <3>2. CASE x # o
      <4>1. Unreaped(x) /\ pid'[x] = pid[x]
        BY <1>9, <2>1, <3>2 DEF Unreaped
      <4>2. pid[x] \in Pids /\ owner[pid[x]] = x
        BY <1>0, <4>1 DEF KInv, ChildHasPid
      <4>3. pid[x] # p
        BY <1>1, <4>2, ObjFacts
      <4> QED
        BY <1>9, <4>1, <4>2, <4>3
    <3> QED
      BY <3>1, <3>2
  <2> QED
    BY <2>1 DEF ChildHasPid
<1>14. PidHasChild'
  <2>1. ASSUME NEW q \in Pids, owner'[q] \in Objs
        PROVE  life'[owner'[q]] \in {"run", "zombie"} /\ pid'[owner'[q]] = q
    <3>1. CASE q = p
      BY <1>9, <3>1
    <3>2. CASE q # p
      <4>1. owner'[q] = owner[q] /\ Unreaped(owner[q]) /\ pid[owner[q]] = q
        BY <1>0, <1>9, <2>1, <3>2 DEF KInv, PidHasChild
      <4>2. owner[q] # o
        BY <1>3, <4>1 DEF Unreaped
      <4> QED
        BY <1>9, <2>1, <4>1, <4>2 DEF Unreaped
    <3> QED
      BY <3>1, <3>2
  <2> QED
    BY <2>1 DEF PidHasChild, Unreaped
<1>15. ASSUME NEW q \in Pids, Managed(q)
       PROVE  processes[q] \in Objs /\ processes[q] \in 1..nobj /\ processes[q] # o
  BY <1>0, <1>3, <1>15, IdFacts
<1>16. IdsAreObjects'
  <2>1. ASSUME NEW q \in Pids, Managed(q)'
        PROVE  /\ processes'[q] \in 1..nobj' /\ life'[processes'[q]] # "none"
               /\ \A r \in Pids : processes'[r] = processes'[q] => r = q
    <3>1. CASE processes'[q] = processes[q]
      <4>1. Managed(q)
        BY <2>1, <3>1 DEF Managed
      <4>2. /\ processes[q] \in 1..nobj /\ life[processes[q]] # "none"
            /\ \A r \in Pids : processes[r] = processes[q] => r = q
        BY <1>0, <4>1 DEF KInv, IdsAreObjects
      <4>3. processes'[q] \in 1..nobj'
        BY <1>1, <1>3, <3>1, <4>2 DEF o
      <4>4. life'[processes'[q]] # "none"
        BY <1>9, <1>15, <3>1, <4>1, <4>2
      <4>5. ASSUME NEW r \in Pids, processes'[r] = processes'[q] PROVE r = q
        <5>1. processes'[r] # o
          BY <1>15, <3>1, <4>1, <4>5
        <5>2. processes'[r] = processes[r]
          BY <1>10, <5>1
        <5> QED
          BY <3>1, <4>2, <4>5, <5>2
      <4> QED
        BY <4>3, <4>4, <4>5
    <3>2. CASE q = p /\ processes'[p] = o
      <4>1. ASSUME NEW r \in Pids, r # p PROVE processes'[r] # o
        BY <1>1, <1>10, <1>15, <4>1, ObjFacts DEF Managed
      <4> QED
        BY <1>1, <1>5, <1>9, <3>2, <4>1
    <3> QED
      BY <1>10, <3>1, <3>2
  <2> QED
    BY <2>1 DEF IdsAreObjects
<1>17. HandleCoherent'
  <2>1. ASSUME NEW q \in Pids, Managed(q)' PROVE alive'[processes'[q]] /\ pid'[processes'[q]] \in {q, NoPid}
    <3>1. CASE processes'[q] = processes[q]
      <4>1. Managed(q)
        BY <2>1, <3>1 DEF Managed
      <4>2. alive[processes[q]] /\ pid[processes[q]] \in {q, NoPid}
        BY <1>0, <4>1 DEF KInv, HandleCoherent
      <4>3. processes[q] \in Objs /\ processes[q] # o
        BY <1>15, <4>1
      <4>4. alive'[processes[q]]
        BY <1>9, <4>2, <4>3
      <4>5. pid'[processes[q]] \in {q, NoPid}
        BY <1>9, <4>2, <4>3
      <4> QED
        BY <3>1, <4>4, <4>5
    <3>2. CASE q = p /\ processes'[p] = o
      BY <1>9, <3>2
    <3> QED
      BY <1>10, <3>1, <3>2
  <2> QED
    BY <2>1 DEF HandleCoherent
<1>18. ReleasedIsReaped'
  <2>1. ASSUME NEW x \in 1..nobj', ~alive'[x] PROVE life'[x] = "gone"
    <3>1. x # o
      BY <1>9, <2>1
    <3>2. x \in 1..nobj /\ x \in Objs
      BY <1>0, <1>1, <1>3, <2>1, <3>1 DEF Objs, ConstantsOK, o
    <3>3. ~alive[x]
      BY <1>9, <2>1, <3>1, <3>2
    <3>4. life[x] = "gone"
      BY <1>0, <3>2, <3>3 DEF KInv, ReleasedIsReaped
    <3> QED
      BY <1>9, <3>1, <3>2, <3>4
  <2> QED
    BY <2>1 DEF ReleasedIsReaped
<1>19. Waiting'
  BY <1>1, <1>2, <1>5, <1>9 DEF Waiting, o
<1>20. ~reuse' => Reachable'
  <2>1. ASSUME ~reuse, NEW x \in Objs, Unreaped(x)' PROVE processes'[pid'[x]] = x \/ wait' = x
    <3>1. CASE x = o
      <4>1. ~Managed(p)
        BY <1>1, <2>1
      <4>2. processes'[p] = o \/ wait' = o
        BY <1>0, <1>2, <4>1 DEF Insert, KType
      <4> QED
        BY <1>9, <3>1, <4>2
    <3>2. CASE x # o
      <4>1. Unreaped(x) /\ pid'[x] = pid[x]
        BY <1>9, <2>1, <3>2 DEF Unreaped
      <4>2. pid[x] \in Pids /\ processes[pid[x]] = x
        BY <1>0, <1>1, <2>1, <4>1, ObjFacts DEF KInv, ChildHasPid, Reachable
      <4>3. Managed(pid[x])
        BY <4>2, ObjFacts DEF Managed
      <4> QED
        BY <1>10, <4>1, <4>2, <4>3
    <3> QED
      BY <3>1, <3>2
  <2> QED
    BY <1>1, <2>1 DEF Reachable
<1>21. ~reuse' => StatusKept'
  <2>1. ASSUME ~reuse, NEW x \in Objs PROVE StatusOf(x)
    <3>1. CASE x = o
      <4>1. exitStatus' = exitStatus /\ exitStatus[o] = 0
        BY <1>1, <1>3
      <4>2. pid'[x] = p
        BY <1>9, <3>1
      <4>3. pid'[x] # NoPid
        BY <4>2, ObjFacts
      <4>4. exitStatus'[x] = 0
        BY <3>1, <4>1
      <4> QED
        BY <4>3, <4>4 DEF StatusOf
    <3>2. CASE x # o
      <4>1. pid'[x] = pid[x] /\ life'[x] = life[x] /\ open'[x] = open[x] /\ exitStatus'[x] = exitStatus[x] /\ code'[x] = code[x]
        BY <1>1, <1>9, <3>2
      <4>2. /\ exitStatus[x] # 0 => pid[x] = NoPid /\ life[x] = "gone" /\ exitStatus[x] = code[x]
            /\ open[x] /\ pid[x] = NoPid => life[x] = "gone" /\ exitStatus[x] = code[x]
        BY <1>0, <2>1 DEF KInv, StatusKept
      <4> QED
        BY <4>1, <4>2 DEF StatusOf
    <3> QED
      BY <3>1, <3>2
  <2> QED
    BY <1>1, <2>1 DEF StatusKept, StatusOf
<1> QED
  BY <1>6, <1>7, <1>8, <1>11, <1>12, <1>13, <1>14, <1>16, <1>17, <1>18, <1>19, <1>20, <1>21 DEF Kept, KInv

-----------------------------------------------------------------------------
(* The theorems.                                                           *)

LEMMA NextKeeps ==
  ASSUME ConstantsOK, IInv, [Next]_vars
  PROVE  IInv' /\ (OutputInOrder => OutputInOrder')
<1>1. Kept /\ StreamsKept
  <2>1. ASSUME NEW p \in Pids, Request(p) PROVE Kept /\ StreamsKept
    <3>1. ASSUME NEW streams \in BOOLEAN, Start(p, streams) PROVE Kept /\ StreamsKept
      BY <3>1, KeepsStart
    <3>2. ASSUME NEW s \in Streams, ReadLine(p, s) \/ Read(p, s) PROVE Kept /\ StreamsKept
      BY <3>2, KeepsReadLine, KeepsRead
    <3>3. CASE ReadRunning(p) \/ BufferEmpty(p) \/ ReadStatus(p) \/ Write(p)
      BY <3>3, KeepsReadRunning, KeepsBufferEmpty, KeepsReadStatus, KeepsWrite
    <3>4. CASE KillSignal(p, 15) \/ Kill(p) \/ Close(p)
      BY <3>4, KeepsKillSignal, KeepsKill, KeepsClose
    <3>5. CASE Release(p) \/ DeleteNext(p)
      BY <3>5, KeepsDelete DEF Release, DeleteNext
    <3> QED
      BY <2>1, <3>1, <3>2, <3>3, <3>4, <3>5 DEF Request
  <2>2. ASSUME NEW o \in Objs, Child(o) PROVE Kept /\ StreamsKept
    BY <2>2, KeepsChildWrites, KeepsChildExits DEF Child
  <2>3. CASE Stopped \/ UNCHANGED vars
    BY <2>3, KeepsStutter DEF Stopped
  <2>4. CASE Reject \/ StartFails \/ CloseReturns \/ Shutdown
    BY <2>4, KeepsReject, KeepsStartFails, KeepsCloseReturns, KeepsShutdown
  <2>5. ASSUME NEW p \in Pids, ForeignStarts(p) \/ ForeignExits(p) PROVE Kept /\ StreamsKept
    BY <2>5, KeepsForeign
  <2> QED
    BY <2>1, <2>2, <2>3, <2>4, <2>5 DEF Next
<1>2. TypeOK'
  BY <1>1, TypeGroups DEF Kept, StreamsKept, TypeOK, KType, RType, SType
<1> QED
  BY <1>1, <1>2 DEF Kept, StreamsKept, IInv

\* A child that was not waited for holds the pid its object knows.
LEMMA IInvImplies ==
  ASSUME ConstantsOK, IInv
  PROVE  ChildrenAreAccountedFor
<1>1. NoOrphan
  <2>1. ASSUME ~reuse, NEW o \in Objs, Unreaped(o)
        PROVE  \E p \in Pids : owner[p] = o /\ pid[o] = p /\ (processes[p] = o \/ wait = o)
    <3>1. pid[o] \in Pids /\ owner[pid[o]] = o
      BY <2>1 DEF IInv, KInv, ChildHasPid
    <3>2. processes[pid[o]] = o \/ wait = o
      BY <2>1 DEF IInv, KInv, Reachable
    <3> QED
      BY <3>1, <3>2
  <2> QED
    BY <2>1 DEF NoOrphan, Unreaped
<1> QED
  BY <1>1 DEF IInv, KInv, AInv, ChildrenAreAccountedFor

\* The process agent accounts for its children, however many are started and whatever
\* their pids: no child of a deleted Process is left, IDs lead to live objects, every child
\* can be reached, and a status is the child's own (ProcessAgent.cc, Process.cc,
\* ExternalProgram.cc).
THEOREM ChildrenAccounted ==
  ASSUME ConstantsOK
  PROVE  Spec => []ChildrenAreAccountedFor
<1>1. Init => IInv
  BY InitIInv
<1>2. IInv /\ [Next]_vars => IInv'
  BY NextKeeps
<1>3. IInv => ChildrenAreAccountedFor
  BY IInvImplies
<1> QED
  BY <1>1, <1>2, <1>3, PTL DEF Spec

\* Whatever the mix of requests, the caller gets what a child wrote in order, without a
\* gap or a repetition (Process::readLine, read, ExternalDataSource::receiveUpto).
THEOREM OutputOrdered ==
  ASSUME ConstantsOK
  PROVE  Spec => []OutputInOrder
<1> DEFINE OI == IInv /\ OutputInOrder
<1>1. Init => OI
  <2>1. ASSUME Init PROVE OutputInOrder
    <3>1. ASSUME NEW o \in Objs, NEW s \in Streams
          PROVE  delivered[o][s] \o (buf[o][s] \o chan[o][s]) = written[o][s]
      <4>1. delivered[o][s] = <<>> /\ buf[o][s] = <<>> /\ chan[o][s] = <<>> /\ written[o][s] = <<>>
        BY <2>1 DEF Init, Empty
      <4> QED
        BY <4>1, ConcatEmptySeq, EmptySeq
    <3> QED
      BY <3>1 DEF OutputInOrder
  <2> QED
    BY <2>1, InitIInv
<1>2. OI /\ [Next]_vars => OI'
  BY NextKeeps
<1>3. OI => OutputInOrder
  OBVIOUS
<1> QED
  BY <1>1, <1>2, <1>3, PTL DEF Spec
=============================================================================
