--------------------------- MODULE YCPCalls_proofs ---------------------------
(***************************************************************************)
(* Recursion in the YCP interpreter is correct for every program: the      *)
(* inductive invariant of YCPCalls, and the theorem that it implements     *)
(* FrameStack.                                                             *)
(***************************************************************************)
EXTENDS YCPCalls, SequenceTheorems, FiniteSetTheorems, TLAPS

-----------------------------------------------------------------------------
(* The stack of activations, as a sequence st with counters d.             *)

\* Entering a scope: the new activation gets the next number.
LEMMA NestedPush ==
  ASSUME NEW st \in Seq(Activation), NEW d \in [Scopes -> Nat], Nested(st, d),
         NEW a \in Activation, a.id \in Scopes, a.inst = d[a.id] + 1,
         a.kind = "block" => a.id \in Blocks /\ (a.old <=> d[a.id] > 0),
         a.kind = "builtin" => a.id \in Builtins,
         a.kind \in {"call", "ret"} => a.id \in Functions \ Undefined,
         a.kind # "args"
  PROVE  Nested(Append(st, a), [d EXCEPT ![a.id] = @ + 1])
<1> DEFINE st2 == Append(st, a)
           d2 == [d EXCEPT ![a.id] = @ + 1]
<1>1. /\ st2 \in Seq(Activation) /\ Len(st2) = Len(st) + 1 /\ st2[Len(st) + 1] = a
      /\ \A i \in 1..Len(st) : st2[i] = st[i]
      /\ Len(st) \in Nat
  OBVIOUS
<1>2. /\ \A s \in Scopes : d2[s] = IF s = a.id THEN d[s] + 1 ELSE d[s]
      /\ \A s \in Scopes : d[s] \in Nat
  OBVIOUS
<1>a. \A i \in 1..Len(st) : st[i] \in Activation
  OBVIOUS
<1> HIDE DEF st2, d2
<1>3. ASSUME NEW i \in 1..Len(st2)
      PROVE  /\ st2[i].kind = "block" => st2[i].id \in Blocks
             /\ st2[i].kind = "builtin" => st2[i].id \in Builtins
             /\ st2[i].kind \in {"call", "ret"} => st2[i].id \in Functions \ Undefined
             /\ st2[i].kind = "args" => st2[i].id \in Nodes
             /\ st2[i].kind = "block" => (st2[i].old <=> st2[i].inst > 1)
             /\ st2[i].kind # "args" => st2[i].inst \in 1..d2[st2[i].id]
  <2>1. CASE i = Len(st) + 1
    <3>1. st2[i] = a
      BY <2>1, <1>1
    <3>2. a.inst \in 1..d2[a.id] /\ (a.inst > 1 <=> d[a.id] > 0)
      BY <1>2
    <3> QED
      BY <3>1, <3>2
  <2>2. CASE i \in 1..Len(st)
    <3>1. st2[i] = st[i]
      BY SMTT(60), <2>2, <1>1
    <3>2. st[i].kind # "args" => st[i].id \in Scopes
      BY SMTT(60), <2>2, <1>a DEF Nested, WellFormed, Ordered, Complete, Activation, Scopes
    <3>3. st[i].kind # "args" => st[i].inst \in 1..d2[st[i].id]
      <4>1. SUFFICES ASSUME st[i].kind # "args" PROVE st[i].inst \in 1..d2[st[i].id]
        OBVIOUS
      <4>2. st[i].inst \in 1..d[st[i].id]
        BY <4>1, <2>2 DEF Nested, WellFormed, Ordered, Complete
      <4>3. d[st[i].id] \in Nat /\ d2[st[i].id] \in Nat /\ d[st[i].id] <= d2[st[i].id]
        BY SMTT(60), <4>1, <3>2, <1>2
      <4> QED
        BY <4>2, <4>3
    <3> QED
      BY SMTT(60), <3>1, <3>3, <2>2 DEF Nested, WellFormed, Ordered, Complete
  <2> QED
    BY <2>1, <2>2, <1>1
<1>4. ASSUME NEW i \in 1..Len(st2), NEW j \in 1..Len(st2),
             i < j, st2[i].id = st2[j].id, st2[i].kind # "args"
      PROVE  st2[i].inst < st2[j].inst
  <2>1. i \in 1..Len(st) /\ st2[i] = st[i]
    BY <1>4, <1>1
  <2>2. CASE j = Len(st) + 1
    <3>1. st2[j] = a
      BY <2>2, <1>1
    <3>2. st[i].inst \in 1..d[a.id]
      BY SMTT(60), <3>1, <2>1, <1>4 DEF Nested, WellFormed, Ordered, Complete
    <3> QED
      BY SMTT(60), <3>1, <3>2, <2>1, <1>2
  <2>3. CASE j \in 1..Len(st)
    BY <2>1, <2>3, <1>4, <1>1 DEF Nested, WellFormed, Ordered, Complete
  <2> QED
    BY <2>2, <2>3, <1>1
<1>5. ASSUME NEW s \in Scopes, NEW k \in 1..d2[s]
      PROVE  \E i \in 1..Len(st2) : st2[i].id = s /\ st2[i].inst = k
  <2>1. CASE s = a.id /\ k = d[s] + 1
    BY <2>1, <1>1
  <2>2. CASE k \in 1..d[s]
    <3>1. PICK i \in 1..Len(st) : st[i].id = s /\ st[i].inst = k
      BY <2>2 DEF Nested, Complete
    <3> QED
      BY <3>1, <1>1
  <2> QED
    BY <2>1, <2>2, <1>2
<1>6. Nested(st2, d2)
  BY <1>3, <1>4, <1>5 DEF Nested, WellFormed, Ordered, Complete
<1> QED
  BY <1>6 DEF st2, d2

\* What is left when the newest activation is taken off.
LEMMA WithoutNewest ==
  ASSUME NEW S, NEW st \in Seq(S), st # <<>>
  PROVE  LET front == SubSeq(st, 1, Len(st) - 1) IN
         /\ front \in Seq(S) /\ Len(st) \in Nat \ {0} /\ Len(front) = Len(st) - 1
         /\ \A i \in 1..Len(front) : i \in 1..Len(st) /\ front[i] = st[i]
         /\ st[Len(st)] \in S
<1>1. Len(st) \in Nat \ {0}
  OBVIOUS
<1>2. \A i \in 1..(Len(st) - 1) : st[i] \in S
  BY <1>1
<1> DEFINE front == SubSeq(st, 1, Len(st) - 1)
<1>3. /\ front \in Seq(S) /\ Len(front) = IF 1 <= Len(st) - 1 THEN Len(st) - 1 - 1 + 1 ELSE 0
      /\ \A i \in 1..(Len(st) - 1 - 1 + 1) : front[i] = st[1 + i - 1]
  BY <1>1, <1>2, SubSeqProperties
<1> HIDE DEF front
<1>4. Len(front) = Len(st) - 1
  <2>1. \A n \in Nat \ {0} : (IF 1 <= n - 1 THEN n - 1 - 1 + 1 ELSE 0) = n - 1
    OBVIOUS
  <2> QED
    BY <2>1, <1>1, <1>3
<1>5. \A i \in 1..Len(front) : i \in 1..Len(st) /\ front[i] = st[i]
  BY <1>1, <1>3, <1>4
<1> QED
  BY <1>1, <1>3, <1>4, <1>5 DEF front

\* Leaving a scope: the newest activation of the stack is the newest of its scope.
LEMMA NestedPop ==
  ASSUME NEW st \in Seq(Activation), NEW d \in [Scopes -> Nat], Nested(st, d),
         st # <<>>, st[Len(st)].kind # "args"
  PROVE  LET a == st[Len(st)] IN
         /\ a.id \in Scopes /\ a.inst = d[a.id] /\ d[a.id] > 0
         /\ Nested(SubSeq(st, 1, Len(st) - 1), [d EXCEPT ![a.id] = @ - 1])
<1> DEFINE a == st[Len(st)]
           front == SubSeq(st, 1, Len(st) - 1)
           d2 == [d EXCEPT ![a.id] = @ - 1]
<1>1. /\ front \in Seq(Activation) /\ Len(st) \in Nat \ {0} /\ Len(front) = Len(st) - 1
      /\ \A i \in 1..Len(front) : i \in 1..Len(st) /\ front[i] = st[i]
      /\ a \in Activation
  BY WithoutNewest
<1>2. \A i \in 1..Len(st) : st[i].kind # "args" <=> st[i].id \in Scopes
  <2>1. \A i \in 1..Len(st) : st[i].kind \in {"block", "builtin", "args", "call", "ret"}
    <3>1. \A i \in 1..Len(st) : st[i] \in Activation
      OBVIOUS
    <3> QED
      BY <3>1 DEF Activation
  <2> QED
    BY <2>1, ScopesAssumption DEF Nested, WellFormed, Ordered, Complete, Scopes
<1>3. a.id \in Scopes /\ a.inst \in 1..d[a.id] /\ d[a.id] \in Nat
  BY <1>1, <1>2 DEF Nested, WellFormed, Ordered, Complete
<1>4. a.inst = d[a.id] /\ d[a.id] > 0
  <2>1. PICK i \in 1..Len(st) : st[i].id = a.id /\ st[i].inst = d[a.id]
    <3>1. d[a.id] \in 1..d[a.id] /\ a.id \in Scopes
      BY <1>3
    <3> HIDE DEF a
    <3> QED
      BY SMTT(60), <3>1 DEF Nested, Complete
  <2>2. CASE i = Len(st)
    BY <2>1, <2>2, <1>3
  <2>3. CASE i < Len(st)
    <3>1. st[i].inst < a.inst
      BY SMTT(60), <2>1, <2>3, <1>1, <1>2, <1>3 DEF Nested, WellFormed, Ordered, Complete
    <3> QED
      BY SMTT(60), <3>1, <2>1, <1>3
  <2> QED
    BY <2>2, <2>3, <1>1
<1>5. /\ \A s \in Scopes : d2[s] = IF s = a.id THEN d[s] - 1 ELSE d[s]
      /\ \A s \in Scopes : d[s] \in Nat
  OBVIOUS
<1> HIDE DEF front, d2, a
<1>6. ASSUME NEW i \in 1..Len(front)
      PROVE  /\ front[i].kind = "block" => front[i].id \in Blocks
             /\ front[i].kind = "builtin" => front[i].id \in Builtins
             /\ front[i].kind \in {"call", "ret"} => front[i].id \in Functions \ Undefined
             /\ front[i].kind = "args" => front[i].id \in Nodes
             /\ front[i].kind = "block" => (front[i].old <=> front[i].inst > 1)
             /\ front[i].kind # "args" => front[i].inst \in 1..d2[front[i].id]
  <2>1. i \in 1..Len(st) /\ front[i] = st[i] /\ i < Len(st)
    BY <1>1
  <2>2. ASSUME st[i].kind # "args" PROVE st[i].inst \in 1..d2[st[i].id]
    <3>1. st[i].inst \in 1..d[st[i].id] /\ st[i].id \in Scopes
      BY SMTT(60), <2>1, <2>2, <1>2 DEF Nested, WellFormed, Ordered, Complete
    <3>2. CASE st[i].id = a.id
      <4>1. st[i].inst < a.inst
        BY SMTT(60), <3>2, <2>1, <2>2, <1>1 DEF Nested, WellFormed, Ordered, Complete, a
      <4> QED
        BY SMTT(60), <4>1, <3>1, <3>2, <1>3, <1>4, <1>5
    <3>3. CASE st[i].id # a.id
      BY SMTT(60), <3>1, <3>3, <1>5
    <3> QED
      BY <3>2, <3>3
  <2> QED
    BY <2>1, <2>2 DEF Nested, WellFormed, Ordered, Complete
<1>7. ASSUME NEW i \in 1..Len(front), NEW j \in 1..Len(front),
             i < j, front[i].id = front[j].id, front[i].kind # "args"
      PROVE  front[i].inst < front[j].inst
  BY SMTT(60), <1>7, <1>1 DEF Nested, WellFormed, Ordered, Complete
<1>8. ASSUME NEW s \in Scopes, NEW k \in 1..d2[s]
      PROVE  \E i \in 1..Len(front) : front[i].id = s /\ front[i].inst = k
  <2>1. k \in 1..d[s] /\ (s = a.id => k < d[s])
    BY <1>5
  <2>2. PICK i \in 1..Len(st) : st[i].id = s /\ st[i].inst = k
    BY <2>1 DEF Nested, WellFormed, Ordered, Complete
  <2>3. i # Len(st)
    BY <2>1, <2>2, <1>4 DEF a
  <2>4. i \in 1..Len(front)
    BY SMTT(60), <2>3, <1>1
  <2> QED
    BY SMTT(60), <2>2, <2>4, <1>1
<1>9. Nested(front, d2)
  BY <1>6, <1>7, <1>8 DEF Nested, WellFormed, Ordered, Complete
<1> QED
  BY <1>3, <1>4, <1>9 DEF a, front, d2

\* Parameters are evaluated in no scope of their own.
LEMMA NestedArgs ==
  ASSUME NEW st \in Seq(Activation), NEW d \in [Scopes -> Nat], Nested(st, d),
         NEW a \in Activation, a.kind = "args", a.id \in Nodes
  PROVE  Nested(Append(st, a), d)
<1> DEFINE st2 == Append(st, a)
<1>1. /\ Len(st2) = Len(st) + 1 /\ st2[Len(st) + 1] = a /\ Len(st) \in Nat
      /\ \A i \in 1..Len(st) : st2[i] = st[i]
  OBVIOUS
<1>2. \A i \in 1..Len(st) : st[i].kind # "args" => st[i].id \in Scopes
  <2>1. \A i \in 1..Len(st) : st[i].kind \in {"block", "builtin", "args", "call", "ret"}
    <3>1. \A i \in 1..Len(st) : st[i] \in Activation
      OBVIOUS
    <3> QED
      BY <3>1 DEF Activation
  <2> QED
    BY <2>1 DEF Nested, WellFormed, Ordered, Complete, Scopes
<1> HIDE DEF st2
<1>3. ASSUME NEW i \in 1..Len(st2), NEW j \in 1..Len(st2),
             i < j, st2[i].id = st2[j].id, st2[i].kind # "args"
      PROVE  j \in 1..Len(st)
  BY SMTT(60), <1>1, <1>2, <1>3, ScopesAssumption
<1>4. Nested(st2, d)
  BY SMTT(60), <1>1, <1>3 DEF Nested, WellFormed, Ordered, Complete
<1> QED
  BY <1>4 DEF st2

LEMMA NestedPopArgs ==
  ASSUME NEW st \in Seq(Activation), NEW d \in [Scopes -> Nat], Nested(st, d),
         st # <<>>, st[Len(st)].kind = "args"
  PROVE  Nested(SubSeq(st, 1, Len(st) - 1), d)
<1> DEFINE front == SubSeq(st, 1, Len(st) - 1)
<1>1. /\ Len(st) \in Nat \ {0} /\ Len(front) = Len(st) - 1
      /\ \A i \in 1..Len(front) : i \in 1..Len(st) /\ front[i] = st[i]
  BY WithoutNewest
<1> HIDE DEF front
<1>2. st[Len(st)].id \notin Scopes
  BY <1>1, ScopesAssumption DEF Nested, WellFormed, Ordered, Complete
<1>3. \A s \in Scopes : \A k \in 1..d[s] :
        \E i \in 1..Len(front) : front[i].id = s /\ front[i].inst = k
  <2> SUFFICES ASSUME NEW s \in Scopes, NEW k \in 1..d[s]
               PROVE  \E i \in 1..Len(front) : front[i].id = s /\ front[i].inst = k
    OBVIOUS
  <2>1. PICK i \in 1..Len(st) : st[i].id = s /\ st[i].inst = k
    BY DEF Nested, Complete
  <2>2. i # Len(st)
    BY <2>1, <1>2
  <2>3. i \in 1..Len(front)
    BY SMTT(60), <2>2, <1>1
  <2> QED
    BY <2>1, <2>3, <1>1
<1>4. Nested(front, d)
  BY SMTT(60), <1>1, <1>3 DEF Nested, WellFormed, Ordered, Complete
<1> QED
  BY <1>4 DEF front

\* The call whose definition is being evaluated keeps its number.
LEMMA NestedRet ==
  ASSUME NEW st \in Seq(Activation), NEW d \in [Scopes -> Nat], Nested(st, d),
         st # <<>>, st[Len(st)].kind = "call"
  PROVE  LET st2 == Append(SubSeq(st, 1, Len(st) - 1), [st[Len(st)] EXCEPT !.kind = "ret"]) IN
         st2 \in Seq(Activation) /\ Nested(st2, d)
<1> DEFINE front == SubSeq(st, 1, Len(st) - 1)
           a == st[Len(st)]
           b == [a EXCEPT !.kind = "ret"]
           st2 == Append(front, b)
<1>1. /\ front \in Seq(Activation) /\ Len(st) \in Nat \ {0} /\ Len(front) = Len(st) - 1
      /\ \A i \in 1..Len(front) : i \in 1..Len(st) /\ front[i] = st[i]
      /\ a \in Activation
  BY WithoutNewest
<1>2. b \in Activation /\ b.kind = "ret" /\ b.id = a.id /\ b.inst = a.inst
  BY <1>1 DEF Activation
<1> HIDE DEF front, b
<1>3. /\ st2 \in Seq(Activation) /\ Len(st2) = Len(st)
      /\ \A i \in 1..Len(st) : st2[i] = IF i = Len(st) THEN b ELSE st[i]
  BY <1>1, <1>2
<1> HIDE DEF st2
<1>4. \A i \in 1..Len(st) : /\ st2[i].id = st[i].id /\ st2[i].inst = st[i].inst
                            /\ st2[i].kind = IF i = Len(st) THEN "ret" ELSE st[i].kind
                            /\ i < Len(st) => st2[i].old = st[i].old
  BY <1>2, <1>3
<1>5. WellFormed(st2, d)
  BY SMTT(60), <1>1, <1>3, <1>4 DEF Nested, WellFormed
<1>6. Ordered(st2)
  BY SMTT(60), <1>1, <1>3, <1>4 DEF Nested, Ordered
<1>7. Complete(st2, d)
  BY SMTT(60), <1>1, <1>3, <1>4 DEF Nested, Complete
<1> QED
  BY <1>3, <1>5, <1>6, <1>7 DEF Nested, st2, front, b

-----------------------------------------------------------------------------
(* The call frames of a stack.                                             *)

LEMMA FramesFinite ==
  ASSUME NEW st \in Seq(Activation)
  PROVE  IsFiniteSet(CallFrames(st)) /\ Cardinality(CallFrames(st)) \in Nat
<1>1. IsFiniteSet(1..Len(st))
  BY FS_Interval
<1>2. CallFrames(st) \subseteq 1..Len(st)
  BY DEF CallFrames
<1> QED
  BY <1>1, <1>2, FS_Subset, FS_CardinalityType

LEMMA FramesAppend ==
  ASSUME NEW st \in Seq(Activation), NEW a \in Activation
  PROVE  Cardinality(CallFrames(Append(st, a))) =
           IF a.kind \in {"call", "ret"} /\ a.old
           THEN Cardinality(CallFrames(st)) + 1
           ELSE Cardinality(CallFrames(st))
<1> DEFINE st2 == Append(st, a)
           n == Len(st) + 1
<1>1. /\ Len(st2) = n /\ st2[n] = a /\ Len(st) \in Nat
      /\ \A i \in 1..Len(st) : st2[i] = st[i]
  OBVIOUS
<1> HIDE DEF st2
<1>2. n \notin CallFrames(st)
  BY <1>1 DEF CallFrames
<1>3. CASE a.kind \in {"call", "ret"} /\ a.old
  <2>1. CallFrames(st2) = CallFrames(st) \cup {n}
    BY <1>1, <1>3 DEF CallFrames
  <2> QED
    BY <2>1, <1>2, <1>3, FramesFinite, FS_AddElement DEF st2
<1>4. CASE ~(a.kind \in {"call", "ret"} /\ a.old)
  <2>1. CallFrames(st2) = CallFrames(st)
    BY <1>1, <1>4 DEF CallFrames
  <2> QED
    BY <2>1, <1>4 DEF st2
<1> QED
  BY <1>3, <1>4

LEMMA FramesFront ==
  ASSUME NEW st \in Seq(Activation), st # <<>>
  PROVE  LET a == st[Len(st)] IN
         Cardinality(CallFrames(SubSeq(st, 1, Len(st) - 1))) =
           IF a.kind \in {"call", "ret"} /\ a.old
           THEN Cardinality(CallFrames(st)) - 1
           ELSE Cardinality(CallFrames(st))
<1> DEFINE front == SubSeq(st, 1, Len(st) - 1)
           a == st[Len(st)]
           n == Len(st)
<1>1. /\ n \in Nat \ {0} /\ Len(front) = n - 1
      /\ \A i \in 1..Len(front) : front[i] = st[i]
  BY WithoutNewest
<1> HIDE DEF front
<1>2. CASE a.kind \in {"call", "ret"} /\ a.old
  <2>1. CallFrames(front) = CallFrames(st) \ {n} /\ n \in CallFrames(st)
    BY <1>1, <1>2 DEF CallFrames
  <2> QED
    BY <2>1, <1>2, FramesFinite, FS_RemoveElement DEF front
<1>3. CASE ~(a.kind \in {"call", "ret"} /\ a.old)
  <2>1. CallFrames(front) = CallFrames(st)
    BY <1>1, <1>3 DEF CallFrames
  <2> QED
    BY <2>1, <1>3 DEF front
<1> QED
  BY <1>2, <1>3

-----------------------------------------------------------------------------
(* SymbolEntry::push and SymbolEntry::pop.                                 *)

LEMMA PushVarsSaves ==
  ASSUME m_value \in [Vars -> Value], m_recurse_stack \in [Vars -> Seq(Value)], NEW vs
  PROVE  /\ PushVars(vs) \in [Vars -> Seq(Value)]
         /\ \A v \in Vars : Len(PushVars(vs)[v]) =
              IF v \in vs THEN Len(m_recurse_stack[v]) + 1 ELSE Len(m_recurse_stack[v])
  BY DEF PushVars

LEMMA PopVarsRestores ==
  ASSUME m_value \in [Vars -> Value], m_recurse_stack \in [Vars -> Seq(Value)], NEW vs, PopVars(vs)
  PROVE  /\ m_value' \in [Vars -> Value] /\ m_recurse_stack' \in [Vars -> Seq(Value)]
         /\ \A v \in Vars : Len(m_recurse_stack[v])' =
              IF v \in vs /\ Len(m_recurse_stack[v]) > 0
              THEN Len(m_recurse_stack[v]) - 1 ELSE Len(m_recurse_stack[v])
<1>1. ASSUME NEW v \in Vars, m_recurse_stack[v] # <<>>
      PROVE  /\ SubSeq(m_recurse_stack[v], 1, Len(m_recurse_stack[v]) - 1) \in Seq(Value)
             /\ Len(SubSeq(m_recurse_stack[v], 1, Len(m_recurse_stack[v]) - 1))
                 = Len(m_recurse_stack[v]) - 1
             /\ Len(m_recurse_stack[v]) > 0
             /\ m_recurse_stack[v][Len(m_recurse_stack[v])] \in Value
  BY <1>1, WithoutNewest
<1>2. m_value' \in [Vars -> Value]
  BY <1>1 DEF PopVars
<1>3. m_recurse_stack' \in [Vars -> Seq(Value)]
  BY <1>1 DEF PopVars
<1>4. ASSUME NEW v \in Vars
      PROVE  Len(m_recurse_stack[v])' =
               IF v \in vs /\ Len(m_recurse_stack[v]) > 0
               THEN Len(m_recurse_stack[v]) - 1 ELSE Len(m_recurse_stack[v])
  BY <1>1 DEF PopVars
<1> QED
  BY <1>2, <1>3, <1>4

-----------------------------------------------------------------------------
(* The inductive invariant: ActivationsAreNested is what makes the         *)
(* old_m_running of the block that is left agree with the activations that *)
(* remain, so that m_running and m_recurse_stack stay in step with them.   *)

IInv == /\ TypeOK
        /\ ActivationsAreNested
        /\ SavedValuesMatchActivations
        /\ RunningMatchesActivations
        /\ BacktraceMatchesCalls

\* A block or builtin is entered on top of the activations act.
LEMMA ActivateNests ==
  ASSUME IInv, NEW s \in Blocks \cup Builtins, NEW act \in Seq(Activation), Nested(act, depth),
         Activate(s, act), depth' = [depth EXCEPT ![s] = @ + 1]
  PROVE  /\ stack' \in Seq(Activation) /\ depth' \in [Scopes -> Nat]
         /\ ActivationsAreNested'
         /\ Cardinality(CallFrames(stack')) = Cardinality(CallFrames(act))
<1> DEFINE a == [kind |-> IF s \in Blocks THEN "block" ELSE "builtin",
                 id |-> s, old |-> s \in Blocks /\ m_running[s], want |-> s, inst |-> depth[s] + 1]
<1>1. s \in Scopes /\ depth \in [Scopes -> Nat] /\ depth[s] \in Nat
  BY DEF IInv, TypeOK, Scopes
<1>2. a \in Activation
  <2>1. (s \in Blocks /\ m_running[s]) \in BOOLEAN
    BY DEF IInv, TypeOK
  <2> QED
    BY <2>1, <1>1 DEF Activation, Scopes
<1>3. s \in Blocks => (a.old <=> depth[s] > 0)
  BY DEF IInv, RunningMatchesActivations
<1>4. /\ a.id = s /\ a.inst = depth[a.id] + 1 /\ a.kind \in {"block", "builtin"}
      /\ (a.kind = "block" => s \in Blocks) /\ (a.kind = "builtin" => s \in Builtins)
  BY <1>1
<1>5. stack' = Append(act, a)
  BY DEF Activate
<1> HIDE DEF a
<1>6. Nested(Append(act, a), [depth EXCEPT ![a.id] = @ + 1])
  BY <1>1, <1>2, <1>3, <1>4, NestedPush
<1>7. ActivationsAreNested'
  BY <1>4, <1>5, <1>6 DEF ActivationsAreNested
<1>8. Cardinality(CallFrames(stack')) = Cardinality(CallFrames(act))
  BY <1>2, <1>4, <1>5, FramesAppend
<1>9. stack' \in Seq(Activation) /\ depth' \in [Scopes -> Nat]
  BY SMTT(60), <1>1, <1>2, <1>5
<1> QED
  BY <1>7, <1>8, <1>9

\* The newest activation, which is not evaluating parameters, is left.
LEMMA LeaveNests ==
  ASSUME IInv, stack # <<>>, Top.kind # "args", stack' = Below,
         depth' = [depth EXCEPT ![Top.id] = @ - 1]
  PROVE  /\ stack' \in Seq(Activation) /\ depth' \in [Scopes -> Nat]
         /\ ActivationsAreNested'
         /\ Top \in Activation /\ Top.id \in Scopes /\ Top.inst = depth[Top.id] /\ depth[Top.id] > 0
         /\ Cardinality(CallFrames(stack')) =
              IF Top.kind \in {"call", "ret"} /\ Top.old
              THEN Cardinality(CallFrames(stack)) - 1 ELSE Cardinality(CallFrames(stack))
<1>1. stack \in Seq(Activation) /\ depth \in [Scopes -> Nat] /\ Nested(stack, depth)
  BY DEF IInv, TypeOK, ActivationsAreNested
<1>2. /\ Top.id \in Scopes /\ Top.inst = depth[Top.id] /\ depth[Top.id] > 0
      /\ Nested(Below, [depth EXCEPT ![Top.id] = @ - 1])
  BY <1>1, NestedPop DEF Top, Below
<1>3. Top \in Activation /\ Below \in Seq(Activation)
  BY <1>1, WithoutNewest DEF Top, Below
<1>4. Cardinality(CallFrames(Below)) =
        IF Top.kind \in {"call", "ret"} /\ Top.old
        THEN Cardinality(CallFrames(stack)) - 1 ELSE Cardinality(CallFrames(stack))
  BY <1>1, FramesFront DEF Top, Below
<1>5. ActivationsAreNested'
  BY <1>2 DEF ActivationsAreNested
<1>6. depth' \in [Scopes -> Nat]
  BY <1>1, <1>2
<1> QED
  BY SMTT(60), <1>2, <1>3, <1>4, <1>5, <1>6

\* The parameters at a call site are done with.
LEMMA LeaveArgs ==
  ASSUME IInv, IsTop("args")
  PROVE  /\ Below \in Seq(Activation) /\ Nested(Below, depth)
         /\ Top \in Activation /\ Top.id \in Nodes
         /\ Cardinality(CallFrames(Below)) = Cardinality(CallFrames(stack))
<1>1. stack \in Seq(Activation) /\ depth \in [Scopes -> Nat] /\ Nested(stack, depth)
  BY DEF IInv, TypeOK, ActivationsAreNested
<1>2. stack # <<>> /\ Top.kind = "args"
  BY DEF IsTop
<1>3. Nested(Below, depth)
  BY <1>1, <1>2, NestedPopArgs DEF Top, Below
<1>4. Below \in Seq(Activation) /\ Top \in Activation /\ Len(stack) \in Nat \ {0}
  BY SMTT(60), <1>1, <1>2, WithoutNewest DEF Top, Below
<1>5. Top.id \in Nodes
  BY SMTT(60), <1>1, <1>2, <1>4 DEF Nested, WellFormed, Top
<1>6. Cardinality(CallFrames(Below)) = Cardinality(CallFrames(stack))
  BY <1>1, <1>2, FramesFront DEF Top, Below
<1> QED
  BY <1>3, <1>4, <1>5, <1>6

LEMMA EnterBlockInv ==
  ASSUME IInv, NEW b \in Blocks, EnterBlock(b)
  PROVE  IInv'
<1> USE DEF IInv
<1>1. PICK act \in Seq(Activation) :
        /\ Nested(act, depth) /\ Activate(b, act)
        /\ Cardinality(CallFrames(act)) = Cardinality(CallFrames(stack))
  <2>1. stack \in Seq(Activation) /\ depth \in [Scopes -> Nat] /\ Nested(stack, depth)
    BY DEF TypeOK, ActivationsAreNested
  <2>2. CASE Activate(b, stack)
    BY <2>1, <2>2
  <2>3. CASE IsTop("call") /\ Activate(b, Append(Below, [Top EXCEPT !.kind = "ret"]))
    <3> DEFINE ret == [Top EXCEPT !.kind = "ret"]
               act == Append(Below, ret)
    <3>1. stack # <<>> /\ Top.kind = "call"
      BY <2>3 DEF IsTop
    <3>2. act \in Seq(Activation) /\ Nested(act, depth)
      BY SMTT(60), <2>1, <3>1, NestedRet DEF Top, Below
    <3>3. Below \in Seq(Activation) /\ Top \in Activation
      BY <2>1, <3>1, WithoutNewest DEF Top, Below
    <3>4. ret \in Activation /\ ret.kind = "ret" /\ ret.old = Top.old
      BY SMTT(60), <3>3 DEF Activation
    <3>5. Cardinality(CallFrames(Below)) =
            IF Top.old THEN Cardinality(CallFrames(stack)) - 1 ELSE Cardinality(CallFrames(stack))
      BY <2>1, <3>1, FramesFront DEF Top, Below
    <3> HIDE DEF ret
    <3>6. Cardinality(CallFrames(act)) =
            IF Top.old THEN Cardinality(CallFrames(Below)) + 1 ELSE Cardinality(CallFrames(Below))
      BY <3>3, <3>4, FramesAppend
    <3>7. Cardinality(CallFrames(stack)) \in Nat
      BY <2>1, FramesFinite
    <3>8. Activate(b, act)
      BY SMTT(60), <2>3 DEF ret
    <3> HIDE DEF act
    <3> QED
      BY <3>2, <3>5, <3>6, <3>7, <3>8
  <2> QED
    BY <2>2, <2>3 DEF EnterBlock
<1>2. /\ depth' = [depth EXCEPT ![b] = @ + 1] /\ m_running' = [m_running EXCEPT ![b] = TRUE]
      /\ m_recurse_stack' = IF m_running[b] THEN PushVars(VarsOf(b)) ELSE m_recurse_stack
      /\ UNCHANGED <<m_value, m_functioncall, backtrace>>
  BY DEF EnterBlock
<1>3. /\ stack' \in Seq(Activation) /\ depth' \in [Scopes -> Nat] /\ ActivationsAreNested'
      /\ Cardinality(CallFrames(stack')) = Cardinality(CallFrames(stack))
  BY <1>1, <1>2, ActivateNests
<1>4. /\ \A s \in Scopes : depth[s] \in Nat /\ depth'[s] = IF s = b THEN depth[s] + 1 ELSE depth[s]
      /\ b \in Scopes
  BY <1>2 DEF TypeOK, Scopes
<1>5. /\ m_recurse_stack' \in [Vars -> Seq(Value)]
      /\ \A v \in Vars : Len(m_recurse_stack'[v]) =
           IF m_running[b] /\ Scope[v] = b THEN Len(m_recurse_stack[v]) + 1 ELSE Len(m_recurse_stack[v])
  BY <1>2, PushVarsSaves DEF TypeOK, VarsOf
<1>6. TypeOK'
  BY <1>2, <1>3, <1>5 DEF TypeOK
<1>7. RunningMatchesActivations'
  BY SMTT(60), <1>2, <1>4 DEF RunningMatchesActivations, TypeOK, Scopes
<1>8. SavedValuesMatchActivations'
  <2> SUFFICES ASSUME NEW v \in Vars
               PROVE  /\ Scope[v] \in Blocks =>
                           Len(m_recurse_stack'[v]) = IF depth'[Scope[v]] = 0 THEN 0 ELSE depth'[Scope[v]] - 1
                      /\ Scope[v] \in (Functions \cup Builtins) \ Undefined =>
                           Len(m_recurse_stack'[v]) = depth'[Scope[v]]
    BY DEF SavedValuesMatchActivations
  <2>1. Scope[v] \in Scopes /\ (m_running[b] <=> depth[b] > 0)
    BY VarsAssumption DEF RunningMatchesActivations
  <2>2. /\ Scope[v] \in Blocks =>
             Len(m_recurse_stack[v]) = IF depth[Scope[v]] = 0 THEN 0 ELSE depth[Scope[v]] - 1
        /\ Scope[v] \in (Functions \cup Builtins) \ Undefined =>
             Len(m_recurse_stack[v]) = depth[Scope[v]]
    BY Zenon DEF SavedValuesMatchActivations
  <2>3. /\ depth'[Scope[v]] = IF Scope[v] = b THEN depth[Scope[v]] + 1 ELSE depth[Scope[v]]
        /\ depth[Scope[v]] \in Nat
    BY <2>1, <1>4
  <2>4. Len(m_recurse_stack'[v]) =
          IF m_running[b] /\ Scope[v] = b THEN Len(m_recurse_stack[v]) + 1
                                         ELSE Len(m_recurse_stack[v])
    BY <1>5
  <2>5. b \notin Functions \cup Builtins
    BY SMTT(60), ScopesAssumption
  <2> HIDE DEF IInv
  <2>6. CASE Scope[v] = b
    <3>1. Scope[v] \notin (Functions \cup Builtins) \ Undefined
      BY <2>5, <2>6
    <3>2. Len(m_recurse_stack[v]) = IF depth[b] = 0 THEN 0 ELSE depth[b] - 1
      BY <2>2, <2>6
    <3>3. depth'[b] = depth[b] + 1 /\ depth[b] \in Nat
      BY SMTT(60), <2>3, <2>6
    <3>4. CASE m_running[b]
      <4>1. depth[b] > 0 /\ Len(m_recurse_stack'[v]) = Len(m_recurse_stack[v]) + 1
        BY SMTT(60), <3>4, <2>1, <2>4, <2>6
      <4>2. Len(m_recurse_stack'[v]) = depth'[b] - 1 /\ depth'[b] # 0
        BY SMTT(60), <4>1, <3>2, <3>3
      <4> QED
        BY SMTT(60), <4>2, <3>1, <2>6
    <3>5. CASE ~m_running[b]
      <4>1. ~(depth[b] > 0) /\ Len(m_recurse_stack'[v]) = Len(m_recurse_stack[v])
        BY SMTT(60), <3>5, <2>1, <2>4
      <4>2. Len(m_recurse_stack'[v]) = 0 /\ depth'[b] = 1
        BY SMTT(60), <4>1, <3>2, <3>3
      <4> QED
        BY SMTT(60), <4>2, <3>1, <2>6
    <3> QED
      BY <3>4, <3>5
  <2>7. CASE Scope[v] # b
    <3>1. /\ depth'[Scope[v]] = depth[Scope[v]]
          /\ Len(m_recurse_stack'[v]) = Len(m_recurse_stack[v])
      BY SMTT(60), <2>3, <2>4, <2>7
    <3> QED
      BY SMTT(60), <3>1, <2>2
  <2> QED
    BY SMTT(60), <2>6, <2>7
<1>9. BacktraceMatchesCalls'
  BY <1>2, <1>3 DEF BacktraceMatchesCalls
<1> QED
  BY SMTT(60), <1>3, <1>6, <1>7, <1>8, <1>9

LEMMA LeaveBlockInv ==
  ASSUME IInv, NEW b \in Blocks, LeaveBlock(b)
  PROVE  IInv'
<1> USE DEF IInv
<1>1. /\ stack # <<>> /\ Top.kind = "block" /\ Top.id = b /\ stack' = Below
      /\ depth' = [depth EXCEPT ![b] = @ - 1] /\ m_running' = [m_running EXCEPT ![b] = Top.old]
      /\ UNCHANGED <<m_functioncall, backtrace>>
  BY DEF LeaveBlock, IsTop
<1>2. /\ stack' \in Seq(Activation) /\ depth' \in [Scopes -> Nat] /\ ActivationsAreNested'
      /\ Top \in Activation /\ Top.inst = depth[b] /\ depth[b] > 0
      /\ Cardinality(CallFrames(stack')) = Cardinality(CallFrames(stack))
  BY <1>1, LeaveNests
<1>3. Top.old \in BOOLEAN /\ (Top.old <=> depth[b] > 1)
  <2>1. Top.old <=> Top.inst > 1
    <3>1. stack \in Seq(Activation) /\ Len(stack) \in 1..Len(stack)
      BY <1>1 DEF TypeOK
    <3> QED
      BY SMTT(60), <3>1, <1>1 DEF ActivationsAreNested, Nested, WellFormed, Top
  <2> QED
    BY SMTT(60), <2>1, <1>2 DEF Activation
<1>4. /\ \A s \in Scopes : depth[s] \in Nat /\ depth'[s] = IF s = b THEN depth[s] - 1 ELSE depth[s]
      /\ b \in Scopes
  BY <1>1 DEF TypeOK, Scopes
<1>5. /\ m_value' \in [Vars -> Value] /\ m_recurse_stack' \in [Vars -> Seq(Value)]
      /\ \A v \in Vars : Len(m_recurse_stack'[v]) =
           IF Top.old /\ Scope[v] = b /\ Len(m_recurse_stack[v]) > 0
           THEN Len(m_recurse_stack[v]) - 1 ELSE Len(m_recurse_stack[v])
  <2>1. CASE Top.old
    <3>1. PopVars(VarsOf(b))
      BY SMTT(60), <2>1 DEF LeaveBlock
    <3> QED
      BY <2>1, <3>1, PopVarsRestores DEF TypeOK, VarsOf
  <2>2. CASE ~Top.old
    BY SMTT(60), <2>2 DEF LeaveBlock, TypeOK
  <2> QED
    BY <2>1, <2>2
<1>6. TypeOK'
  BY SMTT(60), <1>1, <1>2, <1>3, <1>5 DEF TypeOK
<1>7. RunningMatchesActivations'
  BY SMTT(60), <1>1, <1>3, <1>4 DEF RunningMatchesActivations, TypeOK, Scopes
<1>8. SavedValuesMatchActivations'
  <2> SUFFICES ASSUME NEW v \in Vars
               PROVE  /\ Scope[v] \in Blocks =>
                           Len(m_recurse_stack'[v]) = IF depth'[Scope[v]] = 0 THEN 0 ELSE depth'[Scope[v]] - 1
                      /\ Scope[v] \in (Functions \cup Builtins) \ Undefined =>
                           Len(m_recurse_stack'[v]) = depth'[Scope[v]]
    BY DEF SavedValuesMatchActivations
  <2>1. Scope[v] \in Scopes
    BY VarsAssumption
  <2>2. CASE Scope[v] = b
    <3>1. Len(m_recurse_stack[v]) = depth[b] - 1
      BY SMTT(60), <2>2, <1>2, <1>4 DEF SavedValuesMatchActivations
    <3>2. depth[b] \in Nat /\ depth'[b] = depth[b] - 1
      BY SMTT(60), <1>4
    <3>3. Len(m_recurse_stack'[v]) = IF depth[b] > 1 THEN depth[b] - 2 ELSE depth[b] - 1
      BY SMTT(60), <3>1, <3>2, <2>2, <1>3, <1>5
    <3>4. b \notin Functions \cup Builtins
      BY SMTT(60), ScopesAssumption
    <3> QED
      BY SMTT(60), <3>2, <3>3, <3>4, <2>2, <1>2
  <2>3. CASE Scope[v] # b
    BY SMTT(60), <2>1, <2>3, <1>4, <1>5 DEF SavedValuesMatchActivations
  <2> QED
    BY <2>2, <2>3
<1>9. BacktraceMatchesCalls'
  BY <1>1, <1>2 DEF BacktraceMatchesCalls
<1> QED
  BY SMTT(60), <1>2, <1>6, <1>7, <1>8, <1>9

LEMMA EnterBuiltinInv ==
  ASSUME IInv, NEW u \in Builtins, EnterBuiltin(u)
  PROVE  IInv'
<1> USE DEF IInv
<1>1. /\ Activate(u, stack) /\ depth' = [depth EXCEPT ![u] = @ + 1]
      /\ m_recurse_stack' = PushVars(VarsOf(u))
      /\ UNCHANGED <<m_running, m_value, m_functioncall, backtrace>>
  BY DEF EnterBuiltin
<1>2. /\ stack' \in Seq(Activation) /\ depth' \in [Scopes -> Nat] /\ ActivationsAreNested'
      /\ Cardinality(CallFrames(stack')) = Cardinality(CallFrames(stack))
  BY <1>1, ActivateNests DEF TypeOK, ActivationsAreNested
<1>3. /\ \A s \in Scopes : depth[s] \in Nat /\ depth'[s] = IF s = u THEN depth[s] + 1 ELSE depth[s]
      /\ u \in Scopes /\ u \notin Blocks
  BY <1>1, ScopesAssumption DEF TypeOK, Scopes
<1>4. /\ m_recurse_stack' \in [Vars -> Seq(Value)]
      /\ \A v \in Vars : Len(m_recurse_stack'[v]) =
           IF Scope[v] = u THEN Len(m_recurse_stack[v]) + 1 ELSE Len(m_recurse_stack[v])
  BY <1>1, PushVarsSaves DEF TypeOK, VarsOf
<1>5. TypeOK'
  BY <1>1, <1>2, <1>4 DEF TypeOK
<1>6. RunningMatchesActivations'
  BY <1>1, <1>3 DEF RunningMatchesActivations, Scopes
<1>7. SavedValuesMatchActivations'
  BY SMTT(60), <1>3, <1>4, VarsAssumption DEF SavedValuesMatchActivations
<1>8. BacktraceMatchesCalls'
  BY <1>1, <1>2 DEF BacktraceMatchesCalls
<1> QED
  BY SMTT(60), <1>2, <1>5, <1>6, <1>7, <1>8

LEMMA LeaveBuiltinInv ==
  ASSUME IInv, NEW u \in Builtins, LeaveBuiltin(u)
  PROVE  IInv'
<1> USE DEF IInv
<1>1. /\ stack # <<>> /\ Top.kind = "builtin" /\ Top.id = u /\ stack' = Below
      /\ depth' = [depth EXCEPT ![u] = @ - 1] /\ PopVars(VarsOf(u))
      /\ UNCHANGED <<m_running, m_functioncall, backtrace>>
  BY DEF LeaveBuiltin, IsTop
<1>2. /\ stack' \in Seq(Activation) /\ depth' \in [Scopes -> Nat] /\ ActivationsAreNested'
      /\ depth[u] > 0
      /\ Cardinality(CallFrames(stack')) = Cardinality(CallFrames(stack))
  BY SMTT(60), <1>1, LeaveNests
<1>3. /\ \A s \in Scopes : depth[s] \in Nat /\ depth'[s] = IF s = u THEN depth[s] - 1 ELSE depth[s]
      /\ u \in Scopes /\ u \notin Blocks
  BY SMTT(60), <1>1, ScopesAssumption DEF TypeOK, Scopes
<1>4. /\ m_value' \in [Vars -> Value] /\ m_recurse_stack' \in [Vars -> Seq(Value)]
      /\ \A v \in Vars : Len(m_recurse_stack'[v]) =
           IF Scope[v] = u /\ Len(m_recurse_stack[v]) > 0
           THEN Len(m_recurse_stack[v]) - 1 ELSE Len(m_recurse_stack[v])
  BY SMTT(60), <1>1, PopVarsRestores DEF TypeOK, VarsOf
<1>5. TypeOK'
  BY SMTT(60), <1>1, <1>2, <1>4 DEF TypeOK
<1>6. RunningMatchesActivations'
  BY SMTT(60), <1>1, <1>3 DEF RunningMatchesActivations, Scopes
<1>7. SavedValuesMatchActivations'
  <2> SUFFICES ASSUME NEW v \in Vars
               PROVE  /\ Scope[v] \in Blocks =>
                           Len(m_recurse_stack'[v]) = IF depth'[Scope[v]] = 0 THEN 0 ELSE depth'[Scope[v]] - 1
                      /\ Scope[v] \in (Functions \cup Builtins) \ Undefined =>
                           Len(m_recurse_stack'[v]) = depth'[Scope[v]]
    BY SMTT(60) DEF SavedValuesMatchActivations
  <2>1. CASE Scope[v] = u
    <3>1. Len(m_recurse_stack[v]) = depth[u]
      BY SMTT(60), <2>1, ScopesAssumption DEF SavedValuesMatchActivations
    <3> QED
      BY SMTT(60), <3>1, <2>1, <1>2, <1>3, <1>4
  <2>2. CASE Scope[v] # u
    BY SMTT(60), <2>2, <1>3, <1>4, VarsAssumption DEF SavedValuesMatchActivations
  <2> QED
    BY SMTT(60), <2>1, <2>2
<1>8. BacktraceMatchesCalls'
  BY <1>1, <1>2 DEF BacktraceMatchesCalls
<1> QED
  BY SMTT(60), <1>2, <1>5, <1>6, <1>7, <1>8

LEMMA BeginCallInv ==
  ASSUME IInv, NEW n \in Nodes, NEW f \in Functions, BeginCall(n, f)
  PROVE  IInv'
<1> USE DEF IInv
<1> DEFINE a == [kind |-> "args", id |-> n, old |-> FALSE, want |-> f, inst |-> 0]
<1>1. a \in Activation
  BY SMTT(60) DEF Activation, Scopes
<1>2. stack' = Append(stack, a) /\ UNCHANGED <<m_running, m_value, m_recurse_stack, backtrace, depth>>
  BY DEF BeginCall
<1>3. Nested(stack', depth) /\ stack' \in Seq(Activation)
  <2>1. stack \in Seq(Activation) /\ depth \in [Scopes -> Nat] /\ Nested(stack, depth)
    BY DEF TypeOK, ActivationsAreNested
  <2>2. a.kind = "args" /\ a.id \in Nodes
    OBVIOUS
  <2> HIDE DEF a
  <2>3. Nested(Append(stack, a), depth)
    BY SMTT(60), <2>1, <2>2, <1>1, NestedArgs
  <2> QED
    BY SMTT(60), <2>1, <2>3, <1>1, <1>2
<1>4. Cardinality(CallFrames(stack')) = Cardinality(CallFrames(stack))
  BY SMTT(60), <1>1, <1>2, FramesAppend DEF TypeOK
<1>5. m_functioncall' \in [Nodes -> Functions]
  BY DEF BeginCall, TypeOK
<1> HIDE DEF a
<1>6. TypeOK'
  BY SMTT(60), <1>2, <1>3, <1>5 DEF TypeOK
<1>7. ActivationsAreNested' /\ BacktraceMatchesCalls'
  BY SMTT(60), <1>2, <1>3, <1>4 DEF ActivationsAreNested, BacktraceMatchesCalls
<1>8. SavedValuesMatchActivations' /\ RunningMatchesActivations'
  BY <1>2 DEF SavedValuesMatchActivations, RunningMatchesActivations
<1> QED
  BY SMTT(60), <1>6, <1>7, <1>8

\* A call that is given up or skipped.
LEMMA DropArgsInv ==
  ASSUME IInv, IsTop("args"), stack' = Below,
         UNCHANGED <<m_running, m_value, m_recurse_stack, m_functioncall, backtrace, depth>>
  PROVE  IInv'
<1> USE DEF IInv
<1>1. /\ Below \in Seq(Activation) /\ Nested(Below, depth)
      /\ Cardinality(CallFrames(Below)) = Cardinality(CallFrames(stack))
  BY LeaveArgs
<1>2. TypeOK'
  BY <1>1 DEF TypeOK
<1>3. ActivationsAreNested' /\ BacktraceMatchesCalls'
  BY SMTT(60), <1>1 DEF ActivationsAreNested, BacktraceMatchesCalls
<1>4. SavedValuesMatchActivations' /\ RunningMatchesActivations'
  BY DEF SavedValuesMatchActivations, RunningMatchesActivations
<1> QED
  BY <1>2, <1>3, <1>4

LEMMA CallInv ==
  ASSUME IInv, NEW n \in Nodes, NEW a \in [VarsOf(m_functioncall[n]) -> Value], Call(n, a)
  PROVE  IInv'
<1> USE DEF IInv
<1> DEFINE f == m_functioncall[n]
           new == [kind |-> "call", id |-> f, old |-> n \notin PtrNodes,
                   want |-> Top.want, inst |-> depth[f] + 1]
<1>1. /\ IsTop("args") /\ f \notin Undefined /\ (n \in PtrNodes \/ backtrace # Limit)
      /\ m_recurse_stack' = PushVars(VarsOf(f))
      /\ m_value' = [v \in Vars |-> IF v \in VarsOf(f) THEN a[v] ELSE m_value[v]]
      /\ backtrace' = IF n \in PtrNodes THEN backtrace ELSE backtrace + 1
      /\ depth' = [depth EXCEPT ![f] = @ + 1]
      /\ stack' = Append(Below, new)
      /\ UNCHANGED <<m_running, m_functioncall>>
  BY SMTT(60) DEF Call
<1>2. /\ f \in Functions /\ f \in Scopes /\ f \notin Blocks
      /\ \A s \in Scopes : depth[s] \in Nat /\ depth'[s] = IF s = f THEN depth[s] + 1 ELSE depth[s]
      /\ depth' \in [Scopes -> Nat]
  BY SMTT(60), <1>1, ScopesAssumption DEF TypeOK, Scopes
<1>a. /\ Below \in Seq(Activation) /\ Nested(Below, depth) /\ Top \in Activation
      /\ Cardinality(CallFrames(Below)) = Cardinality(CallFrames(stack))
  <2>1. IsTop("args")
    BY <1>1, Zenon
  <2> QED
    BY <2>1, LeaveArgs, Zenon
<1>b. new \in Activation
  <2>1. Top.want \in Functions \cup Blocks \cup Builtins
    BY SMTT(60), <1>a DEF Activation
  <2> QED
    BY SMTT(60), <2>1, <1>2 DEF Activation
<1>c. new.kind = "call" /\ new.id = f /\ new.inst = depth[f] + 1 /\ new.old = (n \notin PtrNodes)
  OBVIOUS
<1> HIDE DEF new, f
<1>3. ActivationsAreNested' /\ stack' \in Seq(Activation)
  <2>1. depth \in [Scopes -> Nat]
    BY SMTT(60) DEF TypeOK
  <2>2. Nested(Append(Below, new), [depth EXCEPT ![new.id] = @ + 1])
    BY ZenonT(60), <2>1, <1>1, <1>2, <1>a, <1>b, <1>c, NestedPush
  <2>3. stack' = Append(Below, new) /\ depth' = [depth EXCEPT ![new.id] = @ + 1]
    BY SMTT(60), <1>1, <1>c
  <2>4. stack' \in Seq(Activation)
    BY SMTT(60), <2>3, <1>a, <1>b, AppendProperties
  <2>5. Nested(stack', depth')
    BY <2>2, <2>3, Zenon
  <2> QED
    BY <2>4, <2>5, Zenon DEF ActivationsAreNested
<1>4. /\ m_recurse_stack' \in [Vars -> Seq(Value)]
      /\ \A v \in Vars : Len(m_recurse_stack'[v]) =
           IF Scope[v] = f THEN Len(m_recurse_stack[v]) + 1 ELSE Len(m_recurse_stack[v])
  BY SMTT(60), <1>1, PushVarsSaves DEF TypeOK, VarsOf
<1>5. m_value' \in [Vars -> Value]
  BY SMTT(60), <1>1 DEF TypeOK, f
<1>6. BacktraceMatchesCalls' /\ backtrace' \in Nat
  <2>1. Cardinality(CallFrames(stack')) =
          IF n \notin PtrNodes THEN Cardinality(CallFrames(stack)) + 1 ELSE Cardinality(CallFrames(stack))
    BY <1>1, <1>a, <1>b, <1>c, FramesAppend
  <2> QED
    BY SMTT(60), <2>1, <1>1, LimitAssumption DEF BacktraceMatchesCalls, TypeOK
<1>7. SavedValuesMatchActivations'
  <2> SUFFICES ASSUME NEW v \in Vars
               PROVE  /\ Scope[v] \in Blocks =>
                           Len(m_recurse_stack'[v]) = IF depth'[Scope[v]] = 0 THEN 0 ELSE depth'[Scope[v]] - 1
                      /\ Scope[v] \in (Functions \cup Builtins) \ Undefined =>
                           Len(m_recurse_stack'[v]) = depth'[Scope[v]]
    BY SMTT(60) DEF SavedValuesMatchActivations
  <2>1. CASE Scope[v] = f
    <3>1. Len(m_recurse_stack[v]) = depth[f]
      BY SMTT(60), <2>1, <1>1, <1>2 DEF SavedValuesMatchActivations
    <3> QED
      BY SMTT(60), <3>1, <2>1, <1>2, <1>4
  <2>2. CASE Scope[v] # f
    BY SMTT(60), <2>2, <1>2, <1>4, VarsAssumption DEF SavedValuesMatchActivations
  <2> QED
    BY <2>1, <2>2
<1>8. RunningMatchesActivations'
  BY SMTT(60), <1>1, <1>2 DEF RunningMatchesActivations, Scopes
<1>9. TypeOK'
  BY SMTT(60), <1>1, <1>2, <1>3, <1>4, <1>5, <1>6 DEF TypeOK
<1> QED
  BY SMTT(60), <1>3, <1>6, <1>7, <1>8, <1>9

LEMMA CallUndefinedInv ==
  ASSUME IInv, NEW n \in Nodes, CallUndefined(n)
  PROVE  IInv'
<1> USE DEF IInv
<1> DEFINE f == m_functioncall[n]
<1>1. /\ IsTop("args") /\ f \in Undefined /\ stack' = Below
      /\ m_recurse_stack' = PushVars(VarsOf(f))
      /\ UNCHANGED <<m_running, m_value, m_functioncall, backtrace, depth>>
  BY SMTT(60) DEF CallUndefined
<1>2. /\ Below \in Seq(Activation) /\ Nested(Below, depth)
      /\ Cardinality(CallFrames(Below)) = Cardinality(CallFrames(stack))
  <2>1. IsTop("args")
    BY <1>1, Zenon
  <2> QED
    BY <2>1, LeaveArgs, Zenon
<1> HIDE DEF f
<1>3. /\ m_recurse_stack' \in [Vars -> Seq(Value)]
      /\ \A v \in Vars : Len(m_recurse_stack'[v]) =
           IF Scope[v] = f THEN Len(m_recurse_stack[v]) + 1 ELSE Len(m_recurse_stack[v])
  BY SMTT(60), <1>1, PushVarsSaves DEF TypeOK, VarsOf
<1>4. TypeOK'
  BY SMTT(60), <1>1, <1>2, <1>3 DEF TypeOK
<1>5. ActivationsAreNested' /\ BacktraceMatchesCalls'
  BY SMTT(60), <1>1, <1>2 DEF ActivationsAreNested, BacktraceMatchesCalls
<1>6. SavedValuesMatchActivations'
  BY SMTT(60), <1>1, <1>3, ScopesAssumption DEF SavedValuesMatchActivations
<1>7. RunningMatchesActivations'
  BY <1>1 DEF RunningMatchesActivations
<1> QED
  BY SMTT(60), <1>4, <1>5, <1>6, <1>7

LEMMA ReturnCallInv ==
  ASSUME IInv, NEW f \in Functions, ReturnCall(f)
  PROVE  IInv'
<1> USE DEF IInv
<1>1. /\ stack # <<>> /\ Top.kind = "ret" /\ Top.id = f /\ stack' = Below
      /\ depth' = [depth EXCEPT ![f] = @ - 1] /\ PopVars(VarsOf(f))
      /\ backtrace' = IF Top.old THEN backtrace - 1 ELSE backtrace
      /\ UNCHANGED <<m_running, m_functioncall>>
  BY DEF ReturnCall, popframe, IsTop
<1>2. /\ stack' \in Seq(Activation) /\ depth' \in [Scopes -> Nat] /\ ActivationsAreNested'
      /\ depth[f] > 0
      /\ Cardinality(CallFrames(stack')) =
           IF Top.old THEN Cardinality(CallFrames(stack)) - 1 ELSE Cardinality(CallFrames(stack))
  BY SMTT(60), <1>1, LeaveNests
<1>3. /\ \A s \in Scopes : depth[s] \in Nat /\ depth'[s] = IF s = f THEN depth[s] - 1 ELSE depth[s]
      /\ f \in Scopes /\ f \notin Blocks
  BY SMTT(60), <1>1, ScopesAssumption DEF TypeOK, Scopes
<1>a. f \notin Undefined
  <2>1. stack \in Seq(Activation) /\ Len(stack) \in 1..Len(stack)
    BY SMTT(60), <1>1 DEF TypeOK
  <2> QED
    BY <2>1, <1>1 DEF ActivationsAreNested, Nested, WellFormed, Top
<1>4. /\ m_value' \in [Vars -> Value] /\ m_recurse_stack' \in [Vars -> Seq(Value)]
      /\ \A v \in Vars : Len(m_recurse_stack'[v]) =
           IF Scope[v] = f /\ Len(m_recurse_stack[v]) > 0
           THEN Len(m_recurse_stack[v]) - 1 ELSE Len(m_recurse_stack[v])
  BY SMTT(60), <1>1, PopVarsRestores DEF TypeOK, VarsOf
<1>5. BacktraceMatchesCalls' /\ backtrace' \in Nat
  <2>1. Cardinality(CallFrames(stack')) \in Nat
    BY SMTT(60), <1>2, FramesFinite
  <2> QED
    BY SMTT(60), <2>1, <1>1, <1>2, LimitAssumption DEF BacktraceMatchesCalls, TypeOK
<1>6. TypeOK'
  BY SMTT(60), <1>1, <1>2, <1>4, <1>5 DEF TypeOK
<1>7. SavedValuesMatchActivations'
  <2> SUFFICES ASSUME NEW v \in Vars
               PROVE  /\ Scope[v] \in Blocks =>
                           Len(m_recurse_stack'[v]) = IF depth'[Scope[v]] = 0 THEN 0 ELSE depth'[Scope[v]] - 1
                      /\ Scope[v] \in (Functions \cup Builtins) \ Undefined =>
                           Len(m_recurse_stack'[v]) = depth'[Scope[v]]
    BY SMTT(60) DEF SavedValuesMatchActivations
  <2>1. CASE Scope[v] = f
    <3>1. Len(m_recurse_stack[v]) = depth[f]
      BY SMTT(60), <2>1, <1>a DEF SavedValuesMatchActivations
    <3> QED
      BY SMTT(60), <3>1, <2>1, <1>2, <1>3, <1>4
  <2>2. CASE Scope[v] # f
    BY SMTT(60), <2>2, <1>3, <1>4, VarsAssumption DEF SavedValuesMatchActivations
  <2> QED
    BY SMTT(60), <2>1, <2>2
<1>8. RunningMatchesActivations'
  BY SMTT(60), <1>1, <1>3 DEF RunningMatchesActivations, Scopes
<1> QED
  BY SMTT(60), <1>2, <1>5, <1>6, <1>7, <1>8

LEMMA AssignInv ==
  ASSUME IInv, NEW v \in Vars, NEW x \in Values, Assign(v, x)
  PROVE  IInv'
<1> USE DEF IInv
<1>1. /\ UNCHANGED <<stack, m_running, m_recurse_stack, m_functioncall, backtrace, depth>>
      /\ \E w \in Vars : m_value' = [m_value EXCEPT ![w] = x]
  BY DEF Assign
<1>2. m_value' \in [Vars -> Value]
  BY <1>1 DEF TypeOK, Value
<1>3. TypeOK'
  BY <1>1, <1>2 DEF TypeOK
<1>4. ActivationsAreNested' /\ BacktraceMatchesCalls'
  BY <1>1 DEF ActivationsAreNested, BacktraceMatchesCalls
<1>5. SavedValuesMatchActivations' /\ RunningMatchesActivations'
  BY <1>1 DEF SavedValuesMatchActivations, RunningMatchesActivations
<1> QED
  BY <1>3, <1>4, <1>5

LEMMA InitInv == Init => IInv
<1> SUFFICES ASSUME Init PROVE IInv
  OBVIOUS
<1>1. /\ stack = <<>> /\ m_running = [b \in Blocks |-> FALSE] /\ m_value = [v \in Vars |-> Unset]
      /\ m_recurse_stack = [v \in Vars |-> <<>>] /\ backtrace = 0 /\ depth = [s \in Scopes |-> 0]
  BY DEF Init
<1>2. m_functioncall \in [Nodes -> Functions]
  <2>1. ASSUME NEW n \in Nodes PROVE (CHOOSE f \in Callee[n] : TRUE) \in Functions
    <3>1. \E f \in Callee[n] : TRUE
      BY NodesAssumption
    <3>2. (CHOOSE f \in Callee[n] : TRUE) \in Callee[n]
      BY <3>1
    <3> QED
      BY <3>2, NodesAssumption
  <2> QED
    BY <2>1 DEF Init
<1>3. TypeOK
  BY SMTT(60), <1>1, <1>2 DEF TypeOK, Value
<1>4. ActivationsAreNested
  BY SMTT(60), <1>1 DEF ActivationsAreNested, Nested, WellFormed, Ordered, Complete
<1>5. SavedValuesMatchActivations /\ RunningMatchesActivations
  BY SMTT(60), <1>1, VarsAssumption DEF SavedValuesMatchActivations, RunningMatchesActivations, Scopes
<1>6. BacktraceMatchesCalls
  <2>1. CallFrames(stack) = {}
    BY SMTT(60), <1>1 DEF CallFrames
  <2> QED
    BY SMTT(60), <2>1, <1>1, FS_EmptySet, LimitAssumption DEF BacktraceMatchesCalls
<1> QED
  BY SMTT(60), <1>3, <1>4, <1>5, <1>6 DEF IInv

LEMMA NextInv == IInv /\ [Next]_vars => IInv'
<1> SUFFICES ASSUME IInv, [Next]_vars PROVE IInv'
  OBVIOUS
<1>1. ASSUME NEW v \in Vars, NEW x \in Values, Assign(v, x) PROVE IInv'
  BY <1>1, AssignInv
<1>2. ASSUME NEW b \in Blocks, EnterBlock(b) \/ LeaveBlock(b) PROVE IInv'
  BY SMTT(60), <1>2, EnterBlockInv, LeaveBlockInv
<1>3. ASSUME NEW u \in Builtins, EnterBuiltin(u) \/ LeaveBuiltin(u) PROVE IInv'
  BY SMTT(60), <1>3, EnterBuiltinInv, LeaveBuiltinInv
<1>4. ASSUME NEW n \in Nodes, NEW f \in Functions, BeginCall(n, f) PROVE IInv'
  BY <1>4, BeginCallInv
<1>5. CASE ParameterFails
  BY SMTT(60), <1>5, DropArgsInv DEF ParameterFails
<1>6. CASE SkipCall
  BY SMTT(60), <1>6, DropArgsInv DEF SkipCall
<1>7. ASSUME NEW n \in Nodes, NEW a \in [VarsOf(m_functioncall[n]) -> Value], Call(n, a) PROVE IInv'
  BY <1>7, CallInv
<1>8. ASSUME NEW n \in Nodes, CallUndefined(n) PROVE IInv'
  BY <1>8, CallUndefinedInv
<1>9. ASSUME NEW f \in Functions, ReturnCall(f) PROVE IInv'
  BY <1>9, ReturnCallInv
<1>10. CASE UNCHANGED vars
  <2>1. UNCHANGED <<stack, m_running, m_value, m_recurse_stack, m_functioncall, backtrace, depth>>
    BY SMTT(60), <1>10 DEF vars
  <2>2. TypeOK' /\ ActivationsAreNested' /\ BacktraceMatchesCalls'
    BY SMTT(60), <2>1 DEF IInv, TypeOK, ActivationsAreNested, BacktraceMatchesCalls
  <2>3. SavedValuesMatchActivations' /\ RunningMatchesActivations'
    BY <2>1 DEF IInv, SavedValuesMatchActivations, RunningMatchesActivations
  <2> QED
    BY SMTT(60), <2>2, <2>3 DEF IInv
<1> QED
  BY SMTT(60), <1>1, <1>2, <1>3, <1>4, <1>5, <1>6, <1>7, <1>8, <1>9, <1>10 DEF Next

\* Blocks, functions and builtins are left in the opposite order of their entry,
\* m_running and m_recurse_stack are in step with the activations, and the call
\* frames with the direct calls, in every run of every YCP program.
THEOREM Invariance == Spec => []IInv
  BY InitInv, NextInv, PTL DEF Spec

\* Every push of a variable is matched by a pop: SavedValuesMatchActivations.
THEOREM SavedValues == Spec => []SavedValuesMatchActivations
<1>1. IInv => SavedValuesMatchActivations
  BY DEF IInv
<1> QED
  BY <1>1, Invariance, PTL

\* The size of m_backtrace is the number of direct calls in progress and at most
\* the recursion limit, for every limit: BacktraceMatchesCalls.
THEOREM Backtrace == Spec => []BacktraceMatchesCalls
<1>1. IInv => BacktraceMatchesCalls
  BY DEF IInv
<1> QED
  BY <1>1, Invariance, PTL

\* m_running is set exactly for the blocks that are being evaluated.
THEOREM Running == Spec => []RunningMatchesActivations
<1>1. IInv => RunningMatchesActivations
  BY DEF IInv
<1> QED
  BY <1>1, Invariance, PTL
=============================================================================
