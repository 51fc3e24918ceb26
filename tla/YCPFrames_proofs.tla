-------------------------- MODULE YCPFrames_proofs --------------------------
(***************************************************************************)
(* YCPCalls implements FrameStack: although a variable has one m_value for *)
(* the whole recursion, a YCP program sees one instance per activation.    *)
(***************************************************************************)
EXTENDS YCPCalls_proofs

-----------------------------------------------------------------------------
(* Sequences: push, pop and the value that is current.                     *)

LEMMA FrontOfAppend ==
  ASSUME NEW S, NEW s \in Seq(S), NEW x \in S
  PROVE  SubSeq(Append(s, x), 1, Len(Append(s, x)) - 1) = s
  OBVIOUS

LEMMA FrontAndLast ==
  ASSUME NEW S, NEW s \in Seq(S), s # <<>>
  PROVE  Append(SubSeq(s, 1, Len(s) - 1), s[Len(s)]) = s
  OBVIOUS

LEMMA TailOfAppend ==
  ASSUME NEW S, NEW s \in Seq(S), NEW x \in S, s # <<>>
  PROVE  Tail(Append(s, x)) = Append(Tail(s), x)
  OBVIOUS

LEMMA TailOfFront ==
  ASSUME NEW S, NEW s \in Seq(S), Len(s) > 1
  PROVE  Append(Tail(SubSeq(s, 1, Len(s) - 1)), s[Len(s)]) = Tail(s)
<1> DEFINE front == SubSeq(s, 1, Len(s) - 1)
           last == s[Len(s)]
<1>1. s # <<>> /\ Len(s) \in Nat
  OBVIOUS
<1>2. front \in Seq(S) /\ Len(front) = Len(s) - 1 /\ last \in S
  BY <1>1, WithoutNewest
<1>3. Append(front, last) = s
  BY <1>1, FrontAndLast
<1> HIDE DEF front, last
<1>4. front # <<>>
  BY <1>1, <1>2
<1>5. Tail(s) = Append(Tail(front), last)
  BY <1>2, <1>3, <1>4, TailOfAppend
<1> QED
  BY SMTT(60), <1>5 DEF front, last

-----------------------------------------------------------------------------
(* The instances of a variable v, by the kind of its scope.                *)

CallLike == (Functions \cup Builtins) \ Undefined

LEMMA ScopeKinds ==
  ASSUME NEW v \in Vars
  PROVE  /\ Scope[v] \in Blocks \/ Scope[v] \in CallLike \/ Scope[v] \in Undefined
         /\ ~(Scope[v] \in Blocks /\ Scope[v] \in CallLike)
         /\ ~(Scope[v] \in Blocks /\ Scope[v] \in Undefined)
         /\ ~(Scope[v] \in CallLike /\ Scope[v] \in Undefined)
  BY ScopesAssumption, VarsAssumption DEF CallLike, Scopes

LEMMA InstancesOf ==
  ASSUME NEW v \in Vars
  PROVE  /\ Scope[v] \in Blocks =>
              Instances(v) = IF m_running[Scope[v]] THEN Append(m_recurse_stack[v], m_value[v]) ELSE <<>>
         /\ Scope[v] \in CallLike =>
              Instances(v) = IF m_recurse_stack[v] = <<>> THEN <<>>
                             ELSE Append(Tail(m_recurse_stack[v]), m_value[v])
         /\ Scope[v] \in Undefined => Instances(v) = <<>>
<1>1. Scope[v] \in Blocks =>
        Instances(v) = IF m_running[Scope[v]] THEN Append(m_recurse_stack[v], m_value[v]) ELSE <<>>
  BY ScopeKinds DEF Instances, CallLike
<1>2. Scope[v] \in CallLike =>
        Instances(v) = IF m_recurse_stack[v] = <<>> THEN <<>>
                       ELSE Append(Tail(m_recurse_stack[v]), m_value[v])
  BY ScopeKinds DEF Instances, CallLike
<1>3. Scope[v] \in Undefined => Instances(v) = <<>>
  BY ScopeKinds DEF Instances, CallLike
<1> QED
  BY <1>1, <1>2, <1>3

LEMMA NextInstancesOf ==
  ASSUME NEW v \in Vars
  PROVE  /\ Scope[v] \in Blocks =>
              Instances(v)' = IF m_running'[Scope[v]] THEN Append(m_recurse_stack'[v], m_value'[v]) ELSE <<>>
         /\ Scope[v] \in CallLike =>
              Instances(v)' = IF m_recurse_stack'[v] = <<>> THEN <<>>
                              ELSE Append(Tail(m_recurse_stack'[v]), m_value'[v])
         /\ Scope[v] \in Undefined => Instances(v)' = <<>>
<1>1. Scope[v] \in Blocks =>
        Instances(v)' = IF m_running'[Scope[v]] THEN Append(m_recurse_stack'[v], m_value'[v]) ELSE <<>>
  BY ScopeKinds DEF Instances, CallLike
<1>2. Scope[v] \in CallLike =>
        Instances(v)' = IF m_recurse_stack'[v] = <<>> THEN <<>>
                        ELSE Append(Tail(m_recurse_stack'[v]), m_value'[v])
  BY ScopeKinds DEF Instances, CallLike
<1>3. Scope[v] \in Undefined => Instances(v)' = <<>>
  BY ScopeKinds DEF Instances, CallLike
<1> QED
  BY <1>1, <1>2, <1>3

\* A variable none of whose state changes has the same instances.
LEMMA SameInstances ==
  ASSUME NEW v \in Vars, m_recurse_stack'[v] = m_recurse_stack[v], m_value'[v] = m_value[v],
         Scope[v] \in Blocks => m_running'[Scope[v]] = m_running[Scope[v]]
  PROVE  Instances(v)' = Instances(v)
  BY ScopeKinds, InstancesOf, NextInstancesOf, SMTT(60)

-----------------------------------------------------------------------------
(* Every step of YCPCalls is a step of FrameStack or leaves env alone.     *)

LEMMA InstancesType ==
  ASSUME IInv
  PROVE  \A v \in Vars : Instances(v) \in Seq(Value)
<1> SUFFICES ASSUME NEW v \in Vars PROVE Instances(v) \in Seq(Value)
  OBVIOUS
<1>1. m_value[v] \in Value /\ m_recurse_stack[v] \in Seq(Value)
  BY DEF IInv, TypeOK
<1>2. m_recurse_stack[v] # <<>> => Tail(m_recurse_stack[v]) \in Seq(Value)
  BY <1>1
<1>3. /\ <<>> \in Seq(Value)
      /\ Append(m_recurse_stack[v], m_value[v]) \in Seq(Value)
      /\ m_recurse_stack[v] # <<>> => Append(Tail(m_recurse_stack[v]), m_value[v]) \in Seq(Value)
  BY SMTT(60), <1>1, <1>2, EmptySeq, AppendProperties
<1> QED
  BY <1>3, ScopeKinds, InstancesOf, Zenon

LEMMA NextInstancesType ==
  ASSUME IInv'
  PROVE  frames' \in [Vars -> Seq(Value)]
<1> SUFFICES ASSUME NEW v \in Vars PROVE Instances(v)' \in Seq(Value)
  BY DEF frames
<1>1. m_value'[v] \in Value /\ m_recurse_stack'[v] \in Seq(Value)
  BY DEF IInv, TypeOK
<1>2. m_recurse_stack'[v] # <<>> => Tail(m_recurse_stack'[v]) \in Seq(Value)
  BY <1>1
<1>3. /\ <<>> \in Seq(Value)
      /\ Append(m_recurse_stack'[v], m_value'[v]) \in Seq(Value)
      /\ m_recurse_stack'[v] # <<>> => Append(Tail(m_recurse_stack'[v]), m_value'[v]) \in Seq(Value)
  BY SMTT(60), <1>1, <1>2, EmptySeq, AppendProperties
<1> QED
  BY <1>3, ScopeKinds, NextInstancesOf, Zenon

LEMMA EnterScope ==
  ASSUME IInv, IInv', NEW s \in Scopes, NEW x \in [VarsOf(s) -> Value],
         \A v \in Vars : Instances(v)' = IF Scope[v] = s THEN Append(Instances(v), x[v]) ELSE Instances(v)
  PROVE  Frames!Next
<1>1. ASSUME NEW v \in Vars, Scope[v] = s
      PROVE  frames'[v] # <<>> /\ SubSeq(frames'[v], 1, Len(frames'[v]) - 1) = frames[v]
  <2>1. frames'[v] = Append(Instances(v), x[v]) /\ frames[v] = Instances(v)
    BY <1>1 DEF frames
  <2>2. Instances(v) \in Seq(Value) /\ x[v] \in Value
    BY <1>1, InstancesType DEF VarsOf
  <2> QED
    BY SMTT(60), <2>1, <2>2, FrontOfAppend, AppendProperties
<1>2. \A v \in Vars : Scope[v] # s => frames'[v] = frames[v]
  BY DEF frames
<1>3. Frames!Enter(s)
  BY <1>1, <1>2, NextInstancesType DEF Frames!Enter, Frames!Front
<1> QED
  BY SMTT(60), <1>3 DEF Frames!Next

LEMMA LeaveScope ==
  ASSUME IInv, IInv', NEW s \in Scopes,
         \A v \in VarsOf(s) : Instances(v) # <<>>,
         \A v \in Vars : Instances(v)' = IF Scope[v] = s
                                         THEN SubSeq(Instances(v), 1, Len(Instances(v)) - 1)
                                         ELSE Instances(v)
  PROVE  Frames!Next
<1>1. \A v \in Vars : /\ Scope[v] = s => frames'[v] = SubSeq(frames[v], 1, Len(frames[v]) - 1)
                      /\ Scope[v] # s => frames'[v] = frames[v]
  BY DEF frames
<1>2. \A v \in Vars : Scope[v] = s => frames[v] # <<>>
  BY DEF frames, VarsOf
<1>3. Frames!Leave(s)
  BY SMTT(60), <1>1, <1>2, NextInstancesType DEF Frames!Leave, Frames!Front
<1> QED
  BY <1>3 DEF Frames!Next

LEMMA EnterBlockFrames ==
  ASSUME IInv, IInv', NEW b \in Blocks, EnterBlock(b)
  PROVE  Frames!Next
<1> DEFINE x == [v \in VarsOf(b) |-> m_value[v]]
<1>1. /\ m_value \in [Vars -> Value] /\ m_recurse_stack \in [Vars -> Seq(Value)]
      /\ m_running \in [Blocks -> BOOLEAN] /\ depth \in [Scopes -> Nat]
  BY DEF IInv, TypeOK
<1>2. /\ m_recurse_stack' = IF m_running[b] THEN PushVars(VarsOf(b)) ELSE m_recurse_stack
      /\ m_running' = [m_running EXCEPT ![b] = TRUE] /\ m_value' = m_value
  BY DEF EnterBlock
<1>3. x \in [VarsOf(b) -> Value] /\ b \in Scopes
  BY <1>1 DEF VarsOf, Scopes
<1>4. ASSUME NEW v \in Vars, Scope[v] = b PROVE Instances(v)' = Append(Instances(v), x[v])
  <2>1. Instances(v)' = Append(m_recurse_stack'[v], m_value[v]) /\ x[v] = m_value[v]
    BY <1>1, <1>2, <1>4, NextInstancesOf DEF VarsOf
  <2>2. CASE m_running[b]
    <3>1. m_recurse_stack'[v] = Append(m_recurse_stack[v], m_value[v])
      BY <2>2, <1>2, <1>4 DEF PushVars, VarsOf
    <3> QED
      BY <2>1, <2>2, <3>1, <1>4, InstancesOf
  <2>3. CASE ~m_running[b]
    <3>1. Len(m_recurse_stack[v]) = 0
      BY SMTT(60), <2>3, <1>1, <1>3, <1>4 DEF IInv, RunningMatchesActivations, SavedValuesMatchActivations
    <3>2. m_recurse_stack'[v] = <<>>
      BY SMTT(60), <3>1, <2>3, <1>1, <1>2
    <3> QED
      BY SMTT(60), <2>1, <2>3, <3>2, <1>4, InstancesOf
  <2> QED
    BY <2>2, <2>3
<1>5. ASSUME NEW v \in Vars, Scope[v] # b PROVE Instances(v)' = Instances(v)
  <2>1. m_recurse_stack'[v] = m_recurse_stack[v]
    BY <1>2, <1>5 DEF PushVars, VarsOf
  <2> QED
    BY <2>1, <1>1, <1>2, <1>5, SameInstances
<1> QED
  BY <1>3, <1>4, <1>5, EnterScope

LEMMA LeaveBlockFrames ==
  ASSUME IInv, IInv', NEW b \in Blocks, LeaveBlock(b)
  PROVE  Frames!Next
<1>1. /\ m_value \in [Vars -> Value] /\ m_recurse_stack \in [Vars -> Seq(Value)]
      /\ m_running \in [Blocks -> BOOLEAN] /\ depth \in [Scopes -> Nat] /\ b \in Scopes
  BY DEF IInv, TypeOK, Scopes
<1>2. /\ stack # <<>> /\ Top.kind = "block" /\ Top.id = b /\ stack' = Below
      /\ depth' = [depth EXCEPT ![b] = @ - 1] /\ m_running' = [m_running EXCEPT ![b] = Top.old]
  BY DEF LeaveBlock, IsTop
<1>3. depth[b] > 0 /\ m_running[b] /\ Top.old \in BOOLEAN /\ (Top.old <=> depth[b] > 1)
  <2>1. depth[b] > 0 /\ Top \in Activation
    BY <1>2, LeaveNests
  <2>2. m_running'[b] <=> depth'[b] > 0
    BY DEF IInv, RunningMatchesActivations
  <2>3. Top.old \in BOOLEAN
    BY <2>1 DEF Activation
  <2> QED
    BY SMTT(60), <2>1, <2>2, <2>3, <1>1, <1>2 DEF IInv, RunningMatchesActivations
<1>4. ASSUME NEW v \in Vars, Scope[v] = b
      PROVE  Instances(v) # <<>> /\ Instances(v)' = SubSeq(Instances(v), 1, Len(Instances(v)) - 1)
  <2> DEFINE rs == m_recurse_stack[v]
  <2>1. Instances(v) = Append(rs, m_value[v]) /\ rs \in Seq(Value) /\ m_value[v] \in Value
    BY SMTT(60), <1>1, <1>3, <1>4, InstancesOf
  <2>2. Instances(v) # <<>> /\ SubSeq(Instances(v), 1, Len(Instances(v)) - 1) = rs
    BY SMTT(60), <2>1, FrontOfAppend
  <2>3. Len(rs) = depth[b] - 1 /\ depth[b] \in Nat
    BY SMTT(60), <1>1, <1>3, <1>4 DEF IInv, SavedValuesMatchActivations
  <2>4. CASE Top.old
    <3>1. PopVars(VarsOf(b)) /\ rs # <<>>
      BY SMTT(60), <2>1, <2>3, <2>4, <1>3 DEF LeaveBlock
    <3>2. m_value'[v] = rs[Len(rs)] /\ m_recurse_stack'[v] = SubSeq(rs, 1, Len(rs) - 1)
      BY SMTT(60), <3>1, <1>4 DEF PopVars, VarsOf
    <3>3. Instances(v)' = Append(SubSeq(rs, 1, Len(rs) - 1), rs[Len(rs)])
      BY <3>2, <2>4, <1>1, <1>2, <1>4, NextInstancesOf
    <3> QED
      BY SMTT(60), <3>1, <3>3, <2>1, <2>2, FrontAndLast
  <2>5. CASE ~Top.old
    <3>1. Instances(v)' = <<>>
      BY <2>5, <1>1, <1>2, <1>4, NextInstancesOf
    <3>2. rs = <<>>
      BY SMTT(60), <2>1, <2>3, <2>5, <1>3
    <3> QED
      BY ZenonT(60), <3>1, <3>2, <2>2
  <2> QED
    BY SMTT(60), <2>4, <2>5, <1>3
<1>5. ASSUME NEW v \in Vars, Scope[v] # b PROVE Instances(v)' = Instances(v)
  <2>1. m_recurse_stack'[v] = m_recurse_stack[v] /\ m_value'[v] = m_value[v]
    BY <1>5 DEF LeaveBlock, PopVars, VarsOf
  <2> QED
    BY SMTT(60), <2>1, <1>1, <1>2, <1>5, SameInstances
<1> QED
  BY <1>1, <1>4, <1>5, LeaveScope DEF VarsOf

\* A function is called or a builtin entered: the parameters get the values x.
LEMMA EnterCallLike ==
  ASSUME IInv, IInv', NEW s \in CallLike, NEW x \in [VarsOf(s) -> Value],
         m_recurse_stack' = PushVars(VarsOf(s)), m_running' = m_running,
         \A v \in Vars : m_value'[v] = IF v \in VarsOf(s) THEN x[v] ELSE m_value[v]
  PROVE  Frames!Next
<1>1. /\ m_value \in [Vars -> Value] /\ m_recurse_stack \in [Vars -> Seq(Value)]
      /\ s \in Scopes
  BY DEF IInv, TypeOK, CallLike, Scopes
<1>2. ASSUME NEW v \in Vars, Scope[v] = s PROVE Instances(v)' = Append(Instances(v), x[v])
  <2> DEFINE rs == m_recurse_stack[v]
  <2>1. m_recurse_stack'[v] = Append(rs, m_value[v]) /\ m_value'[v] = x[v]
    BY <1>2 DEF PushVars, VarsOf
  <2>2. Append(rs, m_value[v]) # <<>> /\ rs \in Seq(Value) /\ m_value[v] \in Value
    BY SMTT(60), <1>1, AppendProperties
  <2>3. Instances(v)' = Append(Tail(Append(rs, m_value[v])), x[v])
    BY <2>1, <2>2, <1>2, NextInstancesOf
  <2>4. CASE rs = <<>>
    <3>1. Tail(Append(rs, m_value[v])) = <<>>
      BY SMTT(60), <2>2, <2>4
    <3> QED
      BY <2>3, <2>4, <3>1, <1>2, InstancesOf
  <2>5. CASE rs # <<>>
    <3>1. Tail(Append(rs, m_value[v])) = Append(Tail(rs), m_value[v])
      BY <2>2, <2>5, TailOfAppend
    <3> QED
      BY <2>3, <2>5, <3>1, <1>2, InstancesOf
  <2> QED
    BY SMTT(60), <2>4, <2>5
<1>3. ASSUME NEW v \in Vars, Scope[v] # s PROVE Instances(v)' = Instances(v)
  <2>1. m_recurse_stack'[v] = m_recurse_stack[v] /\ m_value'[v] = m_value[v]
    BY <1>3 DEF PushVars, VarsOf
  <2> QED
    BY <2>1, SameInstances
<1> QED
  BY SMTT(60), <1>1, <1>2, <1>3, EnterScope

\* A function returns or a builtin is left.
LEMMA LeaveCallLike ==
  ASSUME IInv, IInv', NEW s \in CallLike, PopVars(VarsOf(s)), m_running' = m_running, depth[s] > 0
  PROVE  Frames!Next
<1>1. /\ m_value \in [Vars -> Value] /\ m_recurse_stack \in [Vars -> Seq(Value)]
      /\ s \in Scopes /\ depth[s] \in Nat
  BY DEF IInv, TypeOK, CallLike, Scopes
<1>2. ASSUME NEW v \in Vars, Scope[v] = s
      PROVE  Instances(v) # <<>> /\ Instances(v)' = SubSeq(Instances(v), 1, Len(Instances(v)) - 1)
  <2> DEFINE rs == m_recurse_stack[v]
             front == SubSeq(rs, 1, Len(rs) - 1)
  <2>1. rs \in Seq(Value) /\ m_value[v] \in Value /\ Len(rs) = depth[s]
    BY SMTT(60), <1>1, <1>2 DEF IInv, SavedValuesMatchActivations, CallLike
  <2>2. rs # <<>> /\ Tail(rs) \in Seq(Value)
    BY SMTT(60), <2>1, <1>1
  <2>3. Instances(v) = Append(Tail(rs), m_value[v])
    BY SMTT(60), <2>2, <1>2, InstancesOf
  <2>4. Instances(v) # <<>> /\ SubSeq(Instances(v), 1, Len(Instances(v)) - 1) = Tail(rs)
    BY SMTT(60), <2>1, <2>2, <2>3, FrontOfAppend
  <2>5. m_recurse_stack'[v] = front /\ m_value'[v] = rs[Len(rs)]
    BY SMTT(60), <2>2, <1>2 DEF PopVars, VarsOf
  <2>6. front \in Seq(Value) /\ Len(front) = Len(rs) - 1 /\ Len(rs) \in Nat \ {0}
    BY SMTT(60), <2>1, <2>2, WithoutNewest
  <2>7. CASE Len(rs) > 1
    <3> HIDE DEF front
    <3>1. front # <<>>
      BY <2>6, <2>7
    <3>2. Instances(v)' = Append(Tail(front), rs[Len(rs)])
      BY <3>1, <2>5, <1>2, NextInstancesOf
    <3> QED
      BY <3>2, <2>1, <2>4, <2>7, TailOfFront DEF front
  <2>8. CASE Len(rs) = 1
    <3>1. Len(front) = 0 /\ Len(Tail(rs)) = 0
      BY <2>1, <2>2, <2>6, <2>8, HeadTailProperties
    <3> HIDE DEF front
    <3>2. front = <<>> /\ Tail(rs) = <<>>
      BY <3>1, <2>2, <2>6, EmptySeq
    <3> QED
      BY <3>2, <2>4, <2>5, <1>2, NextInstancesOf
  <2>9. Len(rs) > 1 \/ Len(rs) = 1
    BY <2>1, <1>1
  <2> QED
    BY SMTT(60), <2>4, <2>7, <2>8, <2>9
<1>3. ASSUME NEW v \in Vars, Scope[v] # s PROVE Instances(v)' = Instances(v)
  <2>1. m_recurse_stack'[v] = m_recurse_stack[v] /\ m_value'[v] = m_value[v]
    BY SMTT(60), <1>3 DEF PopVars, VarsOf
  <2> QED
    BY <2>1, SameInstances
<1> QED
  BY SMTT(60), <1>1, <1>2, <1>3, LeaveScope DEF VarsOf

\* The variable assigned to has a newest instance, or none at all.
LEMMA AssignFrames ==
  ASSUME IInv, IInv', NEW v \in Vars, NEW x \in Values, Assign(v, x)
  PROVE  Frames!Next \/ UNCHANGED frames
<1>1. PICK w \in Vars : m_value' = [m_value EXCEPT ![w] = x]
  BY DEF Assign
<1>2. /\ m_value \in [Vars -> Value] /\ m_recurse_stack \in [Vars -> Seq(Value)] /\ x \in Value
      /\ m_recurse_stack' = m_recurse_stack /\ m_running' = m_running
  BY DEF IInv, TypeOK, Assign, Value
<1>3. ASSUME NEW u \in Vars, u # w PROVE Instances(u)' = Instances(u)
  BY <1>1, <1>2, <1>3, SameInstances
<1>4. CASE Instances(w) = <<>>
  <2>1. Instances(w)' = <<>>
    <3>1. CASE Scope[w] \in Blocks
      <4>1. ~m_running[Scope[w]]
        BY SMTT(60), <3>1, <1>2, <1>4, InstancesOf
      <4> QED
        BY SMTT(60), <3>1, <4>1, <1>2, NextInstancesOf
    <3>2. CASE Scope[w] \in CallLike
      <4>1. m_recurse_stack[w] = <<>>
        <5>1. SUFFICES ASSUME m_recurse_stack[w] # <<>> PROVE FALSE
          OBVIOUS
        <5>2. Tail(m_recurse_stack[w]) \in Seq(Value)
          BY SMTT(60), <5>1, <1>2
        <5> QED
          BY SMTT(60), <5>1, <5>2, <3>2, <1>2, <1>4, InstancesOf
      <4> QED
        BY SMTT(60), <3>2, <4>1, <1>2, NextInstancesOf
    <3>3. CASE Scope[w] \in Undefined
      BY SMTT(60), <3>3, NextInstancesOf
    <3> QED
      BY SMTT(60), <3>1, <3>2, <3>3, ScopeKinds
  <2>2. UNCHANGED frames
    BY SMTT(60), <2>1, <1>3, <1>4 DEF frames
  <2> QED
    BY <2>2
<1>5. CASE Instances(w) # <<>>
  <2>1. PICK r \in Seq(Value) : Instances(w) = Append(r, m_value[w]) /\ Instances(w)' = Append(r, x)
    <3>1. m_value'[w] = x
      BY SMTT(60), <1>1, <1>2
    <3>2. CASE Scope[w] \in Blocks
      <4>1. m_running[Scope[w]]
        BY SMTT(60), <3>2, <1>5, InstancesOf
      <4> QED
        BY SMTT(60), <3>1, <3>2, <4>1, <1>2, InstancesOf, NextInstancesOf
    <3>3. CASE Scope[w] \in CallLike
      <4>1. m_recurse_stack[w] # <<>>
        BY <3>3, <1>5, InstancesOf
      <4>2. Tail(m_recurse_stack[w]) \in Seq(Value)
        BY <4>1, <1>2
      <4> QED
        BY <3>1, <3>3, <4>1, <4>2, <1>2, InstancesOf, NextInstancesOf
    <3> QED
      BY SMTT(60), <3>2, <3>3, <1>5, ScopeKinds, InstancesOf
  <2>2. /\ Instances(w)' # <<>> /\ SubSeq(Instances(w)', 1, Len(Instances(w)') - 1) = r
        /\ SubSeq(Instances(w), 1, Len(Instances(w)) - 1) = r
    <3>1. m_value[w] \in Value /\ x \in Value /\ Append(r, x) # <<>>
      BY SMTT(60), <1>2, <2>1, AppendProperties
    <3> QED
      BY SMTT(60), <3>1, <2>1, FrontOfAppend
  <2>3. /\ frames[w] = Instances(w) /\ frames'[w] = Instances(w)'
        /\ \A u \in Vars \ {w} : frames'[u] = frames[u]
    BY SMTT(60), <1>3 DEF frames
  <2>4. Frames!Set(w)
    BY SMTT(60), <2>2, <2>3, <1>5, NextInstancesType DEF Frames!Set, Frames!Front
  <2> QED
    BY SMTT(60), <2>4 DEF Frames!Next
<1> QED
  BY SMTT(60), <1>4, <1>5

LEMMA InitFrames == Init => Frames!Init
<1> SUFFICES ASSUME Init PROVE Frames!Init
  OBVIOUS
<1>1. ASSUME NEW v \in Vars PROVE Instances(v) = <<>>
  BY SMTT(60), ScopeKinds, InstancesOf DEF Init
<1> QED
  BY <1>1 DEF frames, Frames!Init

LEMMA NextFrames == IInv /\ IInv' /\ [Next]_vars => [Frames!Next]_frames
<1> SUFFICES ASSUME IInv, IInv', [Next]_vars PROVE Frames!Next \/ UNCHANGED frames
  OBVIOUS
<1>same. ASSUME UNCHANGED <<m_running, m_value, m_recurse_stack>> PROVE UNCHANGED frames
  BY <1>same DEF frames, Instances
<1>1. ASSUME NEW v \in Vars, NEW x \in Values, Assign(v, x) PROVE Frames!Next \/ UNCHANGED frames
  BY SMTT(60), <1>1, AssignFrames
<1>2. ASSUME NEW b \in Blocks, EnterBlock(b) \/ LeaveBlock(b) PROVE Frames!Next
  BY SMTT(60), <1>2, EnterBlockFrames, LeaveBlockFrames
<1>3. ASSUME NEW u \in Builtins, EnterBuiltin(u) PROVE Frames!Next
  <2> DEFINE x == [v \in VarsOf(u) |-> m_value[v]]
  <2>1. u \in CallLike
    BY ScopesAssumption DEF CallLike
  <2>2. x \in [VarsOf(u) -> Value]
    BY DEF IInv, TypeOK, VarsOf
  <2>3. \A v \in Vars : m_value'[v] = IF v \in VarsOf(u) THEN x[v] ELSE m_value[v]
    BY <1>3 DEF EnterBuiltin
  <2>4. m_recurse_stack' = PushVars(VarsOf(u)) /\ m_running' = m_running
    BY SMTT(60), <1>3 DEF EnterBuiltin
  <2> QED
    BY <2>1, <2>2, <2>3, <2>4, EnterCallLike
<1>4. ASSUME NEW u \in Builtins, LeaveBuiltin(u) PROVE Frames!Next
  <2>1. u \in CallLike
    BY ScopesAssumption DEF CallLike
  <2>2. depth[u] > 0
    BY SMTT(60), <1>4, LeaveNests DEF LeaveBuiltin, IsTop
  <2>3. PopVars(VarsOf(u)) /\ m_running' = m_running
    BY SMTT(60), <1>4 DEF LeaveBuiltin
  <2> QED
    BY SMTT(60), <2>1, <2>2, <2>3, LeaveCallLike
<1>5. ASSUME NEW n \in Nodes, NEW f \in Functions, BeginCall(n, f) PROVE UNCHANGED frames
  BY SMTT(60), <1>5, <1>same DEF BeginCall
<1>6. CASE ParameterFails \/ SkipCall
  BY SMTT(60), <1>6, <1>same DEF ParameterFails, SkipCall
<1>7. ASSUME NEW n \in Nodes, NEW a \in [VarsOf(m_functioncall[n]) -> Value], Call(n, a)
      PROVE  Frames!Next
  <2> DEFINE f == m_functioncall[n]
  <2>1. f \in CallLike
    BY SMTT(60), <1>7 DEF Call, CallLike, IInv, TypeOK
  <2>2. /\ m_recurse_stack' = PushVars(VarsOf(f)) /\ m_running' = m_running
        /\ \A v \in Vars : m_value'[v] = IF v \in VarsOf(f) THEN a[v] ELSE m_value[v]
    BY SMTT(60), <1>7 DEF Call
  <2> QED
    BY SMTT(60), <2>1, <2>2, EnterCallLike
<1>8. ASSUME NEW n \in Nodes, CallUndefined(n) PROVE UNCHANGED frames
  <2>1. /\ m_functioncall[n] \in Undefined /\ m_running' = m_running /\ m_value' = m_value
        /\ m_recurse_stack' = PushVars(VarsOf(m_functioncall[n]))
    BY <1>8 DEF CallUndefined
  <2>2. ASSUME NEW v \in Vars PROVE Instances(v)' = Instances(v)
    <3>1. CASE Scope[v] \in Undefined
      BY SMTT(60), <3>1, InstancesOf, NextInstancesOf
    <3>2. CASE Scope[v] \notin Undefined
      <4>1. m_recurse_stack'[v] = m_recurse_stack[v]
        BY SMTT(60), <3>2, <2>1 DEF PushVars, VarsOf
      <4> QED
        BY SMTT(60), <4>1, <2>1, SameInstances
    <3> QED
      BY SMTT(60), <3>1, <3>2
  <2> QED
    BY SMTT(60), <2>2 DEF frames
<1>9. ASSUME NEW f \in Functions, ReturnCall(f) PROVE Frames!Next
  <2>1. stack # <<>> /\ Top.kind = "ret" /\ Top.id = f /\ stack \in Seq(Activation)
    BY <1>9 DEF ReturnCall, IsTop, IInv, TypeOK
  <2>2. f \in CallLike
    <3>1. Len(stack) \in 1..Len(stack)
      BY SMTT(60), <2>1
    <3>2. f \notin Undefined
      BY SMTT(60), <3>1, <2>1 DEF IInv, ActivationsAreNested, Nested, WellFormed, Top
    <3> QED
      BY <3>2 DEF CallLike
  <2>3. depth[f] > 0
    BY SMTT(60), <1>9, <2>1, LeaveNests DEF ReturnCall
  <2>4. PopVars(VarsOf(f)) /\ m_running' = m_running
    BY <1>9 DEF ReturnCall
  <2> QED
    BY <2>2, <2>3, <2>4, LeaveCallLike
<1>10. CASE UNCHANGED vars
  BY <1>10, <1>same DEF vars
<1> QED
  BY SMTT(60), <1>1, <1>2, <1>3, <1>4, <1>5, <1>6, <1>7, <1>8, <1>9, <1>10 DEF Next

\* Recursion works: for every program, what it reads and writes are the instances
\* of FrameStack, one per activation, although a SymbolEntry has one m_value and
\* blocks save it only when they are already running.
THEOREM Refinement == Spec => ImplementsFrames
<1>1. Spec => []IInv
  BY Invariance
<1> QED
  BY <1>1, InitFrames, NextFrames, PTL DEF Spec, ImplementsFrames, Frames!Spec
=============================================================================
