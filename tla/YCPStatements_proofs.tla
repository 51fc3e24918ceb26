------------------------ MODULE YCPStatements_proofs ------------------------
(***************************************************************************)
(* For every program, jumps reach their destination.                       *)
(***************************************************************************)
EXTENDS YCPStatements, SequenceTheorems, WellFoundedInduction, TLAPS

-----------------------------------------------------------------------------
(* The newest evaluation of some kind.                                     *)

LEMMA MaxExists ==
  ASSUME NEW n \in Nat, NEW S \in SUBSET (1..n), S # {}
  PROVE  \E m \in S : \A j \in S : j <= m
<1> DEFINE T == {n - i : i \in S}
<1>1. T \subseteq Nat /\ T # {}
  <2>1. \A i \in S : n - i \in Nat
    OBVIOUS
  <2>2. PICK i \in S : TRUE
    OBVIOUS
  <2>3. n - i \in T
    BY <2>2
  <2> QED
    BY <2>1, <2>3
<1>2. PICK x \in T : \A y \in T : ~(<<y, x>> \in OpToRel(<, Nat))
  BY <1>1, NatLessThanWellFounded, WFMin
<1>3. \A y \in T : ~(y < x)
  BY <1>1, <1>2 DEF OpToRel
<1>4. PICK m \in S : x = n - m
  OBVIOUS
<1>5. ASSUME NEW j \in S PROVE j <= m
  <2>1. n - j \in T
    OBVIOUS
  <2>2. ~(n - j < n - m)
    BY <2>1, <1>3, <1>4
  <2> QED
    BY <2>2
<1> QED
  BY <1>5

LEMMA InnermostType ==
  ASSUME NEW st \in Seq(Activation), NEW ks
  PROVE  /\ Innermost(st, ks) \in 0..Len(st)
         /\ Innermost(st, ks) # 0 => Kind[st[Innermost(st, ks)].node] \in ks
<1> DEFINE found == {i \in 1..Len(st) : Kind[st[i].node] \in ks}
<1>1. CASE found = {}
  BY <1>1 DEF Innermost, Newest
<1>2. CASE found # {}
  <2>1. Len(st) \in Nat /\ found \subseteq 1..Len(st)
    OBVIOUS
  <2>2. \E m \in found : \A j \in found : j <= m
    BY <2>1, <1>2, MaxExists
  <2>3. Innermost(st, ks) \in found
    BY <2>2, <1>2 DEF Innermost, Newest
  <2> QED
    BY <2>1, <2>3
<1> QED
  BY <1>1, <1>2

LEMMA InnermostIsTop ==
  ASSUME NEW st \in Seq(Activation), NEW ks, st # <<>>, Kind[st[Len(st)].node] \in ks
  PROVE  Innermost(st, ks) = Len(st)
<1> DEFINE found == {i \in 1..Len(st) : Kind[st[i].node] \in ks}
<1>1. Len(st) \in found /\ \A j \in found : j <= Len(st)
  OBVIOUS
<1>2. \A i \in found : (\A j \in found : j <= i) => i = Len(st)
  BY <1>1
<1> QED
  BY <1>1, <1>2 DEF Innermost, Newest

LEMMA FrontProperties ==
  ASSUME NEW st \in Seq(Activation), st # <<>>
  PROVE  /\ Front(st) \in Seq(Activation) /\ Len(st) \in Nat \ {0} /\ Len(Front(st)) = Len(st) - 1
         /\ \A i \in 1..Len(Front(st)) : i \in 1..Len(st) /\ Front(st)[i] = st[i]
         /\ st[Len(st)] \in Activation
<1>1. Len(st) \in Nat \ {0} /\ \A i \in 1..Len(st) : st[i] \in Activation
  OBVIOUS
<1>2. \A i \in 1..(Len(st) - 1) : st[i] \in Activation
  BY <1>1
<1>3. /\ Front(st) \in Seq(Activation)
      /\ Len(Front(st)) = IF 1 <= Len(st) - 1 THEN Len(st) - 1 - 1 + 1 ELSE 0
      /\ \A i \in 1..(Len(st) - 1 - 1 + 1) : Front(st)[i] = st[1 + i - 1]
  BY <1>1, <1>2, SubSeqProperties DEF Front
<1>4. Len(Front(st)) = Len(st) - 1
  <2>1. \A n \in Nat \ {0} : (IF 1 <= n - 1 THEN n - 1 - 1 + 1 ELSE 0) = n - 1
    OBVIOUS
  <2> QED
    BY <2>1, <1>1, <1>3
<1>5. \A i \in 1..Len(Front(st)) : i \in 1..Len(st) /\ Front(st)[i] = st[i]
  BY <1>1, <1>3, <1>4
<1> QED
  BY <1>1, <1>3, <1>4, <1>5

LEMMA InnermostBelow ==
  ASSUME NEW st \in Seq(Activation), NEW ks, st # <<>>, Kind[st[Len(st)].node] \notin ks
  PROVE  Innermost(st, ks) = Innermost(Front(st), ks)
<1> DEFINE n == Len(st)
<1>1. n \in Nat \ {0} /\ Len(Front(st)) = n - 1 /\ \A i \in 1..(n - 1) : Front(st)[i] = st[i]
  BY FrontProperties
<1> HIDE DEF n
<1>2. \A i \in 1..n : i \in 1..(n - 1) \/ i = n
  BY <1>1
<1>3. 1..(n - 1) \subseteq 1..n
  BY <1>1
<1>4. {i \in 1..n : Kind[st[i].node] \in ks} = {i \in 1..(n - 1) : Kind[Front(st)[i].node] \in ks}
  BY <1>1, <1>2, <1>3, Zenon DEF n
<1> QED
  BY <1>1, <1>4 DEF Innermost, n

LEMMA PrefixBelow ==
  ASSUME NEW st \in Seq(Activation), st # <<>>, NEW i \in 0..Len(st) - 1
  PROVE  SubSeq(Front(st), 1, i) = SubSeq(st, 1, i) /\ SubSeq(st, 1, i) \in Seq(Activation)
  BY FrontProperties DEF Front

\* The end of a statement is passed on by everything but blocks and loops.
LEMMA AfterwardsBelow ==
  ASSUME NEW st \in Seq(Activation), st # <<>>,
         Kind[st[Len(st)].node] \notin Loops \cup {"builtin", "block"}
  PROVE  Afterwards(st) = Afterwards(Front(st))
<1> DEFINE i == Innermost(st, Loops \cup {"builtin", "block"})
<1>1. i = Innermost(Front(st), Loops \cup {"builtin", "block"}) /\ i \in 0..Len(st) - 1
  BY InnermostBelow, InnermostType, FrontProperties
<1>2. CASE i = 0
  BY <1>1, <1>2 DEF Afterwards
<1>3. CASE i # 0
  <2>1. Front(st)[i] = st[i] /\ SubSeq(Front(st), 1, i) = SubSeq(st, 1, i)
    <3> HIDE DEF i
    <3>1. i \in 1..Len(Front(st)) /\ i \in 0..Len(st) - 1
      BY <1>1, <1>3, FrontProperties
    <3> QED
      BY <3>1, FrontProperties, PrefixBelow
  <2> HIDE DEF i
  <2> QED
    BY <1>1, <1>3, <2>1 DEF Afterwards, At, i
<1> QED
  BY <1>2, <1>3

\* A jump is passed on by what is not its target.
LEMMA DestinationBelow ==
  ASSUME NEW st \in Seq(Activation), st # <<>>, NEW v \in Values \ {"null"},
         Kind[st[Len(st)].node] \notin Target(v)
  PROVE  Destination(st, v) = Destination(Front(st), v)
<1> DEFINE i == Innermost(st, Target(v))
<1>1. i = Innermost(Front(st), Target(v)) /\ i \in 0..Len(st) - 1
  BY InnermostBelow, InnermostType, FrontProperties
<1>2. v # Running /\ v # "null"
  BY DEF Values, Running
<1>3. CASE i = 0
  BY <1>1, <1>2, <1>3 DEF Destination
<1>4. CASE i # 0
  <2>1. /\ Front(st)[i] = st[i]
        /\ SubSeq(Front(st), 1, i) = SubSeq(st, 1, i)
        /\ SubSeq(Front(st), 1, i - 1) = SubSeq(st, 1, i - 1)
    <3> HIDE DEF i
    <3>1. i \in 1..Len(Front(st)) /\ i \in 0..Len(st) - 1 /\ i - 1 \in 0..Len(st) - 1
      BY <1>1, <1>4, FrontProperties
    <3> QED
      BY <3>1, FrontProperties, PrefixBelow
  <2> HIDE DEF i
  <2> QED
    BY <1>1, <1>2, <1>4, <2>1 DEF Destination, At, i
<1> QED
  BY <1>3, <1>4

-----------------------------------------------------------------------------
(* Types.                                                                  *)

LEMMA TopType ==
  ASSUME TypeOK, stack # <<>>
  PROVE  /\ Top \in Activation /\ Top.node \in Nodes /\ Top.pc \in Nat
         /\ Kind[Top.node] \in Kinds \ Leaves
         /\ Statements \in Seq(Nodes)
<1>1. Top \in Activation
  BY FrontProperties DEF TypeOK, Top
<1>2. Top.node \in Nodes /\ Top.pc \in Nat /\ Kind[Top.node] \notin Leaves
  BY <1>1 DEF Activation
<1> QED
  BY <1>1, <1>2, TreeAssumption DEF Statements

LEMMA ReturnType ==
  ASSUME TypeOK, stack # <<>>, NEW v \in Values, Return(v)
  PROVE  TypeOK'
  BY FrontProperties DEF TypeOK, Return, Values, Running

LEMMA GotoType ==
  ASSUME TypeOK, stack # <<>>, NEW pc \in Nat, Goto(pc)
  PROVE  TypeOK'
<1>1. stack \in Seq(Activation) /\ Len(stack) \in Nat \ {0} /\ stack[Len(stack)] \in Activation
  BY FrontProperties DEF TypeOK
<1>2. stack' = [stack EXCEPT ![Len(stack)] = [stack[Len(stack)] EXCEPT !.pc = pc]]
  BY DEF Goto
<1>3. [stack[Len(stack)] EXCEPT !.pc = pc] \in Activation
  BY <1>1 DEF Activation
<1>4. stack' \in Seq(Activation) /\ Len(stack') = Len(stack)
  BY <1>1, <1>2, <1>3
<1> QED
  BY <1>1, <1>4 DEF TypeOK, Goto

LEMMA PushType ==
  ASSUME TypeOK, NEW a \in Activation, stack' = Append(stack, a), value' = Running
  PROVE  TypeOK'
  BY AppendProperties DEF TypeOK

LEMMA EvaluateType ==
  ASSUME TypeOK, stack # <<>>, NEW n \in Nodes, Evaluate(n)
  PROVE  TypeOK'
<1>1. CASE Kind[n] \in Leaves
  <2>1. Leaf(Kind[n]) \subseteq Values
    BY <1>1 DEF Leaf, Leaves, Values
  <2> QED
    BY <1>1, <2>1 DEF Evaluate, TypeOK, Values, Running
<1>2. CASE Kind[n] \notin Leaves
  <2>1. Start(n) \in Activation
    BY <1>2 DEF Start, Activation, Cond, Body
  <2> QED
    BY <1>2, <2>1, PushType DEF Evaluate
<1> QED
  BY <1>1, <1>2

LEMMA NextType == TypeOK /\ [Next]_vars => TypeOK'
<1> SUFFICES ASSUME TypeOK, [Next]_vars PROVE TypeOK'
  OBVIOUS
<1> USE DEF TopKind
<1>0. "null" \in Values /\ "void" \in Values /\ Cond \in Nat /\ Body \in Nat
  BY DEF Values, Cond, Body
<1>1. value # Running => value \in Values
  BY DEF TypeOK
<1>2. ASSUME stack # <<>> PROVE \A i \in 1..Len(Statements) : Statements[i] \in Nodes
  BY <1>2, TopType
<1>3. ASSUME stack # <<>>, Statements # <<>> PROVE Statements[1] \in Nodes
  BY <1>3, TopType
<1>4. ASSUME stack # <<>>, Kind[Top.node] \in {"switch", "builtin", "call"}
      PROVE  Statements[1] \in Nodes /\ Kind[Statements[1]] = "block"
  BY <1>4, TopType, TreeAssumption DEF Statements
<1>5. CASE NextStatement
  BY <1>2, <1>5, EvaluateType DEF NextStatement
<1>6. CASE StatementDone
  BY <1>1, <1>6, TopType, ReturnType, GotoType DEF StatementDone
<1>7. CASE EndOfBlock
  BY <1>0, <1>7, ReturnType DEF EndOfBlock, EndValue
<1>8. CASE If
  BY <1>0, <1>2, <1>8, ReturnType, EvaluateType DEF If
<1>9. CASE IfDone
  BY <1>1, <1>9, ReturnType DEF IfDone
<1>10. CASE WhileCondition
  BY <1>0, <1>3, <1>10, ReturnType, GotoType, EvaluateType DEF WhileCondition
<1>11. CASE WhileDone
  BY <1>0, <1>1, <1>11, ReturnType, GotoType DEF WhileDone
<1>12. CASE RepeatBody
  BY <1>0, <1>3, <1>12, GotoType, EvaluateType DEF RepeatBody
<1>13. CASE RepeatDone
  BY <1>0, <1>1, <1>13, ReturnType, GotoType DEF RepeatDone
<1>14. CASE RepeatCondition
  BY <1>0, <1>14, ReturnType, GotoType DEF RepeatCondition
<1>15. CASE Switch
  <2>1. CASE Return("null")
    BY <1>0, <1>15, <2>1, ReturnType DEF Switch
  <2>2. ASSUME NEW i \in Cases[Top.node],
               stack' = Append(stack, [node |-> Statements[1], pc |-> i + 1]), value' = Running
        PROVE  TypeOK'
    <3>1. i \in Nat
      BY <1>15, TopType, TreeAssumption DEF Switch
    <3>2. [node |-> Statements[1], pc |-> i + 1] \in Activation
      BY <1>4, <1>15, <3>1 DEF Switch, Activation, Leaves
    <3> QED
      BY <2>2, <3>2, PushType
  <2> QED
    BY <1>15, <2>1, <2>2 DEF Switch
<1>16. CASE SwitchDone
  BY <1>0, <1>1, <1>16, ReturnType DEF SwitchDone, SwitchValue
<1>17. CASE NextElement
  BY <1>0, <1>4, <1>17, ReturnType, EvaluateType DEF NextElement
<1>18. CASE ElementDone
  BY <1>0, <1>18, ReturnType, GotoType DEF ElementDone
<1>19. CASE Call
  BY <1>4, <1>19, EvaluateType DEF Call
<1>20. CASE CallDone
  BY <1>0, <1>20, ReturnType DEF CallDone
<1>21. CASE Finished \/ UNCHANGED vars
  BY <1>21 DEF Finished, TypeOK, vars
<1> QED
  BY SMTT(60), <1>5, <1>6, <1>7, <1>8, <1>9, <1>10, <1>11, <1>12, <1>13, <1>14, <1>15, <1>16, <1>17, <1>18,
     <1>19, <1>20, <1>21 DEF Next

\* The variables have their types in every program.
THEOREM Types == Spec => []TypeOK
<1>1. Init => TypeOK
  BY TreeAssumption DEF Init, TypeOK, Start, Activation, Leaves, Running, Values, Body, Cond
<1> QED
  BY <1>1, NextType, PTL DEF Spec

-----------------------------------------------------------------------------
(* Jumps.                                                                  *)

LEMMA WholeStack ==
  ASSUME NEW st \in Seq(Activation)
  PROVE  SubSeq(st, 1, Len(st)) = st
  OBVIOUS

\* A statement is done in a block or in the body of a loop.
LEMMA AfterwardsHere ==
  ASSUME NEW st \in Seq(Activation), st # <<>>,
         Kind[st[Len(st)].node] \in Loops \cup {"builtin", "block"}
  PROVE  Afterwards(st) =
           [st EXCEPT ![Len(st)].pc =
              IF Kind[st[Len(st)].node] = "block" THEN st[Len(st)].pc + 1 ELSE Cond]
<1>1. Innermost(st, Loops \cup {"builtin", "block"}) = Len(st)
  BY InnermostIsTop
<1>2. Len(st) # 0
  BY FrontProperties
<1> QED
  BY <1>1, <1>2, WholeStack DEF Afterwards, At

\* A jump has come to its target, which goes on with its next turn.
LEMMA NextTurn ==
  ASSUME NEW st \in Seq(Activation), st # <<>>, NEW v \in Values \ {"null", "break"},
         Kind[st[Len(st)].node] \in Target(v) \cap (Loops \cup {"builtin"})
  PROVE  Destination(st, v) = [st EXCEPT ![Len(st)].pc = Cond]
<1>1. Innermost(st, Target(v)) = Len(st)
  BY InnermostIsTop
<1>2. Len(st) # 0 /\ v # Running /\ v # "null"
  BY FrontProperties DEF Values, Running
<1> QED
  BY <1>1, <1>2, WholeStack DEF Destination, At

\* A jump has come to its target, which is left.
LEMMA LeaveTarget ==
  ASSUME NEW st \in Seq(Activation), st # <<>>, NEW v \in Values \ {"null"},
         Kind[st[Len(st)].node] \in Target(v),
         v = "break" \/ Kind[st[Len(st)].node] \notin Loops \cup {"builtin"}
  PROVE  Destination(st, v) = Afterwards(Front(st))
<1>1. Innermost(st, Target(v)) = Len(st)
  BY InnermostIsTop
<1>2. Len(st) # 0 /\ v # Running /\ v # "null"
  BY FrontProperties DEF Values, Running
<1> QED
  BY <1>1, <1>2 DEF Destination, Front

LEMMA DestinationNull ==
  ASSUME NEW st
  PROVE  Destination(st, "null") = Afterwards(st) /\ Destination(st, Running) = st
  BY DEF Destination, Running

LEMMA JumpStep ==
  ASSUME TypeOK, Next, value # Running, ~(value = "return" /\ TopKind({"repeat", "do"}))
  PROVE  Destination(stack', value') = Destination(stack, value)
<1>1. CASE Finished
  BY <1>1 DEF Finished, vars
<1>2. CASE stack # <<>>
  <2> DEFINE k == Kind[stack[Len(stack)].node]
  <2>1. stack \in Seq(Activation) /\ value \in Values
    BY DEF TypeOK
  <2>2. ASSUME Return(value), value # "null", k \notin Target(value)
        PROVE  Destination(stack', value') = Destination(stack, value)
    BY <1>2, <2>1, <2>2, DestinationBelow DEF Return
  <2>3. ASSUME Return("null"), value = "null", k \notin Loops \cup {"builtin", "block"}
        PROVE  Destination(stack', value') = Destination(stack, value)
    BY <1>2, <2>1, <2>3, AfterwardsBelow, DestinationNull DEF Return
  <2>4. ASSUME Return("null"), value # "null", k \in Target(value),
               value = "break" \/ k \notin Loops \cup {"builtin"}
        PROVE  Destination(stack', value') = Destination(stack, value)
    BY <1>2, <2>1, <2>4, LeaveTarget, DestinationNull DEF Return
  <2>5. ASSUME NEW pc, Goto(pc), value = "null", k \in Loops \cup {"builtin", "block"},
               pc = IF k = "block" THEN stack[Len(stack)].pc + 1 ELSE Cond
        PROVE  Destination(stack', value') = Destination(stack, value)
    BY ZenonT(60), <1>2, <2>1, <2>5, AfterwardsHere, DestinationNull DEF Goto
  <2>6. ASSUME Goto(Cond), value \notin {"null", "break"},
               k \in Target(value) \cap (Loops \cup {"builtin"})
        PROVE  Destination(stack', value') = Destination(stack, value)
    BY <1>2, <2>1, <2>6, NextTurn, DestinationNull DEF Goto
  <2> HIDE DEF k
  <2>7. Top = stack[Len(stack)] /\ k = Kind[Top.node] /\ \A ks : TopKind(ks) <=> k \in ks
    BY <1>2 DEF Top, TopKind, k
  <2>8. CASE StatementDone
    BY <2>1, <2>2, <2>5, <2>7, <2>8 DEF StatementDone, Stops, Target, Loops, Values
  <2>9. CASE IfDone
    BY SMTT(60), <2>1, <2>2, <2>3, <2>7, <2>9 DEF IfDone, Target, Loops, Values
  <2>10. CASE WhileDone
    BY SMTT(60), <2>1, <2>2, <2>4, <2>5, <2>6, <2>7, <2>10
       DEF WhileDone, WhileContinues, isVoid, Target, Loops, Values
  <2>11. CASE RepeatDone
    BY SMTT(60), <2>1, <2>2, <2>4, <2>5, <2>6, <2>7, <2>11 DEF RepeatDone, isVoid, Target, Loops, Values
  <2>12. CASE SwitchDone
    BY SMTT(60), <2>1, <2>2, <2>3, <2>4, <2>7, <2>12 DEF SwitchDone, SwitchValue, Target, Loops, Values
  <2>13. CASE ElementDone
    BY <2>1, <2>4, <2>6, <2>7, <2>13 DEF ElementDone, Target, Loops, Values
  <2>14. CASE CallDone
    BY <2>1, <2>3, <2>4, <2>7, <2>14 DEF CallDone, Target, Loops, Values
  <2> QED
    BY SMTT(60), <1>1, <2>8, <2>9, <2>10, <2>11, <2>12, <2>13, <2>14
       DEF Next, NextStatement, EndOfBlock, If, WhileCondition, RepeatBody, RepeatCondition, Switch,
           NextElement, Call
<1> QED
  BY <1>1, <1>2 DEF Next, NextStatement, StatementDone, EndOfBlock, If, IfDone, WhileCondition,
     WhileDone, RepeatBody, RepeatDone, RepeatCondition, Switch, SwitchDone, NextElement,
     ElementDone, Call, CallDone, TopKind

\* In every program, break, continue and return with a value get past every
\* block, if, switch and loop that is not their target, and take effect there;
\* return; does so unless a repeat or a do loop is on its way.
THEOREM Jumps == Spec => JumpsReachTheirDestination
<1>1. TypeOK /\ [Next]_vars =>
        [value # Running /\ ~(value = "return" /\ TopKind({"repeat", "do"}))
           => Destination(stack', value') = Destination(stack, value)]_vars
  BY JumpStep
<1> QED
  BY <1>1, Types, PTL DEF Spec, JumpsReachTheirDestination

-----------------------------------------------------------------------------
(* The end of a block.                                                     *)

LEMMA NothingBelow ==
  /\ \A v \in Values : Destination(<<>>, v) = <<>>
  /\ Afterwards(<<>>) = <<>>
<1>1. ASSUME NEW ks PROVE Innermost(<<>>, ks) = 0
  <2>1. {i \in 1..Len(<<>>) : Kind[<<>>[i].node] \in ks} = {}
    OBVIOUS
  <2> QED
    BY <2>1 DEF Innermost, Newest
<1>2. Afterwards(<<>>) = <<>>
  BY <1>1 DEF Afterwards
<1> QED
  BY <1>1, <1>2 DEF Destination, Values, Running

LEMMA BlockStep ==
  ASSUME TypeOK, EndOfBlock, ~(Len(stack) > 1 /\ Kind[stack[Len(stack) - 1].node] = "switch")
  PROVE  Destination(stack', value') = Afterwards(Front(stack))
<1> DEFINE below == Front(stack)
           parent == Kind[below[Len(below)].node]
<1>1. stack \in Seq(Activation) /\ stack # <<>>
  BY DEF TypeOK, EndOfBlock, TopKind
<1>2. below \in Seq(Activation) /\ Len(stack) \in Nat /\ Len(below) = Len(stack) - 1
  BY <1>1, FrontProperties
<1>3. stack' = below /\ value' = EndValue(IsStatement)
  BY DEF EndOfBlock, Return
<1>4. "void" \in Values /\ "void" # "null" /\ "void" # "break"
  BY DEF Values
<1>5. CASE below = <<>>
  <2>1. Len(stack) = 1
    BY <1>2, <1>5
  <2>2. value' = "void"
    BY <1>3, <2>1 DEF EndValue, IsStatement
  <2> QED
    BY <1>3, <1>4, <1>5, <2>2, NothingBelow
<1>6. CASE below # <<>>
  <2>1. Len(stack) > 1 /\ below[Len(below)] = stack[Len(stack) - 1] /\ below[Len(below)] \in Activation
    BY <1>1, <1>2, <1>6, FrontProperties
  <2>2. parent = Kind[stack[Len(stack) - 1].node] /\ parent # "switch"
    BY <2>1
  <2>3. parent \in Kinds \ Leaves
    BY <2>1, TreeAssumption DEF Activation
  <2> HIDE DEF below, parent
  <2>4. CASE parent \in {"block", "if", "while"}
    BY <1>3, <2>1, <2>2, <2>4, DestinationNull DEF EndValue, IsStatement, below
  <2>5. CASE parent \notin {"block", "if", "while"}
    <3>1. value' = "void"
      BY <1>3, <2>1, <2>2, <2>5 DEF EndValue, IsStatement
    <3>2. CASE parent \in {"repeat", "do", "builtin"}
      <4>1. parent \in Target("void") \cap (Loops \cup {"builtin"}) /\ parent # "block"
        BY <3>2 DEF Target, Loops
      <4>2. Destination(below, "void") = [below EXCEPT ![Len(below)].pc = Cond]
        BY <1>2, <1>4, <1>6, <4>1, NextTurn DEF parent
      <4>3. Afterwards(below) = [below EXCEPT ![Len(below)].pc = Cond]
        BY <1>2, <1>6, <4>1, AfterwardsHere DEF parent
      <4> QED
        BY <1>3, <3>1, <4>2, <4>3 DEF below
    <3>3. CASE parent = "call"
      <4>1. /\ parent \in Target("void")
            /\ parent \notin Loops \cup {"builtin"}
            /\ parent \notin Loops \cup {"builtin", "block"}
        BY <3>3 DEF Target, Loops
      <4>2. Destination(below, "void") = Afterwards(Front(below))
        BY <1>2, <1>4, <1>6, <4>1, LeaveTarget DEF parent
      <4>3. Afterwards(below) = Afterwards(Front(below))
        BY <1>2, <1>6, <4>1, AfterwardsBelow DEF parent
      <4> QED
        BY <1>3, <3>1, <4>2, <4>3 DEF below
    <3> QED
      BY <2>2, <2>3, <2>5, <3>2, <3>3 DEF Kinds, Loops
  <2> QED
    BY <2>4, <2>5
<1> QED
  BY <1>5, <1>6

\* In every program, at the end of a block that is not the block of a switch the
\* statement after it, or the next turn of its loop, is next.
THEOREM Blocks == Spec => BlocksComplete
<1>1. TypeOK /\ [Next]_vars =>
        [EndOfBlock /\ ~(Len(stack) > 1 /\ Kind[stack[Len(stack) - 1].node] = "switch")
           => Destination(stack', value') = Afterwards(Front(stack))]_vars
  BY BlockStep
<1> QED
  BY <1>1, Types, PTL DEF Spec, BlocksComplete
=============================================================================
