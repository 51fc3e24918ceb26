--------------------------- MODULE YCPStatements ---------------------------
(***************************************************************************)
(* How break, continue, return and the end of a block travel through the   *)
(* YCP interpreter (libycp).  There are no jumps: every evaluate() method  *)
(* returns a YCPValue to the one that called it, and each of YBlock,       *)
(* YSBlock, YSIf, YSWhile, YSRepeat, YSDo, YSSwitch and the looping        *)
(* builtins decides from that value what it does next.                     *)
(*                                                                         *)
(* The program is any tree of statements.  Conditions and the values of    *)
(* expressions are free choices.                                           *)
(***************************************************************************)
EXTENDS Integers, Sequences, FiniteSets

CONSTANTS
  Nodes,     \* the statements and blocks of the program
  Kind,      \* the kind of each node, see below
  Kids,      \* block: its statements; if: then and else; loop, switch, builtin: its
             \* body; call: the definition of the function
  Cases,     \* switch: the indices of its cases, m_cases and m_defaultcase
  Root       \* the block of the client

Leaves == {"break", "continue", "return", "return_value", "plain"}
Loops == {"while", "repeat", "do"}
\* builtin: foreach, maplist, filter or reduce, with a block for every element
Kinds == Leaves \cup Loops \cup {"block", "if", "switch", "builtin", "call"}

ASSUME TreeAssumption ==
  /\ Kind \in [Nodes -> Kinds]
  /\ Kids \in [Nodes -> Seq(Nodes)]
  /\ Cases \in [Nodes -> SUBSET Nat]
  /\ Root \in Nodes /\ Kind[Root] = "block"
  /\ \A n \in Nodes : Kind[n] = "if" => Len(Kids[n]) <= 2
  /\ \A n \in Nodes : Kind[n] \in Loops => Len(Kids[n]) <= 1
  /\ \A n \in Nodes : Kind[n] \in {"switch", "builtin", "call"} =>
       Len(Kids[n]) = 1 /\ Kind[Kids[n][1]] = "block"

VARIABLES
  stack,    \* the evaluate() methods in progress, newest last: the node and where it is
  value     \* what the evaluation the newest one waits for has returned, or Running

vars == <<stack, value>>

\* YCPNull(): a statement that is done; YCPVoid(): nil, and continue; YCPReturn(): return;
Values == {"null", "break", "void", "return", "value"}
Running == "running"

\* Where a loop is; a block is at the statement with that number.
Cond == 0
Body == 1

Activation == [node : {n \in Nodes : Kind[n] \notin Leaves}, pc : Nat]
Top == stack[Len(stack)]
Front(st) == SubSeq(st, 1, Len(st) - 1)
TopKind(ks) == stack # <<>> /\ Kind[Top.node] \in ks

Goto(pc) == stack' = [stack EXCEPT ![Len(stack)].pc = pc] /\ value' = Running
Return(v) == stack' = Front(stack) /\ value' = v

Start(n) == [node |-> n, pc |-> IF Kind[n] \in {"block", "repeat", "do"} THEN Body ELSE Cond]

\* YSBreak, YSContinue, YSReturn and the statements that do not change the control flow.
\* A return whose value is nil or cannot be computed is "return;".
Leaf(k) ==
  CASE k = "break" -> {"break"}
    [] k = "continue" -> {"void"}
    [] k = "return" -> {"return"}
    [] k = "return_value" -> {"value", "return"}
    [] k = "plain" -> {"null"}

\* n->evaluate ()
Evaluate(n) ==
  \/ Kind[n] \in Leaves /\ value' \in Leaf(Kind[n]) /\ stack' = stack
  \/ Kind[n] \notin Leaves /\ stack' = Append(stack, Start(n)) /\ value' = Running

-----------------------------------------------------------------------------
(* YBlock::evaluate, YBlock::evaluateFrom                                  *)

Statements == Kids[Top.node]

NextStatement ==
  /\ TopKind({"block"}) /\ value = Running /\ Top.pc \in 1..Len(Statements)
  /\ Evaluate(Statements[Top.pc])

Stops(v) == v # "null"

StatementDone ==
  /\ TopKind({"block"}) /\ value # Running
  /\ IF Stops(value) THEN Return(value) ELSE Goto(Top.pc + 1)

\* A block is a statement when YSBlock wraps it: in a block, an if or a while.
IsStatement == Len(stack) > 1 /\ Kind[stack[Len(stack) - 1].node] \in {"block", "if", "while"}

EndValueVoid(statement) == "void"       \* mutant: m_kind is not tested
EndValue(statement) == IF statement THEN "null" ELSE "void"

EndOfBlock ==
  /\ TopKind({"block"}) /\ value = Running /\ Top.pc \notin 1..Len(Statements)
  /\ Return(EndValue(IsStatement))

-----------------------------------------------------------------------------
(* YSIf::evaluate: a condition that is nil ends it, one that is no boolean *)
(* counts as false.                                                        *)

If ==
  /\ TopKind({"if"}) /\ value = Running
  /\ \/ Return("null")
     \/ \E i \in 1..Len(Statements) : Evaluate(Statements[i])

IfDone ==
  /\ TopKind({"if"}) /\ value # Running
  /\ Return(value)

-----------------------------------------------------------------------------
(* YSWhile::evaluate, YSRepeat::evaluate, YSDo::evaluate: a condition that *)
(* is nil or no boolean ends the loop like one that says so.               *)

isVoid(v) == v \in {"void", "return"}    \* YCPValueRep::isVoid

WhileCondition ==
  /\ TopKind({"while"}) /\ value = Running
  /\ \/ Return("null")
     \/ IF Statements = <<>> THEN Goto(Cond) ELSE Evaluate(Statements[1])

\* mutant: isVoid is tested before isReturn
WhileVoidFirst(v) == v = "null" \/ isVoid(v)
WhileContinues(v) == v = "null" \/ (isVoid(v) /\ v # "return")

WhileDone ==
  /\ TopKind({"while"}) /\ value # Running
  /\ \/ WhileContinues(value) /\ Goto(Cond)
     \/ value = "break" /\ Return("null")
     \/ ~WhileContinues(value) /\ value # "break" /\ Return(value)

RepeatBody ==
  /\ TopKind({"repeat", "do"}) /\ value = Running /\ Top.pc = Body
  /\ IF Statements = <<>> THEN Goto(Cond) ELSE Evaluate(Statements[1])

\* "normal block/statement or 'continue'": isVoid comes first and is true of YCPReturn
RepeatDone ==
  /\ TopKind({"repeat", "do"}) /\ value # Running
  /\ \/ (value = "null" \/ isVoid(value)) /\ Goto(Cond)
     \/ value = "break" /\ Return("null")
     \/ value = "value" /\ Return(value)

RepeatCondition ==
  /\ TopKind({"repeat", "do"}) /\ value = Running /\ Top.pc = Cond
  /\ Goto(Body) \/ Return("null")

-----------------------------------------------------------------------------
(* YSSwitch::evaluate.  A value without a case and no default: nothing.    *)

Switch ==
  /\ TopKind({"switch"}) /\ value = Running
  /\ \/ Return("null")
     \/ \E i \in Cases[Top.node] :
          stack' = Append(stack, [node |-> Statements[1], pc |-> i + 1]) /\ value' = Running

SwitchValue(v) == IF v = "break" THEN "null" ELSE v

SwitchDone ==
  /\ TopKind({"switch"}) /\ value # Running
  /\ Return(SwitchValue(value))

-----------------------------------------------------------------------------
(* YSExpression::evaluate, for a looping builtin (l_foreach, l_maplist,    *)
(* l_filter, l_reduce_helper, m_foreach, m_maplist, m_filter) and for a    *)
(* function call (Y2YCPFunction::evaluateCall).  The value of the          *)
(* expression is dropped.                                                  *)

NextElement ==
  /\ TopKind({"builtin"}) /\ value = Running
  /\ \/ Return("null")
     \/ Evaluate(Statements[1])

\* The body is no statement, so that it never evaluates to YCPNull.
ElementDone ==
  /\ TopKind({"builtin"}) /\ value # Running
  /\ \/ value = "break" /\ Return("null")
     \/ value \in {"void", "return", "value"} /\ Goto(Cond)

Call ==
  /\ TopKind({"call"}) /\ value = Running
  /\ Evaluate(Statements[1])

CallDone ==
  /\ TopKind({"call"}) /\ value # Running
  /\ Return("null")

-----------------------------------------------------------------------------
Init == stack = <<Start(Root)>> /\ value = Running

\* The client is done.
Finished == stack = <<>> /\ UNCHANGED vars

Next ==
  \/ NextStatement \/ StatementDone \/ EndOfBlock
  \/ If \/ IfDone
  \/ WhileCondition \/ WhileDone
  \/ RepeatBody \/ RepeatDone \/ RepeatCondition
  \/ Switch \/ SwitchDone
  \/ NextElement \/ ElementDone
  \/ Call \/ CallDone
  \/ Finished

Spec == Init /\ [][Next]_vars
-----------------------------------------------------------------------------
(* Properties.                                                             *)

\* The types of the variables; only a program that is done has no evaluation in progress.
TypeOK ==
  /\ stack \in Seq(Activation)
  /\ value \in Values \cup {Running}
  /\ stack = <<>> => value # Running

\* The newest evaluation in st of one of the kinds ks, 0 if there is none.
Newest(found) == IF found = {} THEN 0 ELSE CHOOSE i \in found : \A j \in found : j <= i
Innermost(st, ks) == Newest({i \in 1..Len(st) : Kind[st[i].node] \in ks})

\* Evaluation i of st goes on at pc.
At(st, i, pc) == [SubSeq(st, 1, i) EXCEPT ![i].pc = pc]

\* Where a program goes on when what the newest evaluation of st waits for is
\* done: at the next statement of the innermost block, the next turn of the
\* innermost loop or, with <<>>, at the end of the program.
Afterwards(st) ==
  LET i == Innermost(st, Loops \cup {"builtin", "block"}) IN
  IF i = 0 THEN <<>>
  ELSE At(st, i, IF Kind[st[i].node] = "block" THEN st[i].pc + 1 ELSE Cond)

\* What a value may pass through no further.
Target(v) ==
  CASE v = "break" -> Loops \cup {"switch", "builtin", "call"}
    [] v = "void" -> Loops \cup {"builtin", "call"}
    [] v \in {"return", "value"} -> {"builtin", "call"}

\* Where a program goes on, in st, once v is returned: break leaves the
\* innermost loop or switch, continue begins its next turn, return leaves the
\* function or the block of the builtin.
Destination(st, v) ==
  CASE v = Running -> st
    [] v = "null" -> Afterwards(st)
    [] OTHER ->
         LET i == Innermost(st, Target(v)) IN
         IF i = 0 THEN <<>>
         ELSE IF v # "break" /\ Kind[st[i].node] \in Loops \cup {"builtin"} THEN At(st, i, Cond)
         ELSE Afterwards(SubSeq(st, 1, i - 1))

\* While a value travels, the place where the program will go on stays the same:
\* break, continue and return get past every block, if, switch and loop between
\* them and their target, and stop there.  (ReturnReachesItsFunction is the rest.)
JumpsReachTheirDestination ==
  [][value # Running /\ ~(value = "return" /\ TopKind({"repeat", "do"}))
       => Destination(stack', value') = Destination(stack, value)]_vars

\* The end of a block is not the end of anything else: the statement after the
\* block, or the next turn of its loop, is next.  (SwitchCompletes is the rest.)
BlocksComplete ==
  [][EndOfBlock /\ ~(Len(stack) > 1 /\ Kind[stack[Len(stack) - 1].node] = "switch")
       => Destination(stack', value') = Afterwards(Front(stack))]_vars

\* "return;" leaves the function, from any loop (YStatement.cc:1366: "executed 'return;'").
ReturnReachesItsFunction ==
  [][value = "return" => Destination(stack', value') = Destination(stack, value)]_vars

\* When the last statement of a switch was executed, the statement after the switch is next.
SwitchCompletes ==
  [][EndOfBlock => Destination(stack', value') = Afterwards(Front(stack))]_vars
=============================================================================
