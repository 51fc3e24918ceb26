------------------------------ MODULE YCPCalls ------------------------------
(***************************************************************************)
(* Function calls and recursion in the YCP interpreter (libycp): blocks    *)
(* (YBlock::evaluate), calls (YEFunction, YEFunctionPointer,               *)
(* Y2YCPFunction), builtins with variables of their own (YEBuiltin), the   *)
(* variables themselves (SymbolEntry) and the call stack                   *)
(* (ExecutionEnvironment).                                                 *)
(*                                                                         *)
(* A variable is one SymbolEntry with one m_value, whatever the depth of   *)
(* the recursion: a block that is entered while it runs, and every call of *)
(* a function, save the values on m_recurse_stack and restore them.        *)
(*                                                                         *)
(* The program is any program over the given blocks, functions and call    *)
(* sites: what it does next is a free choice among what its syntax allows. *)
(***************************************************************************)
EXTENDS Integers, Sequences, FiniteSets

CONSTANTS
  Functions,    \* YFunction
  Undefined,    \* the functions that are declared and not defined
  Blocks,       \* YBlock, evaluated as statements or expressions
  Builtins,     \* the parameter blocks of builtins (foreach, maplist, ...)
  Root,         \* the block of the client or module
  Body,         \* the definition of each function
  Inner,        \* pairs <<a, b>>: block or builtin b is directly inside a, which is a
                \* block, a builtin or (in its parameters) a call site
  Nodes,        \* call sites: YEFunction and YEFunctionPointer objects
  PtrNodes,     \* those that are YEFunctionPointer
  At,           \* the block, builtin or call site a call site is directly inside
  Callee,       \* the functions a call site may call (one, unless a pointer)
  Vars,         \* SymbolEntry of category c_variable or c_reference
  Scope,        \* the block, builtin or function a variable belongs to; the variables
                \* of a function are its formal parameters
  RefParams,    \* the formal parameters of category c_reference
  Values,       \* the YCP values a program computes with
  Unset,        \* m_value of a variable that was never set
  Limit,        \* ExecutionEnvironment::m_recursion_limit
  MaxDepth,     \* bound: activations on the stack
  MaxSaved      \* bound: values an undefined function's parameter saves

Scopes == Functions \cup Blocks \cup Builtins
Ref(v) == <<"ref", v>>             \* YCPReference
Value == Values \cup {Unset} \cup {Ref(v) : v \in Vars}

ASSUME ScopesAssumption ==
  /\ Functions \cap Blocks = {} /\ Functions \cap Builtins = {} /\ Blocks \cap Builtins = {}
  /\ Nodes \cap Scopes = {}
  /\ Root \in Blocks /\ Undefined \subseteq Functions
  /\ Body \in [Functions -> Blocks]
  /\ Inner \subseteq (Blocks \cup Builtins \cup Nodes) \X (Blocks \cup Builtins)
ASSUME NodesAssumption ==
  /\ PtrNodes \subseteq Nodes
  /\ At \in [Nodes -> Blocks \cup Builtins \cup Nodes]
  /\ Callee \in [Nodes -> SUBSET Functions]
  /\ \A n \in Nodes : Callee[n] # {}
ASSUME VarsAssumption == Scope \in [Vars -> Scopes] /\ RefParams \subseteq Vars
ASSUME LimitAssumption == Limit \in Nat /\ MaxDepth \in Nat /\ MaxSaved \in Nat

VARIABLES
  stack,            \* the interpreter's C++ call stack: activations, newest last
  m_running,        \* YBlock::m_running
  m_value,          \* SymbolEntry::m_value
  m_recurse_stack,  \* SymbolEntry::m_recurse_stack
  m_functioncall,   \* YECall::m_functioncall: the function a call site is set up to call
  backtrace,        \* size of ExecutionEnvironment::m_backtrace
  depth             \* history: the number of activations of each scope

vars == <<stack, m_running, m_value, m_recurse_stack, m_functioncall, backtrace, depth>>

(***************************************************************************)
(* An activation:                                                          *)
(*   kind  "block", "builtin": evaluating the block or builtin id;         *)
(*         "args": evaluating the parameters at call site id;              *)
(*         "call", "ret": evaluateCall of function id, before and after    *)
(*         the definition was evaluated                                    *)
(*   old   block: old_m_running; call: a call frame was pushed             *)
(*   want  args, call: the function the program meant to call (history)    *)
(*   inst  which activation of its scope it is (history)                   *)
(***************************************************************************)
Activation == [kind : {"block", "builtin", "args", "call", "ret"}, id : Scopes \cup Nodes,
               old : BOOLEAN, want : Functions \cup Blocks \cup Builtins, inst : Nat]

Top == stack[Len(stack)]
Below == SubSeq(stack, 1, Len(stack) - 1)
IsTop(kind) == stack # <<>> /\ Top.kind = kind
Room(n) == Len(stack) + n <= MaxDepth

\* The code of block or builtin c, or a parameter at call site c, is being evaluated.
Evaluating(c) == \E k \in {"block", "builtin", "args"} : IsTop(k) /\ Top.id = c

-----------------------------------------------------------------------------
(* SymbolEntry                                                             *)

PushNothing(vs) == m_recurse_stack     \* mutant: push() forgets the value
PopKeepsValue(vs) ==                   \* mutant: pop() does not restore m_value
  /\ m_value' = m_value
  /\ m_recurse_stack' = [v \in Vars |->
                           IF v \in vs /\ m_recurse_stack[v] # <<>>
                           THEN SubSeq(m_recurse_stack[v], 1, Len(m_recurse_stack[v]) - 1)
                           ELSE m_recurse_stack[v]]

\* push() and pop() on every variable in the set vs.
PushVars(vs) ==
  [v \in Vars |-> IF v \in vs THEN Append(m_recurse_stack[v], m_value[v]) ELSE m_recurse_stack[v]]
PopVars(vs) ==
  /\ m_value' = [v \in Vars |-> IF v \in vs /\ m_recurse_stack[v] # <<>>
                                THEN m_recurse_stack[v][Len(m_recurse_stack[v])]
                                ELSE m_value[v]]
  /\ m_recurse_stack' = [v \in Vars |->
                           IF v \in vs /\ m_recurse_stack[v] # <<>>
                           THEN SubSeq(m_recurse_stack[v], 1, Len(m_recurse_stack[v]) - 1)
                           ELSE m_recurse_stack[v]]

VarsOf(s) == {v \in Vars : Scope[v] = s}

\* setValue() and value() on a c_reference follow the reference.
Follow(v) ==
  IF v \in RefParams /\ \E w \in Vars : m_value[v] = Ref(w)
  THEN CHOOSE w \in Vars : m_value[v] = Ref(w)
  ELSE v

Denotes(v, w) ==
  \E n \in 0..Cardinality(Vars) :
    LET hop[i \in 0..n] == IF i = 0 THEN v ELSE Follow(hop[i-1])
    IN hop[n] = w /\ w \notin RefParams

\* An assignment, a variable declaration, or a builtin binding its variable.
\* It never comes back if the references of v form a cycle.
Assign(v, x) ==
  /\ \E k \in {"block", "builtin"} : IsTop(k)
  /\ \E i \in 1..Len(stack) : stack[i].id = Scope[v]
  /\ \E w \in Vars : Denotes(v, w) /\ m_value' = [m_value EXCEPT ![w] = x]
  /\ UNCHANGED <<stack, m_running, m_recurse_stack, m_functioncall, backtrace, depth>>

-----------------------------------------------------------------------------
(* YBlock::evaluate and YBlock::evaluateFrom                               *)


Activate(s, act) == stack' = Append(act, [kind |-> IF s \in Blocks THEN "block" ELSE "builtin",
                                          id |-> s, old |-> s \in Blocks /\ m_running[s],
                                          want |-> s, inst |-> depth[s] + 1])

EnterBlock(b) ==
  /\ IsTop("call") \/ Room(1)
  /\ \/ stack = <<>> /\ b = Root /\ Activate(b, stack)
     \/ \E c \in Blocks \cup Builtins \cup Nodes : Evaluating(c) /\ <<c, b>> \in Inner /\ Activate(b, stack)
     \/ IsTop("call") /\ b = Body[Top.id] /\ Activate(b, Append(Below, [Top EXCEPT !.kind = "ret"]))
  /\ m_recurse_stack' = IF m_running[b] THEN PushVars(VarsOf(b)) ELSE m_recurse_stack
  /\ m_running' = [m_running EXCEPT ![b] = TRUE]
  /\ depth' = [depth EXCEPT ![b] = @ + 1]
  /\ UNCHANGED <<m_value, m_functioncall, backtrace>>

\* mutant: m_running is reset instead of restored
LeaveBlockResets(b) ==
  /\ IsTop("block") /\ Top.id = b
  /\ stack' = Below
  /\ m_running' = [m_running EXCEPT ![b] = FALSE]
  /\ IF Top.old THEN PopVars(VarsOf(b)) ELSE UNCHANGED <<m_value, m_recurse_stack>>
  /\ depth' = [depth EXCEPT ![b] = @ - 1]
  /\ UNCHANGED <<m_functioncall, backtrace>>

LeaveBlock(b) ==
  /\ IsTop("block") /\ Top.id = b
  /\ stack' = Below
  /\ m_running' = [m_running EXCEPT ![b] = Top.old]
  /\ IF Top.old THEN PopVars(VarsOf(b)) ELSE UNCHANGED <<m_value, m_recurse_stack>>
  /\ depth' = [depth EXCEPT ![b] = @ - 1]
  /\ UNCHANGED <<m_functioncall, backtrace>>

-----------------------------------------------------------------------------
(* YEBuiltin::evaluate: the parameter block is pushed for every evaluation. *)

EnterBuiltin(u) ==
  /\ Room(1)
  /\ \E c \in Blocks \cup Builtins \cup Nodes : Evaluating(c) /\ <<c, u>> \in Inner
  /\ Activate(u, stack)
  /\ m_recurse_stack' = PushVars(VarsOf(u))
  /\ depth' = [depth EXCEPT ![u] = @ + 1]
  /\ UNCHANGED <<m_running, m_value, m_functioncall, backtrace>>

LeaveBuiltin(u) ==
  /\ IsTop("builtin") /\ Top.id = u
  /\ stack' = Below
  /\ PopVars(VarsOf(u))
  /\ depth' = [depth EXCEPT ![u] = @ - 1]
  /\ UNCHANGED <<m_running, m_functioncall, backtrace>>

-----------------------------------------------------------------------------
(* YEFunction::evaluate, YEFunctionPointer::evaluate and                   *)
(* Y2YCPFunction::evaluateCall                                             *)

\* A call through a pointer creates m_functioncall for the function the pointer
\* has now; a direct call has created it before.  Then the parameters are evaluated.
BeginCall(n, f) ==
  /\ Room(2) /\ Evaluating(At[n]) /\ f \in Callee[n]
  /\ m_functioncall' = IF n \in PtrNodes THEN [m_functioncall EXCEPT ![n] = f] ELSE m_functioncall
  /\ stack' = Append(stack, [kind |-> "args", id |-> n, old |-> FALSE, want |-> f, inst |-> 0])
  /\ UNCHANGED <<m_running, m_value, m_recurse_stack, backtrace, depth>>

\* A parameter evaluates to YCPNull: the call is given up.
ParameterFails ==
  /\ IsTop("args")
  /\ stack' = Below
  /\ UNCHANGED <<m_running, m_value, m_recurse_stack, m_functioncall, backtrace, depth>>

\* ee.endlessRecursion(): "Returning nil instead of calling the function."
SkipCall ==
  /\ IsTop("args") /\ Top.id \notin PtrNodes /\ backtrace = Limit
  /\ stack' = Below
  /\ UNCHANGED <<m_running, m_value, m_recurse_stack, m_functioncall, backtrace, depth>>

\* What a parameter may be given: a value, or a reference to a variable in use.
Argument(v) ==
  IF v \in RefParams
  THEN {Ref(w) : w \in {u \in Vars : \E i \in 1..Len(stack) : stack[i].id = Scope[u]}}
  ELSE Values

Call(n, a) ==
  LET f == m_functioncall[n] IN
  /\ IsTop("args") /\ Top.id = n
  /\ f \notin Undefined
  /\ n \in PtrNodes \/ backtrace # Limit
  /\ \A v \in VarsOf(f) : a[v] \in Argument(v)
  /\ m_recurse_stack' = PushVars(VarsOf(f))
  /\ m_value' = [v \in Vars |-> IF v \in VarsOf(f) THEN a[v] ELSE m_value[v]]
  /\ backtrace' = IF n \in PtrNodes THEN backtrace ELSE backtrace + 1
  /\ depth' = [depth EXCEPT ![f] = @ + 1]
  /\ stack' = Append(Below, [kind |-> "call", id |-> f, old |-> n \notin PtrNodes,
                             want |-> Top.want, inst |-> depth[f] + 1])
  /\ UNCHANGED <<m_running, m_functioncall>>

\* "Function is only declared, but not defined yet": the early return comes
\* after the parameters were pushed and does not pop them.
CallUndefined(n) ==
  LET f == m_functioncall[n] IN
  /\ IsTop("args") /\ Top.id = n
  /\ f \in Undefined
  /\ n \in PtrNodes \/ backtrace # Limit
  /\ \A v \in VarsOf(f) : Len(m_recurse_stack[v]) < MaxSaved
  /\ m_recurse_stack' = PushVars(VarsOf(f))
  /\ stack' = Below
  /\ UNCHANGED <<m_running, m_value, m_functioncall, backtrace, depth>>

\* YEFunction::evaluate has pushed a frame and pops it, YEFunctionPointer::evaluate not.
PopFrameNever(pushed) == backtrace                                     \* mutant
popframe(pushed) == IF pushed THEN backtrace - 1 ELSE backtrace

ReturnCall(f) ==
  /\ IsTop("ret") /\ Top.id = f
  /\ stack' = Below
  /\ PopVars(VarsOf(f))
  /\ backtrace' = popframe(Top.old)
  /\ depth' = [depth EXCEPT ![f] = @ - 1]
  /\ UNCHANGED <<m_running, m_functioncall>>

-----------------------------------------------------------------------------
Init ==
  /\ stack = <<>>
  /\ m_running = [b \in Blocks |-> FALSE]
  /\ m_value = [v \in Vars |-> Unset]
  /\ m_recurse_stack = [v \in Vars |-> <<>>]
  /\ m_functioncall = [n \in Nodes |-> CHOOSE f \in Callee[n] : TRUE]
  /\ backtrace = 0
  /\ depth = [s \in Scopes |-> 0]

Next ==
  \/ \E v \in Vars, x \in Values : Assign(v, x)
  \/ \E b \in Blocks : EnterBlock(b) \/ LeaveBlock(b)
  \/ \E u \in Builtins : EnterBuiltin(u) \/ LeaveBuiltin(u)
  \/ \E n \in Nodes, f \in Functions : BeginCall(n, f)
  \/ ParameterFails
  \/ SkipCall
  \/ \E n \in Nodes : \E a \in [VarsOf(m_functioncall[n]) -> Value] : Call(n, a)
  \/ \E n \in Nodes : CallUndefined(n)
  \/ \E f \in Functions : ReturnCall(f)

Spec == Init /\ [][Next]_vars

-----------------------------------------------------------------------------
(* Properties.                                                             *)

\* The types of the variables.
TypeOK ==
  /\ stack \in Seq(Activation)
  /\ m_running \in [Blocks -> BOOLEAN]
  /\ m_value \in [Vars -> Value]
  /\ m_recurse_stack \in [Vars -> Seq(Value)]
  /\ m_functioncall \in [Nodes -> Functions]
  /\ backtrace \in Nat
  /\ depth \in [Scopes -> Nat]

\* In the stack st, the activations of each scope s are numbered 1 to d[s] in
\* the order in which they were entered.
WellFormed(st, d) ==
  \A i \in 1..Len(st) :
    /\ st[i].kind = "block" => st[i].id \in Blocks /\ (st[i].old <=> st[i].inst > 1)
    /\ st[i].kind = "builtin" => st[i].id \in Builtins
    /\ st[i].kind \in {"call", "ret"} => st[i].id \in Functions \ Undefined
    /\ st[i].kind = "args" => st[i].id \in Nodes
    /\ st[i].kind # "args" => st[i].inst \in 1..d[st[i].id]
Ordered(st) ==
  \A i, j \in 1..Len(st) :
    i < j /\ st[i].id = st[j].id /\ st[i].kind # "args" => st[i].inst < st[j].inst
Complete(st, d) ==
  \A s \in Scopes : \A k \in 1..d[s] : \E i \in 1..Len(st) : st[i].id = s /\ st[i].inst = k
Nested(st, d) == WellFormed(st, d) /\ Ordered(st) /\ Complete(st, d)

\* Activations are left in the opposite order of their entry, and an activation
\* of a block remembers in old_m_running whether it was the first.
ActivationsAreNested == Nested(stack, depth)

\* m_recurse_stack holds exactly the saved values of the activations that are
\* suspended, whatever mixture of nested blocks, builtins, calls and failed
\* calls got there: a block saves all but its newest activation, a function
\* and a builtin also what was there before the first.
SavedValuesMatchActivations ==
  \A v \in Vars :
    /\ Scope[v] \in Blocks =>
         Len(m_recurse_stack[v]) = IF depth[Scope[v]] = 0 THEN 0 ELSE depth[Scope[v]] - 1
    /\ Scope[v] \in (Functions \cup Builtins) \ Undefined =>
         Len(m_recurse_stack[v]) = depth[Scope[v]]

\* m_running says whether a block has an activation.
RunningMatchesActivations == \A b \in Blocks : m_running[b] <=> depth[b] > 0

\* The activations in the stack st that have a call frame.
CallFrames(st) == {i \in 1..Len(st) : st[i].kind \in {"call", "ret"} /\ st[i].old}

\* The call frames of ExecutionEnvironment are those of the direct calls in
\* progress, and never exceed the limit.
BacktraceMatchesCalls ==
  backtrace = Cardinality(CallFrames(stack)) /\ backtrace <= Limit

\* The live instances of a variable, as a program sees them.
Instances(v) ==
  CASE Scope[v] \in Blocks ->
         IF m_running[Scope[v]] THEN Append(m_recurse_stack[v], m_value[v]) ELSE <<>>
    [] Scope[v] \in (Functions \cup Builtins) \ Undefined ->
         IF m_recurse_stack[v] = <<>> THEN <<>> ELSE Append(Tail(m_recurse_stack[v]), m_value[v])
    [] OTHER -> <<>>

frames == [v \in Vars |-> Instances(v)]

Frames == INSTANCE FrameStack WITH env <- frames

\* Recursion works: the interpreter with its single m_value per variable
\* implements the variables of FrameStack, one instance per activation.
ImplementsFrames == Frames!Spec

\* A call through a function pointer calls the function the pointer had when
\* the call began, whatever the evaluation of its parameters does.
PointerCallsItsFunction ==
  \A i \in 1..Len(stack) : stack[i].kind \in {"call", "ret"} => stack[i].id = stack[i].want
=============================================================================
