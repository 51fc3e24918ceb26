------------------------------ MODULE YCPScopes ------------------------------
(***************************************************************************)
(* Symbols while a file is parsed: the hash table with its chains of       *)
(* colliding, shadowed and overloaded entries (SymbolTable.cc), the blocks *)
(* that own the entries (YBlock.cc), and what the productions of parser.yy *)
(* that declare something or open a scope do to both.                      *)
(*                                                                         *)
(* An entry of a table is a number; e[i] is the entry and its links, 0 a   *)
(* null pointer.  syntax is the parser's own stack: the constructs that    *)
(* are open, with the productions' "$1.t # 0".                             *)
(***************************************************************************)
EXTENDS Naturals, Sequences, SequencesExt, FiniteSets

CONSTANTS
  Names,        \* identifiers
  Modules,      \* names of modules, which may be identifiers as well
  Files,        \* files to include
  Hash,         \* [Names \cup Modules -> buckets]
  ParamErrors,  \* what may be wrong with the parameters of a function
  MaxDepth,     \* bound: open constructs
  MaxEntries    \* bound: entries ever made

VARIABLES e, head, stack, syntax, scanners, status

vars == <<e, head, stack, syntax, scanners, status>>

Buckets == {Hash[n] : n \in Names \cup Modules}
Tables == {"local", "global"}

-----------------------------------------------------------------------------
(* SymbolTable.  T == [e, head, hung].                                     *)

TableEntry(key, ns, cat, global) ==
  [key |-> key, ns |-> ns, category |-> cat, global |-> global, table |-> "none", declared |-> FALSE,
   prev |-> 0, next |-> 0, outer |-> 0, overloaded_next |-> 0, overloaded_prev |-> 0]

RECURSIVE Chain(_, _)
Chain(es, i) == IF i = 0 THEN <<>> ELSE <<i>> \o Chain(es, es[i].next)
RECURSIVE LastOverloaded(_, _)
LastOverloaded(es, i) == IF es[i].overloaded_next = 0 THEN i ELSE LastOverloaded(es, es[i].overloaded_next)

(* es with field f of entry i set to v, for the null pointer nothing.      *)
Link(es, i, f, v) == IF i = 0 THEN es ELSE [es EXCEPT ![i][f] = v]

(* The same name of another namespace is shadowed: the new entry takes its *)
(* place in the chain.                                                     *)
InPlace(es, i, b) ==
  [es EXCEPT ![i].outer = b, ![i].prev = es[b].prev, ![i].next = es[b].next, ![b].prev = 0, ![b].next = 0]
ShadowNoPrev(T, t, i, bucket) ==   \* mutant: the successor still points back to the shadowed entry
  [T EXCEPT !.e = Link(InPlace(T.e, i, bucket), T.e[bucket].prev, "next", i),
            !.head[t][Hash[T.e[i].key]] = IF T.e[bucket].prev = 0 THEN i ELSE @]
Shadow(T, t, i, bucket) ==
  [T EXCEPT !.e = Link(Link(InPlace(T.e, i, bucket), T.e[bucket].prev, "next", i), T.e[bucket].next, "prev", i),
            !.head[t][Hash[T.e[i].key]] = IF T.e[bucket].prev = 0 THEN i ELSE @]

Overload(T, last, i) == [T EXCEPT !.e[last].overloaded_next = i, !.e[i].overloaded_prev = last]
Beside(T, t, i, b) ==
  IF T.e[b].ns = T.e[i].ns /\ T.e[b].category = T.e[i].category THEN Overload(T, LastOverloaded(T.e, b), i)
  ELSE Shadow(T, t, i, b)
EnterChain(T, t, i, chain) ==
  CASE chain = <<>> -> [T EXCEPT !.head[t][Hash[T.e[i].key]] = i]
    [] \E k \in DOMAIN chain : T.e[chain[k]].key = T.e[i].key ->
         Beside(T, t, i, chain[CHOOSE k \in DOMAIN chain : T.e[chain[k]].key = T.e[i].key])
    [] OTHER -> [T EXCEPT !.e[Last(chain)].next = i, !.e[i].prev = Last(chain)]
enter(T, t, i) == EnterChain([T EXCEPT !.e[i].table = t], t, i, Chain(T.e, T.head[t][Hash[T.e[i].key]]))

RECURSIVE FindFrom(_, _, _, _)
FindFrom(es, i, key, category) ==
  CASE i = 0 -> 0
    [] i # 0 /\ es[i].key # key -> FindFrom(es, es[i].next, key, category)
    [] i # 0 /\ es[i].key = key /\ category \in {"any", es[i].category} -> i
    [] OTHER -> FindFrom(es, es[i].outer, key, category)
find(t, key, category) == FindFrom(e, head[t][Hash[key]], key, category)

(* Taking an entry out that is itself shadowed: the search for the entry   *)
(* that shadows it looks at the first one of the chain only, again and     *)
(* again.                                                                  *)
FixShadow(T, first, i) ==
  CASE first = 0 -> T
    [] first # 0 /\ T.e[first].outer = i -> [T EXCEPT !.e[first].outer = T.e[i].outer]
    [] OTHER -> [T EXCEPT !.hung = TRUE]

Uncover(es, x) == Link([es EXCEPT ![x.outer].prev = x.prev, ![x.outer].next = x.next], x.next, "prev", x.outer)
UnlinkedAt(T, t, i, x, h) ==
  CASE x.outer # 0 /\ x.prev # 0 -> [T EXCEPT !.e = Link(Uncover(@, x), x.prev, "next", x.outer)]
    [] x.outer # 0 /\ x.prev = 0 /\ T.head[t][h] = i -> [T EXCEPT !.e = Uncover(@, x), !.head[t][h] = x.outer]
    [] x.outer # 0 /\ x.prev = 0 /\ T.head[t][h] # i -> FixShadow([T EXCEPT !.e = Uncover(@, x)], T.head[t][h], i)
    [] x.outer = 0 /\ x.prev # 0 ->
         [T EXCEPT !.e = Link(Link(@, x.prev, "next", x.next), x.next, "prev", x.prev)]
    [] x.outer = 0 /\ x.prev = 0 /\ T.head[t][h] = i -> [T EXCEPT !.e = Link(@, x.next, "prev", 0), !.head[t][h] = x.next]
    [] OTHER -> FixShadow(T, T.head[t][h], i)
Unlinked(T, t, i) == UnlinkedAt(T, t, i, T.e[i], Hash[T.e[i].key])
Deleted(T, i) == [T EXCEPT !.e[i] = [TableEntry(T.e[i].key, 0, "unspec", FALSE) EXCEPT !.table = "deleted"]]
remove(T, t, i) == Deleted(Unlinked(T, t, i), i)

-----------------------------------------------------------------------------
(* YBlock.  S == [e, head, hung, stack, scanners]; the top of the stack is *)
(* its last element.                                                       *)

Block(ns, kind) == [ns |-> ns, kind |-> kind, includeDepth |-> 0, env |-> <<>>, names |-> {}, includes |-> {}]
State == [e |-> e, head |-> head, hung |-> FALSE, stack |-> stack, scanners |-> scanners]
Top(S) == Last(S.stack)
NewId(S) == Len(S.e) + 1

(* A name that the block's namespace has already gives no entry (0).       *)
newEntry(S, name, cat, global) ==
  IF name \in Top(S).names THEN [S |-> S, i |-> 0]
  ELSE [S |-> [S EXCEPT !.e = Append(@, TableEntry(name, Top(S).ns, cat, global)),
                        !.stack[Len(S.stack)].names = @ \cup {name}, !.stack[Len(S.stack)].env = Append(@, NewId(S))],
        i |-> NewId(S)]
Entered(n, table) == IF n.i = 0 THEN n ELSE [n EXCEPT !.S = enter(@, table, n.i)]
Declare(S, name, cat, table, global) == Entered(newEntry(S, name, cat, global), table)

detachEnvironment(S, block) ==
  FoldLeft(LAMBDA U, i : IF U.e[i].table = "local" THEN remove(U, "local", i) ELSE U, S, block.env)

(* blockstack_pop and the detachEnvironment that follows.                  *)
PopBlock(S) == detachEnvironment([S EXCEPT !.stack = Front(@)], Top(S))

(* The first block of an included file is the including block.             *)
StartsInclude(S) == S.scanners # <<>> /\ Last(S.scanners).state = "SCAN_START_INCLUDE"
InsideInclude(S) == IF StartsInclude(S) THEN [S EXCEPT !.scanners[Len(S.scanners)].state = "SCAN_INCLUDE"] ELSE S
start_block(S, ns, kind) ==
  IF StartsInclude(S) THEN [InsideInclude(S) EXCEPT !.stack[Len(S.stack)].includeDepth = @ + 1]
  ELSE [S EXCEPT !.stack = Append(@, Block(ns, kind))]
block_end(S) ==
  IF Top(S).includeDepth = 0 THEN PopBlock(S)
  ELSE [S EXCEPT !.stack[Len(S.stack)].includeDepth = @ - 1]

-----------------------------------------------------------------------------
(* A namespace is numbered by the entries and constructs before it.        *)
Ns == 1 + Len(e) * (MaxDepth + MaxEntries + 1) + Len(stack)
Construct(rule, ok, fn) == [rule |-> rule, ok |-> ok, fn |-> fn]
blockstack_at_toplevel == Len(stack) = 1

Become(S) ==
  /\ e' = S.e /\ head' = S.head /\ stack' = S.stack /\ scanners' = S.scanners
  /\ status' = IF S.hung THEN "hung" ELSE status

(* An error is reported and counted, and parsing goes on.                  *)
Error(S) == S

Parsing == status = "parsing" /\ syntax # <<>>
InStatements == Parsing /\ Last(syntax).rule = "block"
Room(n) == Len(e) + n <= MaxEntries

Init ==
  /\ e = <<>> /\ head = [t \in Tables |-> [h \in Buckets |-> 0]] /\ status = "parsing"
  /\ stack = <<Block(1, "file")>> /\ syntax = <<Construct("block", TRUE, 0)>> /\ scanners = <<>>

(* { : a block as a statement, the body of a function, or a parameter.     *)
StartBlock ==
  /\ Parsing /\ Len(syntax) < MaxDepth
  /\ Become(start_block(State, Ns, "block")) /\ syntax' = Append(syntax, Construct("block", TRUE, 0))

(* } ends a block, and the function whose body it is.                      *)
EndOf(S, f) ==
  IF f.rule # "function" THEN Become(S) /\ syntax' = Front(syntax)
  ELSE /\ syntax' = Front(Front(syntax))
       /\ Become(IF f.ok THEN [PopBlock(S) EXCEPT !.e[f.fn].declared = FALSE] ELSE S)
EndBlock ==
  /\ InStatements /\ (scanners # <<>> => Last(scanners).depth < Len(syntax))
  /\ stack # <<>>
  /\ EndOf(block_end(State), IF Len(syntax) > 1 THEN syntax[Len(syntax) - 1] ELSE Construct("none", FALSE, 0))

(* module "name";                                                          *)
Module(m) ==
  /\ InStatements /\ Room(1) /\ m \in Modules
  /\ IF ~blockstack_at_toplevel \/ Last(stack).kind = "module" THEN Become(Error(State))
     ELSE Become(enter([State EXCEPT !.stack[1].kind = "module",
                                     !.e = Append(@, TableEntry(m, 0, "self", FALSE))], "local", NewId(State)))
  /\ UNCHANGED syntax

(* include "file"; a file that is not there is an error.                   *)
Include(f) ==
  /\ InStatements /\ Len(scanners) < 1
  /\ \/ f \in Last(stack).includes /\ Become(State)
     \/ f \notin Last(stack).includes /\ Become(Error(State))
     \/ /\ f \notin Last(stack).includes
        /\ Become([State EXCEPT !.stack[Len(stack)].includes = @ \cup {f},
                                !.scanners = Append(@, [state |-> "SCAN_START_INCLUDE", depth |-> Len(syntax)])])
  /\ UNCHANGED syntax

(* The end of an included file (yylex).                                    *)
EndOfFile ==
  /\ Parsing /\ scanners # <<>> /\ Last(scanners).depth = Len(syntax)
  /\ Become([State EXCEPT !.scanners = Front(@)]) /\ UNCHANGED syntax

(* import "module"; newNamespace uses the entry before the parser checks   *)
(* whether there is one.                                                   *)
newNamespace(d) ==
  \/ d.i # 0 /\ Become(d.S)
  \/ d.i = 0 /\ status' = "crashed" /\ UNCHANGED <<e, head, stack, scanners>>
Import(m) ==
  /\ InStatements /\ Room(1) /\ m \in Modules /\ find("local", m, "module") = 0
  /\ Become(Error(State)) \/ newNamespace(Declare(State, m, "module", "local", FALSE))
  /\ UNCHANGED syntax

(* What the scanner finds for a name.                                      *)
Lookup(n) == LET i == find("local", n, "any") IN IF i # 0 THEN i ELSE find("global", n, "any")
Known(n) == Lookup(n) # 0 /\ e[Lookup(n)].category \notin {"module", "self"}
IsType(n) == Lookup(n) # 0 /\ e[Lookup(n)].category = "typedef"

Declared(d) == IF d.i = 0 THEN Error(State) ELSE d.S

(* typedef type name;                                                      *)
Typedef(n) ==
  /\ InStatements /\ Room(1) /\ ~IsType(n)
  /\ Become(IF Known(n) THEN Error(State) ELSE Declared(Declare(State, n, "typedef", "local", FALSE)))
  /\ UNCHANGED syntax

(* [global] type name: gives the entry, or i = 0 for a name that cannot be *)
(* declared here.  A function that is only declared may be declared again. *)
opt_global(S, global) ==
  [global |-> global /\ blockstack_at_toplevel /\ Last(stack).kind = "module",
   S |-> IF global /\ ~blockstack_at_toplevel THEN Error(S) ELSE S]
IdentifierAt(n, i, g) ==
  CASE i = 0 \/ e[i].category \in {"module", "self"} \/ (~e[i].declared /\ ~g.global /\ (e[i].global \/ e[i].ns # Last(stack).ns)) ->
         Declare(g.S, n, "unspec", IF g.global THEN "global" ELSE "local", g.global)
    [] i # 0 /\ e[i].declared /\ g.global = e[i].global -> [S |-> g.S, i |-> i]
    [] OTHER -> [S |-> Error(g.S), i |-> 0]
opt_global_identifier(n, isglobal) == IdentifierAt(n, Lookup(n), opt_global(State, isglobal))

(* type name = expression; the expression may be wrong.                    *)
Variable(d, ok) ==
  CASE d.i = 0 -> d.S
    [] d.i # 0 /\ (~ok \/ d.S.e[d.i].category = "function") -> Error(d.S)
    [] OTHER -> [d.S EXCEPT !.e[d.i].category = IF @ = "unspec" THEN "variable" ELSE @]
DefineVariable(n, isglobal, ok) ==
  /\ InStatements /\ Room(1) /\ ~IsType(n)
  /\ Become(Variable(opt_global_identifier(n, isglobal), ok)) /\ UNCHANGED syntax

(* type name (parameters): the parameters get a block of their own, which  *)
(* is closed again when they are wrong: a duplicate, or not those of the   *)
(* declaration.  "any": a reference to any, after which it stays open.     *)
Parameter(a, q) == IF q.i # 0 THEN [S |-> q.S, ok |-> TRUE] ELSE [S |-> PopBlock(Error(a.S)), ok |-> FALSE]
formal_params(S, ps) ==
  FoldLeft(LAMBDA a, p : IF a.ok THEN Parameter(a, Declare(a.S, p, "variable", "local", FALSE)) ELSE a, [S |-> S, ok |-> TRUE], ps)
Function(S, i) == [S EXCEPT !.e[i].category = "function", !.e[i].declared = TRUE]
NotFunction(S, i) == [S |-> [S EXCEPT !.e[i].category = "unspec", !.e[i].declared = FALSE], ok |-> FALSE, i |-> i]
Checked(all, i, wrong) ==
  CASE ~all.ok -> NotFunction(all.S, i)
    [] all.ok /\ wrong = "mismatch" /\ i \in DOMAIN e -> NotFunction(PopBlock(Error(all.S)), i)
    [] OTHER -> [S |-> all.S, ok |-> TRUE, i |-> i]
Opened(S, i, ps, wrong) ==
  IF wrong = "any" THEN NotFunction(Error(S), i) ELSE Checked(formal_params(Function(S, i), ps), i, wrong)
function_start(d, ps, wrong) ==
  IF d.i = 0 THEN [S |-> d.S, ok |-> FALSE, i |-> 0]
  ELSE Opened(start_block(InsideInclude(d.S), Ns, "parameters"), d.i, ps, wrong)
FunctionStarted(f) == Become(f.S) /\ syntax' = Append(syntax, Construct("function", f.ok, f.i))
FunctionStart(n, isglobal, ps, wrong) ==
  /\ InStatements /\ Room(1 + Len(ps)) /\ ~IsType(n) /\ Len(syntax) + 1 < MaxDepth
  /\ FunctionStarted(function_start(opt_global_identifier(n, isglobal), ps, wrong))

(* ; after it: only a declaration.                                         *)
FunctionDeclaration ==
  /\ Parsing /\ Last(syntax).rule = "function"
  /\ Become(IF Last(syntax).ok THEN PopBlock(State) ELSE State)
  /\ syntax' = Front(syntax)

(* A call of a builtin that may take symbols, like foreach (type name, ..) *)
StartCall ==
  /\ InStatements /\ Len(syntax) < MaxDepth
  /\ Become(start_block(InsideInclude(State), Ns, "symbols")) /\ syntax' = Append(syntax, Construct("call", TRUE, 0))
attachSymVariable(n) ==
  /\ Parsing /\ Last(syntax).rule = "call" /\ Room(1)
  /\ Become(Declared(Declare(State, n, "variable", "local", FALSE)))
  /\ UNCHANGED syntax
EndCall ==
  /\ Parsing /\ Last(syntax).rule = "call" /\ Become(PopBlock(State)) /\ syntax' = Front(syntax)

Next ==
  \/ StartBlock \/ EndBlock \/ EndOfFile \/ FunctionDeclaration \/ StartCall \/ EndCall
  \/ \E m \in Modules : Module(m) \/ Import(m)
  \/ \E f \in Files : Include(f)
  \/ \E n \in Names :
       \/ Typedef(n) \/ attachSymVariable(n)
       \/ \E g, ok \in BOOLEAN : DefineVariable(n, g, ok)
       \/ \E g \in BOOLEAN, ps \in BoundedSeq(Names, 2), wrong \in ParamErrors \cup {"none"} : FunctionStart(n, g, ps, wrong)

Spec == Init /\ [][Next]_vars

-----------------------------------------------------------------------------
(* The entry of the innermost open block that declares a name.             *)
LastDeclared(n) == CHOOSE i \in DOMAIN e : e[i].key = n /\ e[i].table = "local" /\ \A j \in DOMAIN e : e[j].key = n /\ e[j].table = "local" => j <= i
Innermost(n) ==
  LET at == {b \in DOMAIN stack : \E k \in DOMAIN stack[b].env : e[stack[b].env[k]].key = n /\ e[stack[b].env[k]].table = "local"}
      b == CHOOSE x \in at : \A y \in at : y <= x
      self == {i \in DOMAIN e : e[i].key = n /\ e[i].category = "self" /\ e[i].table = "local"}
  IN  IF at \ {1} = {} /\ self # {} /\ (at = {} \/ LastDeclared(n) \in self) THEN CHOOSE i \in self : TRUE
      ELSE IF at = {} THEN 0 ELSE CHOOSE i \in Range(stack[b].env) : e[i].key = n /\ e[i].table = "local"

(* Looking a name up gives the declaration of the innermost open block,    *)
(* whatever was shadowed, collided or was removed in between.              *)
LookupIsInnermost == \A n \in Names \cup Modules : find("local", n, "any") = Innermost(n)

RECURSIVE Outer(_)
Outer(i) == IF i = 0 THEN <<>> ELSE <<i>> \o Outer(e[i].outer)
Reached(c) == FlattenSeq([j \in DOMAIN c |-> Outer(c[j])])
ColumnIsSound(t, h, r) ==
  /\ Range(r) = {i \in DOMAIN e : e[i].table = t /\ Hash[e[i].key] = h} /\ IsInjective(r)
  /\ \A i \in Range(r) : e[i].next # 0 => e[e[i].next].prev = i

(* The links are sound: every entry of a table is reached exactly once,    *)
(* over the chain of its bucket and the entries that shadow it, no deleted *)
(* entry is, and going back undoes going on.                               *)
ChainsAreSound == \A t \in Tables, h \in Buckets : ColumnIsSound(t, h, Reached(Chain(e, head[t][h])))

(* Removing entries in the order in which blocks end never meets one that  *)
(* is still shadowed, for which SymbolTable::remove would not return.      *)
RemoveReturns == status # "hung"

Opens(c) == c.rule \in {"block", "call"} \/ (c.rule = "function" /\ c.ok)

(* "start parameter block before parameter checking, it's popped in any    *)
(* case": there is one open block for every construct that is being        *)
(* parsed, less those that are the including block.                        *)
EveryScopeIsClosed ==
  Len(stack) + FoldLeft(LAMBDA s, b : s + b.includeDepth, 0, stack) = Len(SelectSeq(syntax, Opens))

=============================================================================
