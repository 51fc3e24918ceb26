-------------------------------- MODULE MCYCP --------------------------------
(***************************************************************************)
(* The YCP language for TLC: the laws of values, types and expressions,    *)
(* how values are held, the parser's scopes, the reader of compiled files  *)
(* and the debugger.  An initial state chooses one of them, part, and only *)
(* that one moves.  s1 to s10 are its variables.                           *)
(***************************************************************************)
EXTENDS YCPLaws, MCPrograms

CONSTANTS handle1, handle2   \* two variables that hold values

VARIABLES s1, s2, s3, s4, s5, s6, s7, s8, s9, s10

state == <<s1, s2, s3, s4, s5, s6, s7, s8, s9, s10>>
last == <<s8, s9, s10>>
vars == <<part, x, state>>

Scopes == INSTANCE YCPScopes WITH
  Names <- {"a", "b"}, Modules <- {"a"}, Files <- {"f"}, Hash <- [n \in {"a", "b"} |-> 1], ParamErrors <- {"mismatch"},
  MaxDepth <- 3, MaxEntries <- 3,
  e <- s1, head <- s2, stack <- s3, syntax <- s4, scanners <- s5, status <- s6
Compiled == INSTANCE Bytecode WITH
  Programs <- MCPrograms, Clients <- {"C", "D"}, MaxLoads <- 3,
  disk <- s1, stack <- s2, tare <- s3, active <- s4, cache <- s5, xrefs <- s6, loads <- s7
(* Lists with up to two elements, and maps and terms with one.             *)
HeldLists == INSTANCE YCPElements WITH
  Vars <- {handle1, handle2}, Kinds <- {"integer", "list"}, MaxReps <- 7, MaxSize <- 2,
  rep <- s1, element <- s2, shows <- s3
HeldMapsAndTerms == INSTANCE YCPElements WITH
  Vars <- {handle1, handle2}, Kinds <- {"integer", "map", "term"}, MaxReps <- 7, MaxSize <- 1,
  rep <- s1, element <- s2, shows <- s3
Symmetry == Permutations({handle1, handle2})
(* A client that calls f, which calls g; an if in it and in f calls g and  *)
(* returns.                                                                *)
Stmt(k) == [kind |-> k, block |-> ""]
Block(body) == [kind |-> "evaluate", block |-> body]
MCBody == [
  main |-> <<Stmt("function"), Stmt("plain"), Block("f"), Block("if"), Stmt("plain")>>,
  f |-> <<Stmt("plain"), Block("g"), Block("if"), Stmt("plain")>>,
  g |-> <<Stmt("function"), Stmt("plain"), Stmt("plain")>>,
  if |-> <<Block("g"), Stmt("return"), Stmt("plain")>>]
Debugged == INSTANCE Debugger WITH
  Body <- MCBody, Functions <- {"f", "g"}, Main <- "main",
  stack <- s1, pc <- s2, returning <- s3, m_tracing <- s4, m_last_command <- s5, m_blockstack <- s6,
  connected <- s7, breakpoint <- s8, asked <- s9, stopped <- s10

Init ==
  /\ \/ LawInit /\ s1 = 0 /\ s2 = 0 /\ s3 = 0 /\ s4 = 0 /\ s5 = 0 /\ s6 = 0 /\ s7 = 0
     \/ part = "scopes" /\ x = 0 /\ Scopes!Init /\ s7 = 0
     \/ part = "bytecode" /\ x = 0 /\ Compiled!Init
     \/ part = "held lists" /\ x = 0 /\ HeldLists!Init /\ s4 = 0 /\ s5 = 0 /\ s6 = 0 /\ s7 = 0
     \/ part = "held maps" /\ x = 0 /\ HeldMapsAndTerms!Init /\ s4 = 0 /\ s5 = 0 /\ s6 = 0 /\ s7 = 0
     \/ part = "debugger" /\ x = 0 /\ Debugged!Init
  /\ part # "debugger" => s8 = 0 /\ s9 = 0 /\ s10 = 0

Next ==
  \/ Evaluate /\ UNCHANGED state
  \/ part = "scopes" /\ Scopes!Next /\ UNCHANGED <<part, x, s7, last>>
  \/ part = "bytecode" /\ Compiled!Next /\ UNCHANGED <<part, x, last>>
  \/ part = "held lists" /\ HeldLists!Next /\ UNCHANGED <<part, x, s4, s5, s6, s7, last>>
  \/ part = "held maps" /\ HeldMapsAndTerms!Next /\ UNCHANGED <<part, x, s4, s5, s6, s7, last>>
  \/ part = "debugger" /\ Debugged!Next /\ UNCHANGED <<part, x>>
Spec == Init /\ [][Next]_vars

-----------------------------------------------------------------------------
(* The scopes of the parser: a name gives the declaration of the innermost *)
(* open block (SymbolTable::find under enter and remove); the chains of    *)
(* equal hashes and of shadowed entries stay sound; remove never meets an  *)
(* entry that is still shadowed, for which its loop would not end; and the *)
(* parser closes every block it opens, also after errors and at the end of *)
(* included files.                                                         *)
ScopesAreSound ==
  part = "scopes" =>
    Scopes!RemoveReturns /\ Scopes!EveryScopeIsClosed /\ Scopes!LookupIsInnermost /\ Scopes!ChainsAreSound

(* A compiled client, while no load failed, and a compiled module, always, *)
(* is read as the program it was (Bytecode::readEntry, readModule and the  *)
(* stack of namespaces); and loads that succeed leave no namespace and no  *)
(* list of references open.                                                *)
CompiledReadsAsWritten ==
  part = "bytecode" =>
    Compiled!ModulesReadAsWritten /\ Compiled!ClientsReadAsWritten /\ Compiled!SuccessLeavesNothingOpen

(* Values are held soundly: a change through one handle to a list, a map   *)
(* or a term is never seen through another, however they share             *)
(* representations (writeCopy, shallowCopy, YSBracket::commit), and every  *)
(* representation counts exactly the handles to it (clone, destroy).       *)
HandlesShowTheirOwn ==
  /\ part = "held lists" => HeldLists!HandlesShowTheirOwn /\ HeldLists!CountersAreExact
  /\ part = "held maps" => HeldMapsAndTerms!HandlesShowTheirOwn /\ HeldMapsAndTerms!CountersAreExact

(* The debugger stops the program where it was asked to and nowhere else,  *)
(* also when a breakpoint is hit while it steps over a call, and looks for *)
(* variables in the blocks that are evaluated (YBlock::evaluate,           *)
(* YBreakpoint::evaluate, Debugger::processInput).                         *)
DebuggerStops == part = "debugger" => Debugged!DebuggerStops
=============================================================================
