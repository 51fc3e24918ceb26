----------------------------- MODULE WFMHandles -----------------------------
(***************************************************************************)
(* The workflow manager (wfm): the SCR instances a script opens, closes    *)
(* and makes the default, the SCR agent the builtins of SCR:: use, the     *)
(* namespaces imported as System::X, whose functions run here or in the    *)
(* process of the default SCR, and the arguments of nested clients.        *)
(*                                                                         *)
(* An SCR is remote if its component is another process, which then has a  *)
(* StdioSCRAgent here; else its agent is in this process.  A handle that a *)
(* script passes is one that SCROpen has returned, an error included.      *)
(***************************************************************************)
EXTENDS Integers, Sequences, SequencesExt

CONSTANTS
  Arguments,      \* argument lists of clients
  MaxHandles,     \* bound: calls of SCROpen
  MaxNamespaces,  \* bound: imports of System:: namespaces
  MaxFunctions,   \* bound: function calls per namespace
  MaxClients      \* bound: nested clients

ASSUME WFMAssumption ==
  MaxHandles \in Nat /\ MaxNamespaces \in Nat /\ MaxFunctions \in Nat /\ MaxClients \in Nat

VARIABLES
  scrs,               \* the open SCR instances: handle, and whether the component is remote
  handle_cnt,
  default_handle,
  current_scr,        \* SCRAgent::current_scr: the handle of its owner
  local_started,      \* the agent for .local is there
  system_namespaces,  \* where each sends its calls, and where each of its functions does
  argumentlist,       \* what Args () returns
  clients             \* the clients that run: their arguments and the old arguments

vars == <<scrs, handle_cnt, default_handle, current_scr, local_started, system_namespaces,
          argumentlist, clients>>

LocalAgent == -1      \* the handle of .local
NoSCR == -2           \* current_scr = 0
Local == -1           \* calls are not sent to another process
Errors == {-1, -2}    \* what SCROpen returns when it fails
Handles == Errors \cup Nat

WFMSubAgent == [handle : Nat, remote : BOOLEAN]
Y2SystemNamespace == [target : Nat \cup {Local}, functions : Seq(Nat \cup {Local})]
Client == [args : Arguments, old : Arguments]

-----------------------------------------------------------------------------
(* SCR instances.                                                          *)

\* std::lower_bound: the first instance whose handle is not below h
LowerBound(h) ==
  CHOOSE i \in 1..(Len(scrs) + 1) :
    /\ \A j \in 1..(i - 1) : scrs[j].handle < h
    /\ i <= Len(scrs) => scrs[i].handle >= h

\* The index of the instance, 0 for scrs.end ().
find_handle(h) ==
  LET i == LowerBound(h) IN
  IF i <= Len(scrs) /\ scrs[i].handle = h THEN i ELSE 0

\* The constructor and the destructor of SCRAgent.
Constructed(h) == IF current_scr = NoSCR THEN h ELSE current_scr
Destroyed(h) == IF current_scr = h THEN NoSCR ELSE current_scr

\* Y2WFMComponent and createDefaultSCR, when scr can be created
Init ==
  /\ scrs = <<[handle |-> 0, remote |-> FALSE]>> /\ handle_cnt = 1
  /\ default_handle = 0 /\ current_scr = 0 /\ local_started = FALSE
  /\ system_namespaces = <<>>
  /\ argumentlist \in Arguments /\ clients = <<>>

\* mutants: handles of closed instances are used again; the instance is put first
NextFree == Len(scrs)
PushFront(s) == <<s>> \o scrs

NewHandle == handle_cnt
PushBack(s) == Append(scrs, s)

\* The instance is added, or deleted again when it does not start or does not answer
\* or has the wrong version.
SCROpen(remote) ==
  /\ handle_cnt <= MaxHandles
  /\ handle_cnt' = handle_cnt + 1
  /\ \/ /\ scrs' = PushBack([handle |-> NewHandle, remote |-> remote])
        /\ current_scr' = Constructed(NewHandle)
     \/ UNCHANGED <<scrs, current_scr>>
  /\ UNCHANGED <<default_handle, local_started, system_namespaces, argumentlist, clients>>

\* useLocal and useRemote of Y2SystemNamespace and of its functions
Redirected(ns, target) ==
  [target |-> target, functions |-> [f \in 1..Len(ns.functions) |-> target]]
Redirect(target) ==
  system_namespaces' = [n \in 1..Len(system_namespaces) |-> Redirected(system_namespaces[n], target)]

SCRClose(h) ==
  /\ find_handle(h) # 0
  /\ IF h = default_handle THEN default_handle' = -1 /\ Redirect(Local)
     ELSE UNCHANGED <<default_handle, system_namespaces>>
  /\ scrs' = RemoveAt(scrs, find_handle(h)) /\ current_scr' = Destroyed(h)
  /\ UNCHANGED <<handle_cnt, local_started, argumentlist, clients>>

\* mutant: only the namespaces are switched
KeepCurrent(h) == current_scr
setAsCurrentSCR(h) == h

\* The default handle is set before it is looked up.
SCRSetDefault(h) ==
  /\ default_handle' = h
  /\ IF find_handle(h) = 0 THEN UNCHANGED <<current_scr, system_namespaces>>
     ELSE /\ current_scr' = setAsCurrentSCR(h)
          /\ Redirect(IF scrs[find_handle(h)].remote THEN h ELSE Local)
  /\ UNCHANGED <<scrs, handle_cnt, local_started, argumentlist, clients>>

\* Read, Write and Execute of .local paths start its agent; it is never deleted.
LocalCommand ==
  /\ local_started' = TRUE
  /\ current_scr' = IF local_started THEN current_scr ELSE Constructed(LocalAgent)
  /\ UNCHANGED <<scrs, handle_cnt, default_handle, system_namespaces, argumentlist, clients>>

-----------------------------------------------------------------------------
(* System namespaces.                                                      *)

\* import of System::X: a new namespace each time, and a local one
import ==
  /\ Len(system_namespaces) < MaxNamespaces
  /\ system_namespaces' = Append(system_namespaces, [target |-> Local, functions |-> <<>>])
  /\ UNCHANGED <<scrs, handle_cnt, default_handle, current_scr, local_started, argumentlist, clients>>

\* mutant: a function that is created after the redirection is local
AlwaysLocal(n) == Local
NewFunction(n) == system_namespaces[n].target

createFunctionCall(n) ==
  /\ Len(system_namespaces[n].functions) < MaxFunctions
  /\ system_namespaces' = [system_namespaces EXCEPT ![n].functions = Append(@, NewFunction(n))]
  /\ UNCHANGED <<scrs, handle_cnt, default_handle, current_scr, local_started, argumentlist, clients>>

-----------------------------------------------------------------------------
(* Clients: one component runs them all, one within the other.             *)

CallFunction(args) ==
  /\ Len(clients) < MaxClients
  /\ clients' = Append(clients, [args |-> args, old |-> argumentlist])
  /\ argumentlist' = args
  /\ UNCHANGED <<scrs, handle_cnt, default_handle, current_scr, local_started, system_namespaces>>

\* mutant: the arguments are left behind
NotRestored == argumentlist
Restored == Last(clients).old

\* doActualWork, after the script
Return ==
  /\ clients # <<>>
  /\ argumentlist' = Restored
  /\ clients' = SubSeq(clients, 1, Len(clients) - 1)
  /\ UNCHANGED <<scrs, handle_cnt, default_handle, current_scr, local_started, system_namespaces>>

Next ==
  \/ \E remote \in BOOLEAN : SCROpen(remote)
  \/ \E h \in Errors \cup 0..(handle_cnt - 1) : SCRClose(h) \/ SCRSetDefault(h)
  \/ LocalCommand
  \/ import \/ \E n \in 1..Len(system_namespaces) : createFunctionCall(n)
  \/ (\E args \in Arguments : CallFunction(args)) \/ Return

Spec == Init /\ [][Next]_vars
-----------------------------------------------------------------------------
(* Properties.                                                             *)

\* The types of the variables.
TypeOK ==
  /\ scrs \in Seq(WFMSubAgent)
  /\ handle_cnt \in Nat
  /\ default_handle \in Handles /\ current_scr \in Handles
  /\ local_started \in BOOLEAN
  /\ system_namespaces \in Seq(Y2SystemNamespace)
  /\ argumentlist \in Arguments /\ clients \in Seq(Client)

IsOpen(h) == \E i \in 1..Len(scrs) : scrs[i].handle = h
IsRemote(h) == \E i \in 1..Len(scrs) : scrs[i].handle = h /\ scrs[i].remote

\* find_handle's binary search finds every open instance, whatever was opened and
\* closed before: the handles are in ascending order.
EveryHandleIsFound ==
  \A i \in 1..Len(scrs) : find_handle(scrs[i].handle) = i

\* A handle that was closed, or that a failed SCROpen has used up, never denotes
\* another instance later: a script that kept it cannot close the wrong one.
HandlesAreNotReused ==
  [][\A h \in 0..(handle_cnt - 1) : ~IsOpen(h) => ~IsOpen(h)']_vars

\* "SCR::Read (...); // use default handle" (wfm/doc/many-scr.txt) holds as long as
\* the default handle is open: neither closing other instances nor the agents
\* constructed meanwhile change the agent that SCR:: uses.
SCRUsesDefault == IsOpen(default_handle) => current_scr = default_handle

\* SCR:: never uses an agent that was deleted.
CurrentIsAlive ==
  current_scr = NoSCR \/ IsOpen(current_scr) \/ (current_scr = LocalAgent /\ local_started)

\* SCR:: uses the instance of the default handle while that is open, and never an
\* agent that was deleted (SCRAgent's constructor and destructor, SCROpen, SCRClose,
\* SCRSetDefault).
CurrentIsRight == SCRUsesDefault /\ CurrentIsAlive

\* While the default handle is open, the calls of a System:: namespace all go the
\* same way, also those created after SCRSetDefault: here, or to the process of the
\* default SCR, which is then remote.
SystemFollowsDefault ==
  IsOpen(default_handle) =>
    \A n \in 1..Len(system_namespaces) :
      LET ns == system_namespaces[n] IN
      /\ \A f \in 1..Len(ns.functions) : ns.functions[f] = ns.target
      /\ ns.target # Local =>
           ns.target = default_handle /\ IsRemote(default_handle)

\* Args () returns the arguments of the innermost client that runs, also after the
\* clients it called have returned ("to preserve reentrancy").
ArgsOfTheRunningClient == clients # <<>> => argumentlist = Last(clients).args
=============================================================================
