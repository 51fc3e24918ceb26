---------------------------- MODULE MCProcesses ----------------------------
(***************************************************************************)
(* What starts, runs and watches processes, for TLC: the process agent     *)
(* (once with two processes that write nothing, once with one that         *)
(* writes), a shell command, the log that all processes write, main of a   *)
(* YaST2 program and the component broker.  An initial state chooses one   *)
(* of them, part; the others stay as they are.                             *)
(***************************************************************************)
EXTENDS Integers, Sequences

VARIABLES
  part,
  nobj, alive, pid, exitStatus, open, buf, processes, wait, down, ret, reuse, owner, life, code, chan, written, delivered,
  parent, log2, child, background, pipe, file, wrote, ran, calls, result,
  dir, data, proc, gzips, said, inLog, tail, buffered, overlap,
  line, y2dir, arg, at, opts, searchList, server, client, sent, given, returned, exit,
  creators, stop_register, namespace_exceptions, loaded, components, leaked, provided, level, program, served, asked

agentVars == <<nobj, alive, pid, exitStatus, open, buf, processes, wait, down, ret, reuse, owner, life, code, chan, written, delivered>>
shellVars == <<parent, log2, child, background, pipe, file, wrote, ran, calls, result>>
logVars == <<dir, data, proc, gzips, said, inLog, tail, buffered, overlap>>
frontendVars == <<line, y2dir, arg, at, opts, searchList, server, client, sent, given, returned, exit>>
brokerVars ==
  <<creators, stop_register, namespace_exceptions, loaded, components, leaked, provided, level, program, served, asked>>
vars == <<part, agentVars, shellVars, logVars, frontendVars, brokerVars>>

Handles == INSTANCE ProcessAgent WITH
  Pids <- {1, 2}, MaxStarts <- 2, ExitCodes <- {0, 1},
  MaxOut <- [s \in {"out", "err"} |-> 0], Job <- [s \in {"out", "err"} |-> 0], PipeCap <- 1
Output == INSTANCE ProcessAgent WITH
  Pids <- {1}, MaxStarts <- 1, ExitCodes <- {0},
  MaxOut <- [s \in {"out", "err"} |-> IF s = "out" THEN 3 ELSE 1], Job <- [s \in {"out", "err"} |-> 0], PipeCap <- 2
Shell == INSTANCE ShellCommand WITH MaxCalls <- 2, MaxLines <- 2, PipeCap <- 1, ExitCodes <- {0, 1, 137}
Logs == INSTANCE Y2Log WITH
  Procs <- {"p1", "p2"}, maxlogsize <- 0, maxlognum <- 3, TailSize <- 2, MaxMessages <- 4, written <- inLog

-----------------------------------------------------------------------------
(* Command lines: every kind of option alone and with its neighbours       *)
Ycp(values) == [i \in DOMAIN values |-> [ycp |-> TRUE, v |-> values[i]]]
Means(words, means) == [words |-> words, means |-> means]
Usual ==
  [log |-> <<>>, exceptions |-> <<>>, debugger |-> <<>>, inc |-> <<>>, mod |-> <<>>,
   client |-> "inst", copts |-> Means(<<>>, <<>>), server |-> "qt", sopts |-> Means(<<>>, <<>>), rest |-> <<>>]
Paths == {<<>>, <<"p1">>, <<"p1", "p2", "HOME">>, <<"p1", "p2", "p1">>}
CommandLines ==
  {[Usual EXCEPT !.log = l, !.exceptions = e, !.debugger = d] :
     l \in {<<>>, <<"-l", "f">>, <<"-c", "f", "--logfile", "g">>}, e \in {<<>>, <<"UI=x", "NS=y">>},
     d \in {<<>>, <<"--debugger">>, <<"--debugger-remote">>, <<"--debugger", "--debugger-remote">>}}
  \cup {[Usual EXCEPT !.inc = i, !.mod = m] : i, m \in Paths}
  \cup {[Usual EXCEPT !.debugger = d, !.copts = c, !.sopts = s, !.rest = r] :
     d \in {<<>>, <<"--debugger">>},
     c \in {Means(<<>>, <<>>), Means(<<"(1)", "(2)">>, Ycp(<<"1", "2">>)),
            Means(<<"(1)", "-s", "-l", "f", "(2)">>, Ycp(<<"1", "3", "2">>)),
            Means(<<"(1)", "-S", "(3)", "-f", "file">>, Ycp(<<"1">>) \o <<[ycp |-> FALSE, v |-> "3"]>> \o Ycp(<<"2", "3">>)),
            Means(<<"-f", "empty">>, <<>>)},
     s \in {Means(<<>>, <<>>), Means(<<"(1)", "-p", "file">>, Ycp(<<"1", "2", "3">>)), Means(<<"-l", "f", "-p", "missing">>, <<>>)},
     r \in {<<>>, <<"-geometry", "(1)">>}}
Main == INSTANCE Frontend WITH
  Lines <- CommandLines, Y2DIR <- {<<>>, <<"d1", "YAST2DIR", "d2">>, <<"d1", "d1">>},
  Files <- [file |-> <<"2", "3">>, empty |-> <<>>], Stdin <- <<"1", "3">>,
  Results <- {[type |-> "null", value |-> 0], [type |-> "integer", value |-> 240], [type |-> "symbol", value |-> "cancel"]}

(* Three levels: a UI plugin whose creator registers itself by force; a    *)
(* plugin ag that can be loaded at level 2 and not at level 1; a program   *)
(* srv at levels 1 and 2, a script that does not parse before one that     *)
(* does.                                                                   *)
Y2cc(isServer, names, namespaces, force, lib) ==
  [kind |-> "builtin", order |-> 0, server |-> isServer, names |-> names, namespaces |-> namespaces, force |-> force, lib |-> lib]
Broker == INSTANCE ComponentBroker WITH
  Levels <- 3, MaxComponents <- 2, MaxCalls <- 6, calls <- asked,
  Plugins <-
    [UI |-> [name |-> "UI", level |-> 2, loads |-> TRUE, y2cc |-> <<Y2cc(TRUE, {"qt"}, {"UI"}, TRUE, "UI")>>],
     ag |-> [name |-> "ag", level |-> 2, loads |-> TRUE,
             y2cc |-> <<Y2cc(TRUE, {"ag"}, {}, FALSE, "ag"), Y2cc(FALSE, {"ag"}, {}, FALSE, "ag")>>],
     stdio |-> [name |-> "stdio", level |-> 1, loads |-> TRUE, y2cc |-> <<Y2cc(TRUE, {"stderr"}, {}, FALSE, "stdio")>>],
     old |-> [name |-> "ag", level |-> 1, loads |-> FALSE, y2cc |-> <<>>]],
  Programs <-
    {[name |-> "srv", level |-> l, server |-> TRUE, own |-> <<Y2cc(TRUE, {"srv"}, {}, FALSE, "main")>>] : l \in {1, 2}},
  Scripts <- {[name |-> "cl", level |-> 0, good |-> FALSE], [name |-> "cl2", level |-> 2, good |-> TRUE]},
  Modules <- {"cl"}, Language <- <<Y2cc(FALSE, {"perl"}, {"perl"}, FALSE, "main")>>,
  Exceptions <- {[namespace |-> "ag", component |-> "srv"]},
  Names <- {"UI", "ag", "srv", "cl", "cl2", "stderr", "qt", "perl"}

-----------------------------------------------------------------------------
NoFrontend ==
  /\ line = "none" /\ y2dir = "none" /\ arg = 0 /\ at = "none" /\ opts = "none" /\ searchList = "none"
  /\ server = "none" /\ client = "none" /\ sent = "none" /\ given = "none" /\ returned = "none" /\ exit = 0
NoBroker ==
  /\ creators = "none" /\ stop_register = FALSE /\ namespace_exceptions = {} /\ loaded = "none" /\ components = "none"
  /\ leaked = "none" /\ provided = {} /\ level = 0 /\ program = "none" /\ served = "none" /\ asked = 0
Init ==
  /\ part \in {"handles", "output", "shell", "log", "main", "broker"}
  /\ IF part = "handles" THEN Handles!Init ELSE Output!Init
  /\ part # "handles" => reuse
  /\ Shell!Init /\ Logs!Init
  /\ IF part = "main" THEN Main!Init ELSE NoFrontend
  /\ IF part = "broker" THEN Broker!Init ELSE NoBroker

Next ==
  /\ UNCHANGED part
  /\ \/ part = "handles" /\ Handles!Next /\ UNCHANGED <<shellVars, logVars, frontendVars, brokerVars>>
     \/ part = "output" /\ Output!Next /\ UNCHANGED <<shellVars, logVars, frontendVars, brokerVars>>
     \/ part = "shell" /\ Shell!Next /\ UNCHANGED <<agentVars, logVars, frontendVars, brokerVars>>
     \/ part = "log" /\ Logs!Next /\ UNCHANGED <<agentVars, shellVars, frontendVars, brokerVars>>
     \/ part = "main" /\ Main!Next /\ UNCHANGED <<agentVars, shellVars, logVars, brokerVars>>
     \/ part = "broker" /\ Broker!Next /\ UNCHANGED <<agentVars, shellVars, logVars, frontendVars>>
     \/ part \in {"shell", "log", "main", "broker"} /\ UNCHANGED <<agentVars, shellVars, logVars, frontendVars, brokerVars>>

(* The processes of a command run, and the kernel wakes who can read.      *)
Spec ==
  /\ Init /\ [][Next]_vars
  /\ WF_vars(part = "shell" /\ Shell!Work /\ UNCHANGED <<part, agentVars, logVars, frontendVars, brokerVars>>)
-----------------------------------------------------------------------------
(* The .process agent accounts for its children: no child is left behind,  *)
(* lost or mistaken for another (ExternalProgram::running, kill and close, *)
(* ~Process, ProcessAgent's map of IDs).                                   *)
ChildrenAreAccountedFor == part = "handles" => Handles!ChildrenAreAccountedFor

(* The caller gets what the child wrote in order, without a gap or a       *)
(* repetition (Process::readLine, read, closeAll).                         *)
OutputInOrder == part = "output" => Output!OutputInOrder

(* shellcommand_output answers with the exit code and the whole output of  *)
(* this command and of no other, and no process of the command is left.    *)
CommandIsComplete == Shell!OutputIsTheCommands /\ Shell!NothingIsLeftBehind

(* shellcommand_output returns if the processes of the command end.        *)
CommandReturns == Shell!CommandReturns

(* The log is never larger than its limit by more than one message of each *)
(* process, rotating it loses only the oldest messages as long as one      *)
(* process does it alone (shift_log_files), and the ring that is shown     *)
(* after a crash has the last messages (LogTail).                          *)
LogKeepsTheNewest == Logs!LogIsBounded /\ Logs!OnlyTheOldestIsLost /\ Logs!TailIsTheLast

(* main gives the client and the server what the command line says, keeps  *)
(* the order of search paths, makes, uses and deletes the server and the   *)
(* client in order, and reports no failure as a success.                   *)
StartsAsTold == part = "main" => Main!StartsAsTold

(* The broker never uses a creator or a component of an unloaded library,  *)
(* and a program started for a component makes it itself.                  *)
ComponentsAreSound == part = "broker" => Broker!TypeOK /\ Broker!NothingUnloadedIsUsed /\ Broker!ProgramsServeThemselves
=============================================================================
