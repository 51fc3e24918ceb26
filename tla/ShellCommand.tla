---------------------------- MODULE ShellCommand -----------------------------
(***************************************************************************)
(* Running a shell command for .target.bash and .target.bash_output        *)
(* (agent-system/src/ShellCommand.cc).  Three processes share the work:    *)
(* the caller collects what the command writes to stderr, its child, log2, *)
(* collects stdout, and a child of that one runs the command.  The command *)
(* may leave a background process behind that still has its output open.   *)
(*                                                                         *)
(* A line is a pair of the number of the call and the number of the line.  *)
(***************************************************************************)
EXTENDS Integers, Sequences, FiniteSets

CONSTANTS
  MaxCalls,    \* how many commands are run one after the other
  MaxLines,    \* lines that the processes of a command write to a stream
  PipeCap,     \* lines that a pipe holds
  ExitCodes    \* how commands end: exit codes, and 128 + the signal

Streams == {"out", "err"}

VARIABLES
  parent,      \* where the caller is in shellcommand
  log2,        \* the first child: where it is and its exit code
  child,       \* the command: where it is and its exit code
  background,  \* the streams a background process of the command has open
  pipe,        \* the lines in each pipe
  file,        \* tempdir/stdout and tempdir/stderr
  wrote,       \* what the command and its background process wrote
  ran,         \* the last call came so far as to run its command
  calls,       \* number of calls
  result       \* what shellcommand_output returned last

vars == <<parent, log2, child, background, pipe, file, wrote, ran, calls, result>>

Gone == [at |-> "gone", exit |-> 0]
Nothing == [s \in Streams |-> <<>>]

Init ==
  /\ parent = "idle" /\ log2 = Gone /\ child = Gone /\ background = {}
  /\ pipe = Nothing /\ file = Nothing /\ wrote = Nothing
  /\ ran = FALSE /\ calls = 0
  /\ result = [exit |-> 0, out |-> <<>>, err |-> <<>>]

(* Who can still write to a pipe.  log2 has the error pipe as its stderr   *)
(* from its first step to its end.                                         *)
WritersAndReader(s) ==   \* mutant: log2 keeps its own end of the output pipe
  (IF child.at = "run" THEN {"child"} ELSE {})
    \cup (IF s \in background THEN {"background"} ELSE {})
    \cup (IF log2.at \notin {"gone", "zombie"} THEN {"log2"} ELSE {})
Writers(s) ==
  (IF child.at = "run" THEN {"child"} ELSE {})
    \cup (IF s \in background THEN {"background"} ELSE {})
    \cup (IF s = "err" /\ log2.at \notin {"gone", "zombie"} THEN {"log2"} ELSE {})
Eof(s) == pipe[s] = <<>> /\ Writers(s) = {}

(* shellcommand_output: the exit code, and the two files as they are now.  *)
Return(code, files) ==
  /\ parent' = "idle"
  /\ result' = [exit |-> code, out |-> files["out"], err |-> files["err"]]

(* The pipe or the first fork fails: -1, and the files are not touched.    *)
Start ==
  /\ parent = "idle" /\ calls < MaxCalls
  /\ calls' = calls + 1
  /\ wrote' = Nothing /\ ran' = FALSE
  /\ \/ /\ parent' = "read"
        /\ log2' = [at |-> "start", exit |-> 0]
        /\ file' = [file EXCEPT !["err"] = <<>>]
        /\ UNCHANGED result
     \/ Return(-1, file) /\ UNCHANGED <<log2, file>>
  /\ UNCHANGED <<child, background, pipe>>

(* The caller: stderr up to its end, then the end of log2.                 *)
ParentRead ==
  /\ parent = "read" /\ pipe["err"] # <<>>
  /\ pipe' = [pipe EXCEPT !["err"] = Tail(@)]
  /\ file' = [file EXCEPT !["err"] = Append(@, Head(pipe["err"]))]
  /\ UNCHANGED <<parent, log2, child, background, wrote, ran, calls, result>>
ParentDrops ==   \* mutant: the caller stops reading when log2 has ended
  /\ parent = "read" /\ log2.at = "zombie"
  /\ parent' = "wait"
  /\ UNCHANGED <<log2, child, background, pipe, file, wrote, ran, calls, result>>
ParentEof ==
  /\ parent = "read" /\ Eof("err")
  /\ parent' = "wait"
  /\ UNCHANGED <<log2, child, background, pipe, file, wrote, ran, calls, result>>
ParentWait ==
  /\ parent = "wait" /\ log2.at = "zombie"
  /\ Return(log2.exit, file)
  /\ log2' = Gone
  /\ UNCHANGED <<child, background, pipe, file, wrote, ran, calls>>

(* log2: without a pipe or a child of its own it exits with 1.             *)
Log2Start ==
  /\ log2.at = "start"
  /\ \/ /\ log2' = [log2 EXCEPT !.at = "read"]
        /\ child' = [at |-> "run", exit |-> 0]
        /\ file' = [file EXCEPT !["out"] = <<>>]
        /\ ran' = TRUE
     \/ log2' = [at |-> "zombie", exit |-> 1] /\ UNCHANGED <<child, file, ran>>
  /\ UNCHANGED <<parent, background, pipe, wrote, calls, result>>
Log2Read ==
  /\ log2.at = "read" /\ pipe["out"] # <<>>
  /\ pipe' = [pipe EXCEPT !["out"] = Tail(@)]
  /\ file' = [file EXCEPT !["out"] = Append(@, Head(pipe["out"]))]
  /\ UNCHANGED <<parent, log2, child, background, wrote, ran, calls, result>>
Log2Eof ==
  /\ log2.at = "read" /\ Eof("out")
  /\ log2' = [log2 EXCEPT !.at = "wait"]
  /\ UNCHANGED <<parent, child, background, pipe, file, wrote, ran, calls, result>>
Log2Wait ==
  /\ log2.at = "wait" /\ child.at = "zombie"
  /\ log2' = [at |-> "zombie", exit |-> child.exit]
  /\ child' = [child EXCEPT !.at = "gone"]
  /\ UNCHANGED <<parent, background, pipe, file, wrote, ran, calls, result>>

(* The command, and what it leaves in the background.                      *)
Write(s) ==
  /\ Len(wrote[s]) < MaxLines /\ Len(pipe[s]) < PipeCap
  /\ LET line == <<calls, Len(wrote[s]) + 1>>
     IN  pipe' = [pipe EXCEPT ![s] = Append(@, line)] /\ wrote' = [wrote EXCEPT ![s] = Append(@, line)]
  /\ UNCHANGED <<parent, log2, child, background, file, ran, calls, result>>
ChildWrite == child.at = "run" /\ \E s \in Streams : Write(s)
BackgroundWrite == \E s \in background : Write(s)
ChildExit ==
  /\ child.at = "run"
  /\ \E code \in ExitCodes, open \in SUBSET Streams :
       child' = [at |-> "zombie", exit |-> code] /\ background' = open
  /\ UNCHANGED <<parent, log2, pipe, file, wrote, ran, calls, result>>
BackgroundExit ==
  /\ background # {}
  /\ background' = {}
  /\ UNCHANGED <<parent, log2, child, pipe, file, wrote, ran, calls, result>>

(* The work on a command that was started.                                 *)
Work ==
  \/ ParentRead \/ ParentEof \/ ParentWait
  \/ Log2Start \/ Log2Read \/ Log2Eof \/ Log2Wait
  \/ ChildWrite \/ ChildExit \/ BackgroundWrite \/ BackgroundExit

Next == Start \/ Work

Spec == Init /\ [][Next]_vars /\ WF_vars(Work)

-----------------------------------------------------------------------------
(* When a command was run, the answer has its exit code and everything the *)
(* command and its background process wrote to the two streams, in order,  *)
(* and nothing of an earlier command (shellcommand's two collectors,       *)
(* shellcommand_output).                                                   *)
OutputIsTheCommands ==
  parent = "idle" /\ ran => result.exit = child.exit /\ \A s \in Streams : result[s] = wrote[s]

(* The answer never comes while a process of the command can still write,  *)
(* and no process of it is left that nobody waits for (the two waitpid).   *)
NothingIsLeftBehind ==
  parent = "idle" => log2.at = "gone" /\ child.at = "gone" /\ background = {} /\ pipe = Nothing

(* A call returns, whatever the sizes of the pipes, if its command and     *)
(* what that left in the background end: the streams are collected by      *)
(* different processes, so that a full pipe of one cannot stop the reader  *)
(* of the other.                                                           *)
CommandReturns == parent # "idle" ~> parent = "idle"
=============================================================================
