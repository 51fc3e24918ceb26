--------------------------- MODULE ScriptingAgent ---------------------------
(***************************************************************************)
(* The scripting agent (scr), which dispatches the SCR commands Read,      *)
(* Write, Dir, Execute and Error to subagents by their paths.  An agent is *)
(* registered from a *.scr file when a command first needs it: by guessing *)
(* the name of the file from the path or, failing that, by a sweep through *)
(* all files.  Its component is created (mounted) when it is first used.   *)
(*                                                                         *)
(* A path is a sequence of components, and a component is a number: paths  *)
(* are ordered as the strings are.  A command looks at the disk several    *)
(* times, and other programs change the disk in between.                   *)
(***************************************************************************)
EXTENDS Integers, Sequences, FiniteSets, SequencesExt

CONSTANTS
  Paths,       \* the paths of commands and of registrations
  Files,       \* the *.scr files of all directories, in the order of a sweep
  FilePath,    \* the path on the first line with a "." of each file
  Basename,    \* the name of each file
  Guess(_),    \* the name of the file that tryRegister looks for, given a path
  Components   \* the components (Y2Component objects) there can be at a time

FileSet == {Files[k] : k \in 1..Len(Files)}

ASSUME ScrAssumption ==
  /\ Paths \subseteq Seq(Nat)
  /\ Files \in Seq(FileSet)
  /\ FilePath \in [FileSet -> Seq(Nat)]
  /\ Basename \in [FileSet -> {Basename[f] : f \in FileSet}]
  /\ 0 \notin Components

VARIABLES
  agents,      \* the registered subagents: path, value and component (my_comp, 0: not mounted)
  done_sweep,
  components,  \* the components that were created and not deleted
  disk,        \* the files there are
  task,        \* the command in progress and how far it has come
  stale        \* history: since the last sweep began a file came or an agent was unregistered

vars == <<agents, done_sweep, components, disk, task, stale>>

\* What an agent is registered with: a file or a term.
RegisteredValues == FileSet \cup {"term"}
SCRSubAgent == [path : Seq(Nat), value : RegisteredValues, comp : Components \cup {0}]
NewAgent(p, v) == [path |-> p, value |-> v, comp |-> 0]

Idle == [kind |-> "idle"]
Task(kind, command, path, pos) == [kind |-> kind, command |-> command, path |-> path, pos |-> pos]

-----------------------------------------------------------------------------
(* YCPPath::isPrefixOf, YCPPath::compare                                   *)

isPrefixOf(p, q) == Len(p) <= Len(q) /\ \A c \in 1..Len(p) : p[c] = q[c]

\* mutant: shorter paths come first
ShorterFirst(p, q) ==
  \/ Len(p) < Len(q)
  \/ /\ Len(p) = Len(q)
     /\ \E c \in 1..Len(p) : p[c] < q[c] /\ \A d \in 1..(c - 1) : p[d] = q[d]
Less(p, q) ==
  \/ isPrefixOf(p, q) /\ Len(p) < Len(q)
  \/ \E c \in 1..Len(p) : c <= Len(q) /\ p[c] < q[c] /\ \A d \in 1..(c - 1) : p[d] = q[d]

-----------------------------------------------------------------------------
(* The vector of agents.                                                   *)

\* std::lower_bound: the first agent that is not before p
AtTheEnd(as, p) == Len(as) + 1                      \* mutant: push_back
LowerBound(as, p) ==
  CHOOSE i \in 1..(Len(as) + 1) :
    /\ \A j \in 1..(i - 1) : Less(as[j].path, p)
    /\ i <= Len(as) => ~Less(as[i].path, p)

\* The index of the agent at p, 0 for agents.end ().
findByPath(as, p) ==
  LET i == LowerBound(as, p) IN
  IF i <= Len(as) /\ as[i].path = p THEN i ELSE 0

\* The index of the last agent whose path is a prefix of p, 0 for agents.end ().
FirstPrefix(as, p) == SelectInSeq(as, LAMBDA a : isPrefixOf(a.path, p))        \* mutant: forwards
findSubagent(as, p) == SelectLastInSeq(as, LAMBDA a : isPrefixOf(a.path, p))

Insert(as, a) == InsertAt(as, LowerBound(as, a.path), a)

\* parseSingleConfigFile: what is registered already stays
parseSingleConfigFile(as, f) ==
  IF f \in disk /\ findByPath(as, FilePath[f]) = 0 THEN Insert(as, NewAgent(FilePath[f], f)) ELSE as

\* tryRegister: the first directory with a file of that name
tryRegister(as, p) ==
  LET k == SelectInSeq(Files, LAMBDA f : f \in disk /\ Basename[f] = Guess(p)) IN
  IF k = 0 THEN as ELSE parseSingleConfigFile(as, Files[k])

-----------------------------------------------------------------------------
(* Commands: findAndRegisterSubagent and executeSubagentCommand.           *)

Init ==
  /\ agents = <<>> /\ done_sweep = FALSE /\ components = {}
  /\ disk \in SUBSET FileSet
  /\ task = Idle /\ stale = FALSE

\* Read, Write, Dir, Execute or Error
Command(p) ==
  /\ task = Idle
  /\ task' = Task(IF findSubagent(agents, p) # 0 THEN "found" ELSE "guess", "Command", p, Len(p))
  /\ UNCHANGED <<agents, done_sweep, components, disk, stale>>

\* mutant: guess on from the same name, without end
GuessAgain(found) == IF found THEN [task EXCEPT !.kind = "found"] ELSE task

\* The next shorter prefix or, after the root path, a sweep unless there was one.
AfterGuess(found) ==
  CASE found -> [task EXCEPT !.kind = "found"]
    [] ~found /\ task.pos > 0 -> [task EXCEPT !.pos = @ - 1]
    [] ~found /\ task.pos = 0 /\ ~done_sweep -> [task EXCEPT !.kind = "sweep", !.pos = 1]
    [] ~found /\ task.pos = 0 /\ done_sweep -> [task EXCEPT !.kind = "missing"]

\* tryRegister (path->prefix (i)) and retry
GuessFile ==
  /\ task.kind = "guess"
  /\ agents' = tryRegister(agents, SubSeq(task.path, 1, task.pos))
  /\ task' = AfterGuess(findSubagent(agents', task.path) # 0)
  /\ stale' = (stale /\ task'.kind # "sweep")
  /\ UNCHANGED <<done_sweep, components, disk>>

RegisterNewAgents ==
  /\ task = Idle
  /\ task' = Task("sweep", "RegisterNewAgents", <<>>, 1) /\ stale' = FALSE
  /\ UNCHANGED <<agents, done_sweep, components, disk>>

\* mutant: the last file of the last directory is not read
FirstFilesOnly == task.pos < Len(Files)
MoreFiles == task.pos <= Len(Files)

SweepFile ==
  /\ task.kind = "sweep" /\ MoreFiles
  /\ agents' = parseSingleConfigFile(agents, Files[task.pos])
  /\ task' = [task EXCEPT !.pos = @ + 1]
  /\ UNCHANGED <<done_sweep, components, disk, stale>>

SweepDone ==
  /\ task.kind = "sweep" /\ ~MoreFiles
  /\ done_sweep' = TRUE
  /\ task' = IF task.command = "RegisterNewAgents" THEN Idle
             ELSE [task EXCEPT !.kind = IF findSubagent(agents, task.path) # 0 THEN "found" ELSE "missing"]
  /\ UNCHANGED <<agents, components, disk, stale>>

\* SCRSubAgent::mount: the file may be gone or hold no term, the component may not exist
Mount(i) ==
  \/ agents' = agents /\ components' = components
  \/ /\ agents[i].comp = 0 /\ agents[i].value \in disk \cup {"term"}
     /\ \E c \in Components \ components :
          agents' = [agents EXCEPT ![i].comp = c] /\ components' = components \cup {c}

\* The agent is mounted and its component evaluates the command.
Execute ==
  /\ task.kind = "found" /\ Mount(findSubagent(agents, task.path))
  /\ task' = Idle
  /\ UNCHANGED <<done_sweep, disk, stale>>

\* dirSubagents: the next components of the paths below p; one that is equal to the
\* component of the agent below p that comes before it is left out
dirSubagents(as, p) ==
  LET below == {i \in 1..Len(as) : isPrefixOf(p, as[i].path)}
      Name(i) == as[i].path[Len(p) + 1]
      New(i) == \A k \in below : k < i /\ Name(k) = Name(i) => \E l \in below : k < l /\ l < i
  IN  {<<i, Name(i)>> : i \in {j \in below : New(j)}}

\* No agent: Dir lists the agents below, the others fail.
NotFound ==
  /\ task.kind = "missing"
  /\ task' = Idle
  /\ UNCHANGED <<agents, done_sweep, components, disk, stale>>

-----------------------------------------------------------------------------
(* Registration and mounting on request.                                   *)

\* The components of as are deleted (SCRSubAgent::unmount).
Unmounted(cs) == components' = components \ cs
Comps(as) == {as[i].comp : i \in 1..Len(as)}

Replace(as, p) ==
  LET i == findByPath(as, p) IN IF i = 0 THEN as ELSE RemoveAt(as, i)
Replaced(as, p) ==
  LET i == findByPath(as, p) IN IF i = 0 THEN {} ELSE {as[i].comp}

RegisterAgent(p, v) ==
  /\ task = Idle
  /\ agents' = Insert(Replace(agents, p), NewAgent(p, v))
  /\ Unmounted(Replaced(agents, p))
  /\ UNCHANGED <<done_sweep, disk, task, stale>>

\* mutant: the agent is erased and not deleted
KeepComponent(as, p) == {}
Unregistered(as, p) == Replaced(as, p)

UnregisterAgent(p) ==
  /\ task = Idle /\ findByPath(agents, p) # 0
  /\ agents' = Replace(agents, p) /\ Unmounted(Unregistered(agents, p))
  /\ stale' = TRUE
  /\ UNCHANGED <<done_sweep, disk, task>>

\* "an automatic sweep would undo this call"
UnregisterAllAgents ==
  /\ task = Idle
  /\ done_sweep' = TRUE /\ agents' = <<>> /\ Unmounted(Comps(agents))
  /\ stale' = TRUE
  /\ UNCHANGED <<disk, task>>

MountAgent(p) ==
  /\ task = Idle /\ findByPath(agents, p) # 0
  /\ Mount(findByPath(agents, p))
  /\ UNCHANGED <<done_sweep, disk, task, stale>>

\* MountAllAgents, one agent at a time.  It gives up at a file that cannot be read.
MountAllAgents ==
  /\ task = Idle /\ agents # <<>>
  /\ task' = Task("mount", "MountAllAgents", <<>>, 1)
  /\ UNCHANGED <<agents, done_sweep, components, disk, stale>>

MountNext ==
  /\ task.kind = "mount" /\ Mount(task.pos)
  /\ \/ task.pos < Len(agents) /\ task' = [task EXCEPT !.pos = @ + 1]
     \/ agents[task.pos].value \in FileSet /\ agents'[task.pos].comp = 0 /\ task' = Idle
     \/ task.pos = Len(agents) /\ task' = Idle
  /\ UNCHANGED <<done_sweep, disk, stale>>

UnmountAgent(p) ==
  LET i == findByPath(agents, p) IN
  /\ task = Idle /\ i # 0 /\ agents[i].comp # 0
  /\ agents' = [agents EXCEPT ![i].comp = 0] /\ Unmounted({agents[i].comp})
  /\ UNCHANGED <<done_sweep, disk, task, stale>>

UnmountAllAgents ==
  /\ task = Idle
  /\ agents' = [i \in 1..Len(agents) |-> [agents[i] EXCEPT !.comp = 0]] /\ Unmounted(Comps(agents))
  /\ UNCHANGED <<done_sweep, disk, task, stale>>

-----------------------------------------------------------------------------
(* Other programs.                                                         *)

InstallFile(f) ==
  /\ f \notin disk /\ disk' = disk \cup {f} /\ stale' = TRUE
  /\ UNCHANGED <<agents, done_sweep, components, task>>

RemoveFile(f) ==
  /\ f \in disk /\ disk' = disk \ {f}
  /\ UNCHANGED <<agents, done_sweep, components, task, stale>>

Step == GuessFile \/ SweepFile \/ SweepDone \/ Execute \/ NotFound \/ MountNext

Next ==
  \/ Step
  \/ \E p \in Paths :
       \/ Command(p) \/ RegisterAgent(p, "term")
       \/ UnregisterAgent(p) \/ MountAgent(p) \/ UnmountAgent(p)
  \/ RegisterNewAgents \/ UnregisterAllAgents \/ MountAllAgents \/ UnmountAllAgents
  \/ \E f \in FileSet : InstallFile(f) \/ RemoveFile(f)

Spec == Init /\ [][Next]_vars
\* A command that was begun goes on: the scripting agent runs in the thread of its caller.
FairSpec == Spec /\ WF_vars(Step)
-----------------------------------------------------------------------------
(* Properties.                                                             *)

Kinds == {"found", "guess", "sweep", "missing", "mount"}
Commands == {"Command", "RegisterNewAgents", "MountAllAgents"}

\* A position is one of the path, of the files or of the agents.
TaskOK ==
  \/ task = Idle
  \/ /\ task \in [kind : Kinds, command : Commands, path : Seq(Nat), pos : Nat]
     /\ task.kind = "guess" => task.pos \in 0..Len(task.path)
     /\ task.kind = "sweep" => task.pos \in 1..(Len(Files) + 1)
     /\ task.kind = "mount" => task.pos \in 1..Len(agents)

\* The types of the variables.
TypeOK ==
  /\ agents \in Seq(SCRSubAgent)
  /\ done_sweep \in BOOLEAN /\ stale \in BOOLEAN
  /\ components \subseteq Components
  /\ disk \subseteq FileSet
  /\ TaskOK

Sorted(as) == \A i, j \in 1..Len(as) : i < j => Less(as[i].path, as[j].path)

\* "The vector is sorted by path" (ScriptingAgent.h), and no path is in it twice:
\* the binary search of findByPath and the search backwards of findSubagent rely on it.
AgentsSorted == Sorted(agents)

\* The registry keeps its order and its types through every registration,
\* replacement and removal (RegisterAgent, UnregisterAgent, the sweeps).
RegistryIsSound == TypeOK /\ AgentsSorted

\* findSubagent: "the agent's path and the given path have the longest match", and
\* it finds one if there is one.
LongestMatch ==
  \A p \in Paths : \A j \in 1..Len(agents) :
    LET i == findSubagent(agents, p) IN
    isPrefixOf(agents[j].path, p) =>
      /\ i # 0 /\ isPrefixOf(agents[i].path, p)
      /\ Len(agents[j].path) <= Len(agents[i].path)

\* Each component that was created and not deleted belongs to one registered
\* agent: no way of replacing or unregistering an agent leaks its component or
\* leaves a pointer to a deleted one.
ComponentsBelongToAgents ==
  /\ components = Comps(agents) \ {0}
  /\ \A i, j \in 1..Len(agents) : agents[i].comp = agents[j].comp /\ agents[i].comp # 0 => i = j

\* When Dir has no agent to ask, the listing that dirSubagents makes has each name
\* once, though only neighbours are compared, and every path below p is long
\* enough for component_str (path_length).
DirListsOnce ==
  task # Idle /\ task.kind = "missing" =>
    /\ \A i \in 1..Len(agents) : isPrefixOf(task.path, agents[i].path) => Len(agents[i].path) > Len(task.path)
    /\ \A d, e \in dirSubagents(agents, task.path) : d[2] = e[2] => d = e

\* done_sweep: a sweep that is not repeated has registered every file there is, unless
\* a file was added or an agent unregistered since.
SweepRegistersEverything ==
  done_sweep /\ ~stale /\ (task = Idle \/ task.kind # "sweep") =>
    \A f \in disk : findByPath(agents, FilePath[f]) # 0

\* A command ends: the guesses and the sweep do not go on for ever, whatever
\* happens on the disk.
CommandsEnd == task # Idle ~> task = Idle
=============================================================================
