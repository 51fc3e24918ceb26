----------------------------- MODULE SystemAgent -----------------------------
(***************************************************************************)
(* The agent of .target (agent-system/src/SystemAgent.cc): reading and     *)
(* writing files, making directories and links, and the temporary          *)
(* directory that goes away with the agent.                                *)
(*                                                                         *)
(* A path is a sequence of names from the root on.  fs has what exists     *)
(* except the root: files, directories, and links with an absolute target. *)
(* The contents of a file are the text of a string, of a byteblock, of a   *)
(* value in YCP syntax, or a part of a text.                               *)
(***************************************************************************)
EXTENDS Integers, Sequences, FiniteSets, SequencesExt, TLC

CONSTANTS
  Names,      \* names of files
  MaxPath,    \* the longest path that clients give
  Trees,      \* what may be on disk when the agent starts
  tempdir,    \* the temporary directory, a path
  Levels,     \* how deep the destructor goes: 20 in the code
  Data,       \* what clients write
  MaxOps      \* how many commands and other changes there are

VARIABLES
  fs,         \* the file system
  running,    \* the agent is there
  did,        \* the last command: its name, path and data, and if it answered true
  ops         \* number of commands and other changes

vars == <<fs, running, did, ops>>

Paths == UNION {[1..n -> Names] : n \in 1..MaxPath}
Node(type, data, to) == [type |-> type, data |-> data, to |-> to]
Dir == Node("dir", <<>>, <<>>)
File(data) == Node("file", data, <<>>)
Link(to) == Node("link", <<>>, to)

-----------------------------------------------------------------------------
(* The system calls.  Resolve gives the place that a path names, which     *)
(* need not exist, or Nowhere.                                             *)
Nowhere == <<>>
MaxLinks == 3
RECURSIVE Walk(_, _, _, _, _)
Walk(f, done, rest, follow, n) ==
  LET q == Append(done, Head(rest))
      final == Len(rest) = 1
  IN  CASE q \notin DOMAIN f -> IF final THEN q ELSE Nowhere
        [] q \in DOMAIN f /\ f[q].type = "link" /\ (~final \/ follow) ->
             IF n = 0 THEN Nowhere ELSE Walk(f, <<>>, f[q].to \o Tail(rest), follow, n - 1)
        [] q \in DOMAIN f /\ f[q].type = "dir" /\ ~final -> Walk(f, q, Tail(rest), follow, n)
        [] OTHER -> IF final THEN q ELSE Nowhere
Resolve(f, p, follow) == Walk(f, <<>>, p, follow, MaxLinks)
Exists(f, q) == q # Nowhere /\ q \in DOMAIN f
IsA(f, q, type) == Exists(f, q) /\ f[q].type = type
Children(f, q) == {c \in DOMAIN f : Len(c) = Len(q) + 1 /\ Front(c) = q}
Without(f, q) == [p \in DOMAIN f \ {q} |-> f[p]]

mkdir(f, p) ==
  LET q == Resolve(f, p, FALSE) IN IF q = Nowhere \/ Exists(f, q) THEN f ELSE (q :> Dir) @@ f
CanOpen(f, p) == LET q == Resolve(f, p, TRUE) IN q # Nowhere /\ ~IsA(f, q, "dir")
OpenTruncated(f, p, data) == (Resolve(f, p, TRUE) :> File(data)) @@ f
remove(f, p) ==
  LET q == Resolve(f, p, FALSE)
  IN  IF ~Exists(f, q) \/ Children(f, q) # {} THEN f ELSE Without(f, q)

-----------------------------------------------------------------------------
(* Read.  Fail is an error, Void is nil; default is what the caller gave   *)
(* for the case that the file is not there, or Fail if nothing was given.  *)
Fail == <<"error">>
Void == <<"nil">>
Empty == <<"empty">>

(* A directory can be opened, and has no text.                             *)
Read_string(p, default) ==
  LET q == Resolve(fs, p, TRUE)
  IN  IF ~Exists(fs, q) THEN default ELSE IF IsA(fs, q, "dir") THEN Empty ELSE fs[q].data
Read_byte(p, default) ==
  LET q == Resolve(fs, p, TRUE)
  IN  IF ~Exists(fs, q) THEN default ELSE IF IsA(fs, q, "dir") THEN Fail ELSE fs[q].data
(* The default does not help when the file is there and is not YCP.        *)
Read_ycp(p, default) ==
  LET q == Resolve(fs, p, TRUE)
  IN  IF ~Exists(fs, q) THEN default
      ELSE IF IsA(fs, q, "dir") \/ fs[q].data[1] # "ycp" THEN Fail ELSE fs[q].data
Read_dir(p, default) ==
  LET q == Resolve(fs, p, TRUE)
  IN  IF IsA(fs, q, "dir") THEN <<"list", {Last(c) : c \in Children(fs, q)}>>
      ELSE IF default # Fail THEN default ELSE Void
Read_stat(p) ==
  LET q == Resolve(fs, p, TRUE) IN IF Exists(fs, q) THEN fs[q].type ELSE "nothing"
Read_lstat(p) ==
  LET q == Resolve(fs, p, FALSE) IN IF Exists(fs, q) THEN fs[q].type ELSE "nothing"
Read_symlink(p) ==
  LET q == Resolve(fs, p, FALSE) IN IF IsA(fs, q, "link") THEN fs[q].to ELSE Fail

-----------------------------------------------------------------------------
(* Write and Execute.  Each gives the new file system and the answer; all  *)
(* says that there is room on the disk for the whole text.                 *)
Outcome(f, ok) == [fs |-> f, ok |-> ok]
Text(kind, d, all) == IF all THEN <<kind, d>> ELSE <<"part">>

Write_string(p, d, all) ==
  IF CanOpen(fs, p) THEN Outcome(OpenTruncated(fs, p, Text("string", d, all)), all) ELSE Outcome(fs, FALSE)
Write_byte(p, d, all) ==
  IF CanOpen(fs, p) THEN Outcome(OpenTruncated(fs, p, Text("byte", d, all)), all) ELSE Outcome(fs, FALSE)

LeadingDirectories(f, p, n) == FoldLeft(LAMBDA g, k : mkdir(g, SubSeq(p, 1, k)), f, [k \in 1..n |-> k])

(* Missing directories are made, and what has the name of the file is      *)
(* removed first.                                                          *)
Write_ycp(p, d, all) ==
  LET f == remove(LeadingDirectories(fs, p, Len(p) - 1), p)
  IN  IF CanOpen(f, p) THEN Outcome(OpenTruncated(f, p, Text("ycp", d, all)), all) ELSE Outcome(f, FALSE)

Execute_mkdir(p) ==
  LET f == LeadingDirectories(fs, p, Len(p)) IN Outcome(f, IsA(f, Resolve(f, p, TRUE), "dir"))
Execute_symlink(to, p) ==
  LET f == remove(fs, p)
      q == Resolve(f, p, FALSE)
  IN  IF q = Nowhere \/ Exists(f, q) THEN Outcome(f, FALSE) ELSE Outcome((q :> Link(to)) @@ f, TRUE)
Execute_remove(p) ==
  LET q == Resolve(fs, p, FALSE)
  IN  IF ~Exists(fs, q) \/ IsA(fs, q, "dir") THEN Outcome(fs, FALSE) ELSE Outcome(Without(fs, q), TRUE)
(* mount and smbmount with a log file: the shell opens the file anew for   *)
(* what the command says.  smbmount wants options.                         *)
Execute_mount(cmd, p, options, exit) ==
  IF cmd = "smbmount" /\ ~options THEN Outcome(fs, FALSE)
  ELSE IF CanOpen(fs, p) THEN Outcome(OpenTruncated(fs, p, <<"log", exit>>), exit = 0)
  ELSE Outcome(fs, FALSE)

-----------------------------------------------------------------------------
Init ==
  /\ fs \in Trees
  /\ running = TRUE
  /\ did = [cmd |-> "none", path |-> <<>>, data |-> <<>>, ok |-> FALSE]
  /\ ops = 0

Command(cmd, p, d, outcome) ==
  /\ fs' = outcome.fs
  /\ did' = [cmd |-> cmd, path |-> p, data |-> d, ok |-> outcome.ok]
  /\ UNCHANGED running

Write(p) ==
  \E d \in Data, all \in BOOLEAN :
    \/ Command("string", p, <<"string", d>>, Write_string(p, d, all))
    \/ Command("byte", p, <<"byte", d>>, Write_byte(p, d, all))
    \/ Command("ycp", p, <<"ycp", d>>, Write_ycp(p, d, all))
Execute(p) ==
  \/ Command("mkdir", p, <<>>, Execute_mkdir(p))
  \/ Command("remove", p, <<>>, Execute_remove(p))
  \/ \E to \in Paths : Len(to) = 1 /\ Command("symlink", p, to, Execute_symlink(to, p))
  \/ \E cmd \in {"mount", "smbmount"}, options \in BOOLEAN, exit \in {0, 1} :
       Command("mount", p, <<>>, Execute_mount(cmd, p, options, exit))

(* A command whose arguments are not of the types it asks for.             *)
BadArguments(p) == Command("none", p, <<>>, Outcome(fs, FALSE))

(* Other programs, the shell commands of the clients among them.           *)
Other(p) ==
  /\ Resolve(fs, p, FALSE) # Nowhere
  /\ \E to \in Paths :
       \/ Command("other", p, <<>>, Outcome(mkdir(fs, p), FALSE))
       \/ Len(to) = 1 /\ Command("other", p, <<>>, Execute_symlink(to, p))

(* ~SystemAgent: the directory with all that is in it, without following   *)
(* links; what is too deep stays.                                          *)
RECURSIVE remove_directory(_, _, _)
RemoveThroughLinks(f, q, depth) ==   \* mutant: stat for lstat
  LET t == Resolve(f, q, TRUE)
      below == IF IsA(f, t, "dir") THEN SetToSeq(Children(f, t)) ELSE <<>>
  IN  IF depth = 0 \/ ~Exists(f, q) THEN f
      ELSE remove(FoldLeft(LAMBDA g, c : remove_directory(g, c, depth - 1), f, below), q)
remove_directory(f, q, depth) ==
  LET below == IF IsA(f, q, "dir") THEN SetToSeq(Children(f, q)) ELSE <<>>
  IN  IF depth = 0 \/ ~Exists(f, q) THEN f
      ELSE remove(FoldLeft(LAMBDA g, c : remove_directory(g, c, depth - 1), f, below), q)

Destroy ==
  /\ running
  /\ running' = FALSE
  /\ fs' = remove_directory(fs, tempdir, Levels)
  /\ did' = [did EXCEPT !.cmd = "destroy"]
  /\ UNCHANGED ops

Next ==
  \/ /\ running /\ ops < MaxOps
     /\ ops' = ops + 1
     /\ \E p \in Paths : Write(p) \/ Execute(p) \/ BadArguments(p) \/ Other(p)
  \/ Destroy

Spec == Init /\ [][Next]_vars

-----------------------------------------------------------------------------
(* What a command answered with true can be seen by the commands that      *)
(* read: a written file has the data, a directory and a link are there, a  *)
(* removed file is not.                                                    *)
SuccessIsVisible ==
  did.ok /\ running =>
    /\ did.cmd = "string" => Read_string(did.path, Fail) = did.data
    /\ did.cmd = "byte" => Read_byte(did.path, Fail) = did.data
    /\ did.cmd = "ycp" => Read_ycp(did.path, Fail) = did.data
    /\ did.cmd = "mkdir" => Read_stat(did.path) = "dir" /\ Read_dir(did.path, Fail) # Void
    /\ did.cmd = "symlink" => Read_symlink(did.path) = did.data /\ Read_lstat(did.path) = "link"
    /\ did.cmd = "remove" => Read_lstat(did.path) = "nothing"

(* A command changes or removes nothing but what its path names: .ycp,     *)
(* .symlink and .remove the directory entry itself, also if that is a      *)
(* link, .string, .byte and a mount log the file behind it; directories    *)
(* may be added.                                                           *)
ChangesTheNamed ==
  running' /\ did'.cmd # "other" =>
    \A q \in DOMAIN fs :
      \/ q \in DOMAIN fs' /\ fs'[q] = fs[q]
      \/ q = Resolve(fs, did'.path, did'.cmd \in {"string", "byte", "mount"})

(* The destructor removes nothing outside of the temporary directory, also *)
(* when there are links in it or it is a link itself, and nothing of the   *)
(* directory is left unless it is nested too deep (remove_directory).      *)
RemovesTheDirectory ==
  running /\ ~running' =>
    LET Inside(q) == IsPrefix(tempdir, q)
        deep == \E q \in DOMAIN fs : Inside(q) /\ Len(q) - Len(tempdir) >= Levels
    IN  /\ \A q \in DOMAIN fs : ~Inside(q) => q \in DOMAIN fs' /\ fs'[q] = fs[q]
        /\ ~deep => \A q \in DOMAIN fs' : ~Inside(q)
=============================================================================
