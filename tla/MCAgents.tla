------------------------------ MODULE MCAgents ------------------------------
(***************************************************************************)
(* The agents of configuration files, and the system agent, for TLC.  An   *)
(* initial state chooses an agent, part, and only that one moves.  s1 to   *)
(* s9 are its variables.                                                   *)
(***************************************************************************)
EXTENDS MCFileSamples

CONSTANTS Misfit, NoValue

VARIABLES part, s1, s2, s3, s4, s5, s6, s7, s8, s9

vars == <<part, s1, s2, s3, s4, s5, s6, s7, s8, s9>>

Ini == INSTANCE IniAgent WITH
  Descriptions <- {Bare, Multi}, SysConfigs <- {"fa"}, Files <- {"fa", "fk"},
  Edits <- {F0, F1}, Samples <- Understood, Names <- {"a", "k"}, Values <- {<<"x", "nl", "y">>},
  MaxClock <- 2, MaxOps <- 2, Void <- NoValue,
  disk <- s1, clock <- s2, agent <- s3, ops <- s4, written <- s5, saved <- s6
Modules == INSTANCE ModulesAgent WITH
  OptionKeys <- {"options.a"}, ArgumentKeys <- {"alias.a"}, LOCAL_INCLUDE <- "include.local", Options <- {"o"},
  Values <- {"1", "2"}, Comments <- {"c"}, Files <- ModulesFiles, MaxOps <- 2, MaxFaults <- 1,
  conf <- s1, disk <- s2, clock <- s3, pc <- s4, leaving <- s5, mine <- s6, saved <- s7, ops <- s8, faults <- s9
AnyFile == INSTANCE AnyAgent WITH
  Digits <- {"0", "1", "2"}, Letters <- {"a", "b"}, Descriptions <- AnyDescriptions, Files <- {"f1"},
  Texts <- AnyTexts, Edits <- AnyEdits, MaxOps <- 2,
  d <- s1, disk <- s2, clock <- s3, agent <- s4, got <- s5, answer <- s6, ops <- s7
System == INSTANCE SystemAgent WITH
  Names <- {"t", "a"}, MaxPath <- 3, Trees <- MCTrees, tempdir <- <<"t">>, Levels <- 2, Data <- {1}, MaxOps <- 2,
  fs <- s1, running <- s2, did <- s3, ops <- s4
Resolver == INSTANCE ResolverAgent WITH
  Agents <- {"A", "B"}, Files <- {"f", "g"}, DefaultFile <- "f", Edits <- ResolverFiles, Values <- ResolverValues,
  WriteKeys <- {"search", "domain", "modified"}, MaxOps <- 4,
  disk <- s1, file_name <- s2, localCache <- s3, cacheDirty <- s4, cacheValid <- s5, writeHeader <- s6,
  mine <- s7, flushed <- s8, ops <- s9

Init ==
  \/ part = "ini" /\ Ini!Init /\ s7 = 0 /\ s8 = 0 /\ s9 = 0
  \/ part = "modules" /\ Modules!Init
  \/ part = "any" /\ AnyFile!Init /\ s8 = 0 /\ s9 = 0
  \/ part = "system" /\ System!Init /\ s5 = 0 /\ s6 = 0 /\ s7 = 0 /\ s8 = 0 /\ s9 = 0
  \/ part = "resolver" /\ Resolver!Init

Next ==
  /\ UNCHANGED part
  /\ \/ part = "ini" /\ Ini!Next /\ UNCHANGED <<s7, s8, s9>>
     \/ part = "modules" /\ Modules!Next
     \/ part = "any" /\ AnyFile!Next /\ UNCHANGED <<s8, s9>>
     \/ part = "system" /\ System!Next /\ UNCHANGED <<s5, s6, s7, s8, s9>>
     \/ part = "resolver" /\ Resolver!Next
Spec == Init /\ [][Next]_vars

-----------------------------------------------------------------------------
(* The ini agent keeps values: a client reads what it wrote until it       *)
(* flushes, however often the file changes meanwhile (UpdateIfModif); what *)
(* a flush reports as written, a new agent reads (write_helper against     *)
(* parse_helper); what Dir lists can be read; what .all shows can be       *)
(* written back, at any depth; and a file that the description understands *)
(* is written as it was read.                                              *)
IniKeepsValues ==
  part = "ini" =>
    /\ Ini!WrittenIsSaved /\ Ini!ClientReadsItsWrites /\ Ini!ListedIsRead
    /\ Ini!AllCanBeWrittenBack /\ Ini!UnderstoodFilesSurvive

(* modules.conf is safe: its index names each entry once, and entries that *)
(* there are; an entry that a client set is not replaced by what another   *)
(* program wrote (ModuleEntry::Set with REINIT); after a successful        *)
(* writeFile the file has the arguments of all entries; and after any one  *)
(* fault, a crash between two steps of writeFile included, there is a      *)
(* complete file or a complete backup.                                     *)
ModulesConfIsSafe ==
  part = "modules" =>
    Modules!IndexIsSound /\ Modules!ClientKeepsItsEntries /\ Modules!SavedIsReadAgain /\ Modules!ACompleteFileIsLeft

(* What an agent answers agrees with the files.  The any agent answers     *)
(* from the file as it is, if a change shows in the file's time            *)
(* (AnyAgent::readFile, validateCache), and a value that was read and      *)
(* written back is read again (unparseData against parseData).  The        *)
(* resolver agent, which never looks again, keeps what its clients wrote   *)
(* whatever other programs do to the file; fillCache takes all servers and *)
(* the last line of other keys; and what flushCache reports as written is  *)
(* read from the file, if every value has its type.  What the system agent *)
(* answered with true is visible to its readers (SystemAgent::Write,       *)
(* Execute, Read).                                                         *)
AnswersAgreeWithFiles ==
  /\ part = "any" => AnyFile!ReadIsCurrent /\ AnyFile!WrittenIsRead
  /\ part = "resolver" => Resolver!ClientReadsItsWrites /\ Resolver!SavedIsRead /\ Resolver!FilledFromTheFile
  /\ part = "system" => System!SuccessIsVisible

(* What belongs to others survives.  A flush of the ini agent keeps the    *)
(* changes of other programs that it could notice, and removes only files  *)
(* of deleted sections that are as it has read them (IniParser::write,     *)
(* UpdateIfModif, deleted_sections).  A command of the system agent        *)
(* changes only what its path names, and ~SystemAgent removes its          *)
(* temporary directory and nothing else (remove_directory).                *)
OthersDataSurvives ==
  [][/\ part = "ini" => Ini!KeepsNoticedEdits /\ Ini!RemovesKnown
     /\ part = "system" => System!ChangesTheNamed /\ System!RemovesTheDirectory]_vars
=============================================================================
