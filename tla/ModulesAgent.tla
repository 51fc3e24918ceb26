---------------------------- MODULE ModulesAgent ----------------------------
(***************************************************************************)
(* The agent of .modules (agent-modules/src): the entries of modules.conf  *)
(* in memory, the merging of what other programs wrote to the file, and    *)
(* the steps in which the file is replaced.                                *)
(*                                                                         *)
(* A file is a sequence of items: comment lines, and lines with an entry.  *)
(* An entry is named by its directive and module, its argument is a        *)
(* function: option to value for "options", one value for the others.      *)
(***************************************************************************)
EXTENDS Integers, Sequences, FiniteSets, SequencesExt, TLC

CONSTANTS
  OptionKeys, ArgumentKeys,  \* entries with and without options
  LOCAL_INCLUDE,             \* the include line that is always written last
  Options, Values, Comments,
  Files,                     \* what other programs put into the file
  MaxOps,                    \* how many changes clients and other programs make
  MaxFaults                  \* how many things go wrong

VARIABLES
  conf,       \* modules_conf_map, modules_conf_index, modified and time_stamp
  disk,       \* the files "conf", "tmp" and "save"
  clock,      \* the time in seconds
  pc,         \* "none": no ModulesConf; "idle", or the step of writeFile
  leaving,    \* writeFile is called by the destructor
  mine,       \* what the client set and did not yet save
  saved,      \* the last writeFile succeeded and nothing was changed since
  ops, faults

vars == <<conf, disk, clock, pc, leaving, mine, saved, ops, faults>>

FINAL_COMMENT == "YaST2_final_modules_conf_comment"
Keys == OptionKeys \cup ArgumentKeys \cup {LOCAL_INCLUDE}
None == <<>>
Comment(c) == [key |-> "#", arg |-> None, text |-> c]
Line(k, arg) == [key |-> k, arg |-> arg, text |-> ""]
File(items, time) == [items |-> items, time |-> time, whole |-> TRUE]

(* getTimeStamp: 0 if the file is not there.                               *)
getTimeStamp(d) == IF "conf" \in DOMAIN d THEN d["conf"].time ELSE 0
rename(d, from, to) ==
  IF from \in DOMAIN d THEN (to :> d[from]) @@ [f \in DOMAIN d \ {from} |-> d[f]] ELSE d

-----------------------------------------------------------------------------
(* ModuleEntry::Set decides if an entry may be changed.                    *)
Set(entry, mode) == mode # "REINIT" \/ ~entry.dirty
Dirty(entry, mode) == CASE mode = "INIT" -> FALSE [] mode = "SET" -> TRUE [] OTHER -> entry.dirty
NewEntry == [arg |-> None, comment |-> <<>>, dirty |-> FALSE]
EntryOf(c, k) == IF k \in DOMAIN c.map THEN c.map[k] ELSE NewEntry

updateIndex(c, k) == IF k \in DOMAIN c.map THEN c.index ELSE Append(c.index, k)

(* setArgument and setOptions: an empty argument is refused.               *)
setArgument(c, k, arg, mode) ==
  LET e == EntryOf(c, k)
      new == IF Set(e, mode) THEN [e EXCEPT !.arg = arg, !.dirty = Dirty(e, mode)] ELSE e
  IN  IF arg = None /\ k # FINAL_COMMENT THEN c
      ELSE [c EXCEPT !.map = (k :> new) @@ @, !.index = updateIndex(c, k)]
setOption(c, k, o, v) == setArgument(c, k, (o :> v) @@ EntryOf(c, k).arg, "SET")
(* setComment makes an entry if there is none, and does not index it.      *)
setComment(c, k, text) == [c EXCEPT !.map = (k :> [EntryOf(c, k) EXCEPT !.comment = text]) @@ @]
removeEntry(c, k) ==
  IF k \notin DOMAIN c.map THEN c
  ELSE [c EXCEPT !.map = [j \in DOMAIN @ \ {k} |-> @[j]], !.index = SelectSeq(@, LAMBDA j : j # k)]

(* parseFile.  The read that finds the end of the file counts as an empty  *)
(* line of the comment that is kept for the end.                           *)
parseItem(s, item, mode, with_comment) ==
  LET set == setArgument(s.conf, item.key, item.arg, mode)
  IN  IF item.key = "#" THEN [s EXCEPT !.comment = Append(@, item.text)]
      ELSE [conf |-> IF with_comment THEN setComment(set, item.key, s.comment) ELSE set, comment |-> <<>>]
parseFile(c, d, mode, with_comment) ==
  LET items == IF "conf" \in DOMAIN d THEN d["conf"].items ELSE <<>>
      all == FoldLeft(LAMBDA s, i : parseItem(s, i, mode, with_comment), [conf |-> c, comment |-> <<>>], items)
      end == IF "conf" \in DOMAIN d THEN Append(all.comment, "") ELSE <<>>
      final == IF end # <<>> /\ with_comment
               THEN setComment(setArgument(all.conf, FINAL_COMMENT, None, mode), FINAL_COMMENT, end)
               ELSE all.conf
  IN  [final EXCEPT !.stamp = getTimeStamp(d)]
updateIfModified(c, d) == IF c.stamp # getTimeStamp(d) THEN parseFile(c, d, "REINIT", FALSE) ELSE c

(* The text of the file: the index decides the order, the local include is *)
(* last.  Buffered is the part that is still in the buffer of the stream   *)
(* when the file gets its name: what comes after the last endl.            *)
CommentOf(c, k) == [i \in DOMAIN c.map[k].comment |-> Comment(c.map[k].comment[i])]
TextOf(c, k) == CommentOf(c, k) \o IF k = FINAL_COMMENT THEN <<>> ELSE <<Line(k, c.map[k].arg)>>
Text(c, indexed) ==
  FlattenSeq([i \in DOMAIN indexed |-> IF indexed[i] = LOCAL_INCLUDE THEN <<>> ELSE TextOf(c, indexed[i])])
LastEndl(items) == SelectLastInSeq(items, LAMBDA i : i.key # "#")
Written(c, indexed) == LET items == Text(c, indexed) IN SubSeq(items, 1, LastEndl(items))
Buffered(c) ==
  LET items == Text(c, c.index)
  IN  SubSeq(items, LastEndl(items) + 1, Len(items))
        \o IF LOCAL_INCLUDE \in ToSet(c.index) THEN TextOf(c, LOCAL_INCLUDE) ELSE <<>>
Clean(c, keys) == [c EXCEPT !.map = [k \in DOMAIN @ |-> IF k \in keys THEN [@[k] EXCEPT !.dirty = FALSE] ELSE @[k]]]

-----------------------------------------------------------------------------
Empty == [map |-> <<>>, index |-> <<>>, modified |-> FALSE, stamp |-> 0]
Init ==
  /\ \E items \in Files : disk = ("conf" :> File(items, 1))
  /\ conf = Empty /\ clock = 1 /\ pc = "none" /\ leaving = FALSE
  /\ mine = <<>> /\ saved = FALSE /\ ops = 0 /\ faults = 0

Fault == faults < MaxFaults /\ faults' = faults + 1
NoFault == UNCHANGED faults

(* otherCommand: the term ModulesConf(file).                               *)
Mount ==
  /\ pc = "none"
  /\ conf' = parseFile(Empty, disk, "INIT", TRUE)
  /\ pc' = "idle"
  /\ UNCHANGED <<disk, clock, leaving, mine, saved, ops, faults>>

(* Every command of the agent that reads looks at the file first.          *)
Read ==
  /\ pc = "idle" /\ conf.stamp # getTimeStamp(disk)
  /\ conf' = updateIfModified(conf, disk)
  /\ saved' = FALSE
  /\ UNCHANGED <<disk, clock, pc, leaving, mine, ops, faults>>

(* Write, except with the path of the agent: also a refused command leaves *)
(* modified set.                                                           *)
Change(c, m) ==
  /\ pc = "idle" /\ ops < MaxOps /\ ops' = ops + 1
  /\ conf' = [c EXCEPT !.modified = TRUE]
  /\ mine' = m /\ saved' = FALSE
  /\ UNCHANGED <<disk, clock, pc, leaving, faults>>
WriteArgument(k, arg) ==
  LET c == setArgument(conf, k, arg, "SET")
  IN  Change(c, IF arg = None THEN mine ELSE (k :> c.map[k].arg) @@ mine)
WriteOption(k, o, v) == LET c == setOption(conf, k, o, v) IN Change(c, (k :> c.map[k].arg) @@ mine)
WriteComment(k, text) == Change(setComment(conf, k, text), mine)
RemoveEntry(k) == Change(removeEntry(conf, k), [j \in DOMAIN mine \ {k} |-> mine[j]])
Write ==
  \/ \E k \in ArgumentKeys \cup {LOCAL_INCLUDE}, v \in Values : WriteArgument(k, "" :> v)
  \/ \E k \in OptionKeys : \/ WriteArgument(k, None)
                           \/ \E o \in Options, v \in Values : WriteArgument(k, o :> v) \/ WriteOption(k, o, v)
  \/ \E k \in Keys : RemoveEntry(k) \/ \E c \in Comments : WriteComment(k, <<c>>)

(* writeFile, when the temporary file is written.  If the stream fails at  *)
(* an entry, the ones before it count as saved all the same.               *)
Return(ok, c) ==
  /\ pc' = IF leaving' THEN "none" ELSE "idle"
  /\ conf' = IF leaving' THEN Empty ELSE c
  /\ saved' = (ok /\ ~leaving')
  /\ mine' = IF leaving' THEN <<>> ELSE [k \in {j \in DOMAIN mine : c.map[j].dirty} |-> mine[k]]
writeFile ==
  LET c == updateIfModified(conf, disk)
      Stream(n) == Written(c, SubSeq(c.index, 1, n))
      Temporary(n, whole) == ("tmp" :> [items |-> Stream(n), time |-> clock, whole |-> whole]) @@ disk
  IN  /\ pc = "idle" /\ leaving' \in BOOLEAN
      /\ \/ /\ ~c.modified /\ NoFault
            /\ Return(saved, [c EXCEPT !.stamp = getTimeStamp(disk)]) /\ UNCHANGED disk
         \/ c.modified /\ Fault /\ Return(FALSE, c) /\ UNCHANGED disk
         \/ /\ c.modified /\ Fault
            /\ \E n \in 1..Len(c.index) :
                 /\ Return(FALSE, Clean(c, ToSet(SubSeq(c.index, 1, n - 1))))
                 /\ disk' = Temporary(n - 1, FALSE)
         \/ /\ c.modified /\ NoFault
            /\ conf' = Clean(c, ToSet(c.index))
            /\ disk' = Temporary(Len(c.index), Buffered(c) = <<>>)
            /\ pc' = "backup"
            /\ mine' = [k \in DOMAIN mine \ ToSet(c.index) |-> mine[k]]
            /\ UNCHANGED saved
      /\ UNCHANGED <<clock, ops>>
UnlinkOld ==   \* mutant: the old file is removed, not renamed
  /\ pc = "backup" /\ pc' = "move"
  /\ \/ NoFault /\ disk' = [f \in DOMAIN disk \ {"conf"} |-> disk[f]]
     \/ Fault /\ UNCHANGED disk
  /\ UNCHANGED <<conf, clock, leaving, mine, saved, ops>>
RenameToBackup ==
  /\ pc = "backup" /\ pc' = "move"
  /\ \/ NoFault /\ disk' = rename(disk, "conf", "save")
     \/ Fault /\ UNCHANGED disk
  /\ UNCHANGED <<conf, clock, leaving, mine, saved, ops>>
RenameToFile ==
  /\ pc = "move" /\ UNCHANGED <<clock, leaving, ops>>
  /\ \/ NoFault /\ disk' = rename(disk, "tmp", "conf") /\ pc' = "flush" /\ UNCHANGED <<conf, mine, saved>>
     \/ Fault /\ disk' = rename(disk, "save", "conf") /\ Return(FALSE, conf)
(* depmod runs, the stream is closed, which nobody checks, and the time of *)
(* the file is taken.                                                      *)
Finish ==
  LET full == [disk EXCEPT !["conf"] = [@ EXCEPT !.items = @ \o Buffered(conf), !.time = clock, !.whole = TRUE]]
      file == IF "conf" \in DOMAIN disk /\ ~disk["conf"].whole THEN full ELSE disk
  IN  /\ pc = "flush" /\ UNCHANGED <<clock, leaving, ops>>
      /\ \/ NoFault /\ disk' = file /\ Return(TRUE, [conf EXCEPT !.modified = FALSE, !.stamp = getTimeStamp(file)])
         \/ Fault /\ disk' = file /\ Return(FALSE, conf)
         \/ Fault /\ UNCHANGED disk /\ Return(TRUE, [conf EXCEPT !.modified = FALSE, !.stamp = getTimeStamp(disk)])

(* The process ends without the destructor.                                *)
Crash ==
  /\ pc # "none" /\ Fault
  /\ pc' = "none" /\ conf' = Empty /\ mine' = <<>> /\ saved' = FALSE
  /\ UNCHANGED <<disk, clock, leaving, ops>>

(* Another program writes the file, in the same second or later; not       *)
(* between the last rename and the stat of writeFile.                      *)
Edit ==
  /\ ops < MaxOps /\ ops' = ops + 1
  /\ pc # "flush"
  /\ clock' \in {clock, clock + 1}
  /\ \E items \in Files : disk' = ("conf" :> File(items, clock')) @@ disk
  /\ saved' = FALSE
  /\ UNCHANGED <<conf, pc, leaving, mine, faults>>

Next ==
  \/ Mount \/ Read \/ Write \/ Edit \/ Crash
  \/ writeFile \/ RenameToBackup \/ RenameToFile \/ Finish
Spec == Init /\ [][Next]_vars

-----------------------------------------------------------------------------
(* The index names entries that there are, each once, so that the file is  *)
(* written without "Wrong path in index" and no line is written twice.     *)
IndexIsSound == ToSet(conf.index) \subseteq DOMAIN conf.map /\ IsInjective(conf.index)

(* What the client set and was not saved is what it reads, also when       *)
(* another program changed the file (ModuleEntry::Set refuses REINIT).     *)
ClientKeepsItsEntries == \A k \in DOMAIN mine : k \in DOMAIN conf.map /\ conf.map[k].arg = mine[k]

(* After a successful writeFile a new agent reads the same arguments from  *)
(* the file: for all entries that are in the index.                        *)
Arguments(c) == [k \in ToSet(c.index) \ {FINAL_COMMENT} |-> c.map[k].arg]
SavedIsReadAgain ==
  saved /\ faults = 0 => Arguments(parseFile(Empty, disk, "INIT", TRUE)) = Arguments(conf)

(* Whenever one thing goes wrong, a crash between any two steps of         *)
(* writeFile included, there is a complete configuration afterwards: the   *)
(* file itself or the backup.                                              *)
ACompleteFileIsLeft ==
  pc = "none" /\ faults <= 1 => \E f \in {"conf", "save"} : f \in DOMAIN disk /\ disk[f].whole
=============================================================================
