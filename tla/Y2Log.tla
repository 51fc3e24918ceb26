-------------------------------- MODULE Y2Log --------------------------------
(***************************************************************************)
(* The log of liby2util (liby2util-r/src/y2log.cc): processes append to    *)
(* one log file, each of them moves the old files on when the file is too  *)
(* large, and a gzip in the background packs the one that was moved last.  *)
(* Nothing is locked, so the steps of processes and gzips interleave.      *)
(*                                                                         *)
(* Every message has the size 1 and is a number.  A name of a file is      *)
(* <<i, packed>>: i = 0 is the log, i > 0 the old file y2log-i or          *)
(* y2log-i.gz.  dir gives the file of a name, as in a directory, so that   *)
(* an open file is still the same file when it has another name.           *)
(***************************************************************************)
EXTENDS Integers, Sequences, FiniteSets, SequencesExt, TLC

CONSTANTS
  Procs,        \* processes that log
  maxlogsize,   \* how large the log may be before it is moved
  maxlognum,    \* number of files
  TailSize,     \* size of the ring for crashes: 42 in the code
  MaxMessages   \* how many messages there are in all

VARIABLES
  dir,          \* names to files
  data,         \* the messages in every file there ever was
  proc,         \* step, message and open file of every process
  gzips,        \* the gzips that run
  said,         \* number of messages
  written,      \* the messages in the order in which they were written
  tail,         \* the ring of one process: LogTail blanik
  buffered,     \* what was put in the ring so far
  overlap       \* a log was moved while another process or gzip was at work

vars == <<dir, data, proc, gzips, said, written, tail, buffered, overlap>>

Log == <<0, FALSE>>
old(i, packed) == <<i, packed>>
Without(d, name) == [n \in DOMAIN d \ {name} |-> d[n]]
rename(d, from, to) == IF from \in DOMAIN d THEN (to :> d[from]) @@ Without(d, from) ELSE d
Idle == [at |-> "idle", msg |-> 0, f |-> 0]

Init ==
  /\ dir = <<>> /\ data = <<>>
  /\ proc = [p \in Procs |-> Idle]
  /\ gzips = {} /\ said = 0 /\ written = <<>> /\ tail = <<>> /\ buffered = 0 /\ overlap = FALSE

Goes(p, at) == proc' = [proc EXCEPT ![p].at = at]
Logging(p) == proc[p].at # "idle"

(* y2_vlogger_function or y2_logger_raw: a message for the file; in        *)
(* shift_log_files the log is first looked at.                             *)
TooLarge == Log \in DOMAIN dir /\ Len(data[dir[Log]]) > maxlogsize
Message(p) ==
  LET busy == gzips # {} \/ \E q \in Procs \ {p} : Logging(q)
  IN  /\ proc[p].at = "idle" /\ said + buffered < MaxMessages
      /\ said' = said + 1
      /\ proc' = [proc EXCEPT ![p] = [at |-> IF TooLarge THEN "remove" ELSE "open", msg |-> said + 1, f |-> 0]]
      /\ overlap' = (overlap \/ (TooLarge /\ busy) \/ \E q \in Procs : proc[q].at \in {"remove", "shift", "move"})
      /\ UNCHANGED <<dir, data, gzips, written, tail, buffered>>

(* shift_log_files, one call of the system at a time (the packed and the   *)
(* plain file of a number in one).                                         *)
ShiftFromLast(p) ==   \* mutant: one file too few is shifted
  /\ proc[p].at = "remove"
  /\ dir' = Without(Without(dir, old(maxlognum - 1, FALSE)), old(maxlognum - 1, TRUE))
  /\ proc' = [proc EXCEPT ![p] = [@ EXCEPT !.at = "shift", !.f = maxlognum - 3]]
  /\ UNCHANGED <<data, gzips, said, written, tail, buffered, overlap>>
RemoveOldest(p) ==
  /\ proc[p].at = "remove"
  /\ dir' = Without(Without(dir, old(maxlognum - 1, FALSE)), old(maxlognum - 1, TRUE))
  /\ proc' = [proc EXCEPT ![p] = [@ EXCEPT !.at = "shift", !.f = maxlognum - 2]]
  /\ UNCHANGED <<data, gzips, said, written, tail, buffered, overlap>>
Shift(p) ==
  LET f == proc[p].f
  IN  /\ proc[p].at = "shift"
      /\ IF f > 0
         THEN /\ dir' = rename(rename(dir, old(f, FALSE), old(f + 1, FALSE)), old(f, TRUE), old(f + 1, TRUE))
              /\ proc' = [proc EXCEPT ![p].f = f - 1]
         ELSE UNCHANGED dir /\ Goes(p, "move")
      /\ UNCHANGED <<data, gzips, said, written, tail, buffered, overlap>>
MoveLog(p) ==
  /\ proc[p].at = "move"
  /\ dir' = rename(dir, Log, old(1, FALSE))
  /\ gzips' = gzips \cup {[at |-> "start", by |-> proc[p].msg, from |-> 0]}
  /\ Goes(p, "open")
  /\ UNCHANGED <<data, said, written, tail, buffered, overlap>>

(* open_logfile: "a" makes the file if it is not there; then the message   *)
(* is written to the file that was opened.                                 *)
Open(p) ==
  LET new == Len(data) + 1
  IN  /\ proc[p].at = "open"
      /\ IF Log \in DOMAIN dir
         THEN /\ proc' = [proc EXCEPT ![p] = [@ EXCEPT !.at = "write", !.f = dir[Log]]]
              /\ UNCHANGED <<dir, data>>
         ELSE /\ proc' = [proc EXCEPT ![p] = [@ EXCEPT !.at = "write", !.f = new]]
              /\ dir' = (Log :> new) @@ dir
              /\ data' = Append(data, <<>>)
      /\ UNCHANGED <<gzips, said, written, tail, buffered, overlap>>
WriteMessage(p) ==
  /\ proc[p].at = "write"
  /\ data' = [data EXCEPT ![proc[p].f] = Append(@, proc[p].msg)]
  /\ written' = Append(written, proc[p].msg)
  /\ proc' = [proc EXCEPT ![p] = Idle]
  /\ UNCHANGED <<dir, gzips, said, tail, buffered, overlap>>

(* gzip y2log-1: not if there is a packed file already.  The plain file is *)
(* removed by its name in the end.                                         *)
GzipStart(g) ==
  /\ g.at = "start"
  /\ IF old(1, FALSE) \in DOMAIN dir /\ old(1, TRUE) \notin DOMAIN dir
     THEN gzips' = (gzips \ {g}) \cup {[g EXCEPT !.at = "pack", !.from = dir[old(1, FALSE)]]}
     ELSE gzips' = gzips \ {g}
  /\ UNCHANGED <<dir, data, proc, said, written, tail, buffered, overlap>>
GzipEnd(g) ==
  /\ g.at = "pack"
  /\ data' = Append(data, data[g.from])
  /\ dir' = (old(1, TRUE) :> Len(data) + 1) @@ Without(dir, old(1, FALSE))
  /\ gzips' = gzips \ {g}
  /\ UNCHANGED <<proc, said, written, tail, buffered, overlap>>

(* y2_vlogger_blanik: the message is only kept, in LogTail::push_back.     *)
push_back(items, d) == Append(IF Len(items) >= TailSize THEN Tail(items) ELSE items, d)
Buffer ==
  /\ said + buffered < MaxMessages
  /\ buffered' = buffered + 1
  /\ tail' = push_back(tail, buffered + 1)
  /\ UNCHANGED <<dir, data, proc, gzips, said, written, overlap>>

Next ==
  \/ \E p \in Procs :
       Message(p) \/ RemoveOldest(p) \/ Shift(p) \/ MoveLog(p) \/ Open(p) \/ WriteMessage(p)
  \/ \E g \in gzips : GzipStart(g) \/ GzipEnd(g)
  \/ Buffer
Spec == Init /\ [][Next]_vars

-----------------------------------------------------------------------------
(* The log is at most larger than its limit by one message of every        *)
(* process: those that looked at its size before the others wrote.         *)
LogIsBounded == Log \in DOMAIN dir => Len(data[dir[Log]]) <= maxlogsize + Cardinality(Procs)

(* As long as no log was moved while another process or a gzip was at      *)
(* work, the files have the last messages in order, and messages are only  *)
(* lost when the other maxlognum - 1 files are full.                       *)
Kept == FlattenSeq([i \in 1..2 * maxlognum |->
          LET name == old(maxlognum - ((i + 1) \div 2), i % 2 = 0)
          IN  IF name \in DOMAIN dir THEN data[dir[name]] ELSE <<>>])
OnlyTheOldestIsLost ==
  ~overlap =>
    /\ IsSuffix(Kept, written)
    /\ Kept = written \/ Len(Kept) >= (maxlognum - 1) * (maxlogsize + 1)

(* The ring has the last messages in order.                                *)
TailIsTheLast ==
  LET n == IF buffered < TailSize THEN buffered ELSE TailSize
  IN  tail = [i \in 1..n |-> buffered - n + i]
=============================================================================
