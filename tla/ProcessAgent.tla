---------------------------- MODULE ProcessAgent ----------------------------
(***************************************************************************)
(* The .process agent: the map from process IDs to Process objects         *)
(* (agent-process/src/ProcessAgent.cc), the Process and ExternalProgram    *)
(* objects it manages (liby2util-r/src/Process.cc, ExternalProgram.cc,     *)
(* ExternalDataSource.cc) and the part of the operating system they use:   *)
(* pids, zombies, waitpid, signals and pipes.                              *)
(*                                                                         *)
(* One thread serves the agent's requests, so every request is one step,   *)
(* except .close, which blocks in waitpid.  The children, and the other    *)
(* processes of the machine, run between any two requests.                 *)
(***************************************************************************)
EXTENDS Integers, Sequences

CONSTANTS
  Pids,        \* the pids the kernel hands out, positive numbers
  MaxStarts,   \* bound: Process objects created in one behaviour
  ExitCodes,   \* what a child may pass to exit()
  MaxOut,      \* bound: characters a child writes to each of its streams
  Job,         \* characters a child has to write to a stream before it exits
  PipeCap      \* capacity of a pipe, in characters

Streams == {"out", "err"}

Objs == 1..MaxStarts
NoObj == 0
NoPid == -1             \* the value of ExternalProgram::pid without a child
Free == 0               \* no process has the pid
Foreign == -1           \* a process that is not a child of the agent has it
Chars == {"c", "nl"}    \* an ordinary character and a line feed
Nil == -1               \* YCPVoid
Null == -2              \* YCPNull
SIGKILL == 9
SIGPIPE == 13
Status(sig) == 128 + sig

VARIABLES
  nobj,        \* number of Process objects created so far
  alive,       \* the object has not been deleted
  pid,         \* ExternalProgram::pid
  exitStatus,  \* ExternalProgram::_exitStatus
  open,        \* inputfile and outputfile are open
  buf,         \* stdout_buffer and stderr_buffer
  processes,   \* ProcessAgent::_processes
  wait,        \* the object whose close() is blocked in waitpid, or NoObj
  down,        \* ~ProcessAgent has begun
  ret,         \* the last answer: [op, obj, val]
  reuse,       \* kernel: hands out pids that are still keys of _processes (fixed at the start)
  owner,       \* kernel: what has the pid: a child (by its object), Free or Foreign
  life,        \* kernel: state of the child an object started
  code,        \* kernel: how the child ended, as checkStatus would report it
  chan,        \* kernel: contents of the pipe of a stream
  written,     \* history: what the child wrote
  delivered    \* history: what the agent's caller read

agentVars == <<nobj, alive, pid, exitStatus, open, buf, processes, wait, down, ret>>
osVars == <<reuse, owner, life, code, chan, written>>
vars == <<agentVars, osVars, delivered>>

-----------------------------------------------------------------------------
(* waitpid and kill as the kernel does them for the pid an object holds.   *)

\* The process waitpid(pid[o]) waits for: the kernel knows pids, not objects.
Target(o) == owner[pid[o]]
HasChild(o) == pid[o] # NoPid /\ Target(o) \in Objs
Reapable(o) == HasChild(o) /\ life[Target(o)] = "zombie"

waitpid(o) ==
  IF Reapable(o)
  THEN /\ life' = [life EXCEPT ![Target(o)] = "gone"]
       /\ owner' = [owner EXCEPT ![pid[o]] = Free]
  ELSE UNCHANGED <<life, owner>>

\* ExternalProgram::running(): its answer, and whether it drops the pid.
RunningAnswer(o) == HasChild(o) /\ (Reapable(o) => code[Target(o)] = 0)
DropsPid(o) == Reapable(o) /\ code[Target(o)] # 0

running(o) ==
  /\ waitpid(o)
  /\ IF DropsPid(o)
     THEN /\ exitStatus' = [exitStatus EXCEPT ![o] = code[Target(o)]]
          /\ pid' = [pid EXCEPT ![o] = NoPid]
     ELSE UNCHANGED <<exitStatus, pid>>

Answer(op, o, val) == ret' = [op |-> op, obj |-> o, val |-> val]

-----------------------------------------------------------------------------
(* Process: the buffers.                                                   *)

\* Number of characters up to and including the first line feed, 0 if none.
LineEnd(s) ==
  IF \E i \in 1..Len(s) : s[i] = "nl"
  THEN CHOOSE i \in 1..Len(s) : s[i] = "nl" /\ \A j \in 1..(i-1) : s[j] # "nl"
  ELSE 0

Take(s, n) == SubSeq(s, 1, n)
Drop(s, n) == SubSeq(s, n + 1, Len(s))

\* What receiveUpto('\n') takes from the pipe: one line, or all there is.
UptoLine(s) == IF LineEnd(s) = 0 THEN Len(s) ELSE LineEnd(s)

\* The characters a read of stream s finds: stderr_output is never closed.
Readable(o, s) == IF s = "err" \/ open[o] THEN Len(chan[o][s]) ELSE 0

\* mutant: what was in the buffer is overwritten
TransferOverwrites(o, s, n, k) ==
  LET full == Take(chan[o][s], n) IN
  /\ chan' = [chan EXCEPT ![o][s] = Drop(chan[o][s], n)]
  /\ buf' = [buf EXCEPT ![o][s] = Drop(full, k)]
  /\ delivered' = [delivered EXCEPT ![o][s] = delivered[o][s] \o Take(full, k)]

\* Move n characters from the pipe to the buffer, then hand k of the buffer to the caller.
Transfer(o, s, n, k) ==
  LET full == buf[o][s] \o Take(chan[o][s], n) IN
  /\ chan' = [chan EXCEPT ![o][s] = Drop(chan[o][s], n)]
  /\ buf' = [buf EXCEPT ![o][s] = Drop(full, k)]
  /\ delivered' = [delivered EXCEPT ![o][s] = delivered[o][s] \o Take(full, k)]

\* receiveUpto on stdout, a full drain on stderr.
LineInput(o, s) ==
  IF s = "out" /\ open[o] THEN UptoLine(chan[o][s]) ELSE Readable(o, s)

-----------------------------------------------------------------------------
(* The requests.  Idle: the agent's thread is not blocked in a request.    *)

Idle == wait = NoObj /\ ~down
Managed(p) == processes[p] # NoObj

\* Early returns of Read, Write and Execute: bad arguments, unknown ID, wrong path.
Reject ==
  /\ Idle
  /\ Answer("reject", NoObj, Null)
  /\ UNCHANGED <<nobj, alive, pid, exitStatus, open, buf, processes, wait, down, osVars, delivered>>

\* start_program: fork gives pid p; fdopen fails iff ~streams, and then the
\* constructor itself calls close(), which waits for the child.
\* map::insert leaves an entry that is already there as it is.
Available(p) == owner[p] = Free /\ (reuse \/ ~Managed(p))
Insert(p, o) == IF Managed(p) THEN processes ELSE [processes EXCEPT ![p] = o]

Start(p, streams) ==
  LET o == nobj + 1 IN
  /\ Idle /\ o \in Objs /\ Available(p)
  /\ nobj' = o
  /\ alive' = [alive EXCEPT ![o] = TRUE]
  /\ pid' = [pid EXCEPT ![o] = p]
  /\ owner' = [owner EXCEPT ![p] = o]
  /\ life' = [life EXCEPT ![o] = "run"]
  /\ open' = [open EXCEPT ![o] = streams]
  /\ IF streams
     THEN processes' = Insert(p, o) /\ wait' = wait /\ Answer("start", o, p)
     ELSE processes' = processes /\ wait' = o /\ Answer("starting", o, Nil)
  /\ UNCHANGED <<exitStatus, buf, down, reuse, code, chan, written, delivered>>

\* pipe, openpty or fork failed: the object stays without a child, unmanaged.
StartFails ==
  LET o == nobj + 1 IN
  /\ Idle /\ o \in Objs
  /\ nobj' = o
  /\ alive' = [alive EXCEPT ![o] = TRUE]
  /\ Answer("start", o, Null)
  /\ UNCHANGED <<pid, exitStatus, open, buf, processes, wait, down, osVars, delivered>>

\* Read(.process.running): drains both pipes, then polls.
ReadRunning(p) ==
  LET o == processes[p] IN
  /\ Idle /\ Managed(p)
  /\ chan' = [chan EXCEPT ![o] = [s \in Streams |-> Drop(chan[o][s], Readable(o, s))]]
  /\ buf' = [buf EXCEPT ![o] =
                [s \in Streams |-> buf[o][s] \o Take(chan[o][s], Readable(o, s))]]
  /\ running(o)
  /\ Answer("running", o, IF RunningAnswer(o) THEN 1 ELSE 0)
  /\ UNCHANGED <<nobj, alive, open, processes, wait, down, code, written, delivered, reuse>>

\* Read(.process.read_line) and (.process.read_line_stderr).
ReadLine(p, s) ==
  LET o == processes[p]
      n == LineInput(o, s)
      k == LineEnd(buf[o][s] \o Take(chan[o][s], n))
  IN
  /\ Idle /\ Managed(p)
  /\ Transfer(o, s, n, k)
  /\ Answer("read_line", o, IF k = 0 THEN Nil ELSE k - 1)
  /\ UNCHANGED <<nobj, alive, pid, exitStatus, open, processes, wait, down, owner, life, code, written, reuse>>

\* Read(.process.read) and (.process.read_stderr): all there is, lines or not.
Read(p, s) ==
  LET o == processes[p]
      n == Readable(o, s)
      k == Len(buf[o][s]) + n
  IN
  /\ Idle /\ Managed(p)
  /\ Transfer(o, s, n, k)
  /\ Answer("read", o, IF k = 0 THEN Nil ELSE k)
  /\ UNCHANGED <<nobj, alive, pid, exitStatus, open, processes, wait, down, owner, life, code, written, reuse>>

\* Read(.process.buffer_empty): takes a line into the buffer first.
BufferEmpty(p) ==
  LET o == processes[p]
      n == LineInput(o, "out")
  IN
  /\ Idle /\ Managed(p)
  /\ Transfer(o, "out", n, 0)
  /\ Answer("buffer_empty", o, IF Len(buf[o]["out"]) + n = 0 THEN 1 ELSE 0)
  /\ UNCHANGED <<nobj, alive, pid, exitStatus, open, processes, wait, down, owner, life, code, written, reuse>>

\* Read(.process.status): polls; a process that does not run is closed.  close()
\* finds a pid only if waitpid no longer knows it: the child was reaped with 0.
StalePid(o) == pid[o] # NoPid /\ ~HasChild(o)

ReadStatus(p) ==
  LET o == processes[p] IN
  /\ Idle /\ Managed(p)
  /\ waitpid(o)
  /\ exitStatus' = IF DropsPid(o) THEN [exitStatus EXCEPT ![o] = code[Target(o)]] ELSE exitStatus
  /\ pid' = IF RunningAnswer(o) THEN pid ELSE [pid EXCEPT ![o] = NoPid]
  /\ open' = IF StalePid(o) THEN [open EXCEPT ![o] = FALSE] ELSE open
  /\ Answer("status", o, CASE RunningAnswer(o) -> Nil
                           [] StalePid(o) -> 0
                           [] OTHER -> exitStatus'[o])
  /\ UNCHANGED <<nobj, alive, buf, processes, wait, down, code, chan, written, delivered, reuse>>

\* Write(.process): polls, then sends to the child's stdin.
Write(p) ==
  LET o == processes[p] IN
  /\ Idle /\ Managed(p)
  /\ running(o)
  /\ Answer("write", o, IF RunningAnswer(o) /\ open[o] THEN 1 ELSE 0)
  /\ UNCHANGED <<nobj, alive, open, buf, processes, wait, down, code, chan, written, delivered, reuse>>

\* Execute(.process.kill, id, sig): the signal reaches whatever has the pid now
\* (recorded as the answer's val); a child may survive it.
Hit(o) == IF pid[o] = NoPid THEN Free ELSE Target(o)

KillSignal(p, sig) ==
  LET o == processes[p] IN
  /\ Idle /\ Managed(p)
  /\ \/ UNCHANGED <<life, code>>
     \/ /\ HasChild(o) /\ life[Target(o)] = "run"
        /\ life' = [life EXCEPT ![Target(o)] = "zombie"]
        /\ code' = [code EXCEPT ![Target(o)] = Status(sig)]
  /\ Answer("kill", o, Hit(o))
  /\ UNCHANGED <<nobj, alive, pid, exitStatus, open, buf, processes, wait, down,
                 owner, chan, written, delivered, reuse>>

\* mutant: SIGKILL without waitpid
SlayOnly(o) ==
  IF HasChild(o)
  THEN /\ life' = [life EXCEPT ![Target(o)] = "zombie"]
       /\ code' = [code EXCEPT ![Target(o)] = Status(SIGKILL)]
  ELSE UNCHANGED <<life, code>>

\* SIGKILL followed by waitpid on the child that has the object's pid.
Slay(o) ==
  IF HasChild(o)
  THEN /\ life' = [life EXCEPT ![Target(o)] = "gone"]
       /\ code' = [code EXCEPT ![Target(o)] =
                     IF life[Target(o)] = "run" THEN Status(SIGKILL) ELSE @]
  ELSE UNCHANGED <<life, code>>

\* Execute(.process.kill, id): SIGKILL and close().
Kill(p) ==
  LET o == processes[p] IN
  /\ Idle /\ Managed(p)
  /\ Slay(o)
  /\ owner' = IF pid[o] # NoPid THEN [owner EXCEPT ![pid[o]] = Free] ELSE owner
  /\ open' = IF pid[o] # NoPid THEN [open EXCEPT ![o] = FALSE] ELSE open
  /\ pid' = [pid EXCEPT ![o] = NoPid]
  /\ Answer("kill", o, Hit(o))
  /\ UNCHANGED <<nobj, alive, exitStatus, buf, processes, wait, down, chan, written, delivered, reuse>>

Erase(p) == [processes EXCEPT ![p] = NoObj]

\* delete of a Process: ~Process kills a child that still runs.
Delete(p, op) ==
  LET o == processes[p] IN
  /\ wait = NoObj /\ Managed(p)
  /\ Slay(o)
  /\ owner' = IF HasChild(o) THEN [owner EXCEPT ![pid[o]] = Free] ELSE owner
  /\ pid' = [pid EXCEPT ![o] = NoPid]
  /\ open' = [open EXCEPT ![o] = FALSE]
  /\ alive' = [alive EXCEPT ![o] = FALSE]
  /\ processes' = Erase(p)
  /\ Answer(op, o, 1)
  /\ UNCHANGED <<nobj, exitStatus, buf, wait, down, chan, written, delivered, reuse>>

Release(p) == ~down /\ Delete(p, "release")

\* Execute(.process.close): closeAll().  Its test of stderr_output is never
\* true here, so only stdin and stdout are closed, and only if there is a pid.
Close(p) ==
  LET o == processes[p] IN
  /\ Idle /\ Managed(p)
  /\ IF pid[o] = NoPid
     THEN /\ Answer("close", o, exitStatus[o])
          /\ UNCHANGED <<open, wait>>
     ELSE /\ open' = [open EXCEPT ![o] = FALSE]
          /\ wait' = o
          /\ Answer("closing", o, Nil)
  /\ UNCHANGED <<nobj, alive, pid, exitStatus, buf, processes, down, osVars, delivered>>

\* waitpid in close() returns; the status is returned and not stored.
CloseReturns ==
  LET o == wait IN
  /\ wait # NoObj
  /\ HasChild(o) => Reapable(o)
  /\ waitpid(o)
  /\ pid' = [pid EXCEPT ![o] = NoPid]
  /\ wait' = NoObj
  /\ IF ret.op = "starting"
     THEN Answer("start", o, Null)
     ELSE Answer("close", o, IF HasChild(o) THEN code[Target(o)] ELSE 0)
  /\ UNCHANGED <<nobj, alive, exitStatus, open, buf, processes, down, code, chan, written, delivered, reuse>>

\* ~ProcessAgent deletes the objects in the order of their IDs.
Shutdown ==
  /\ Idle
  /\ down' = TRUE
  /\ UNCHANGED <<nobj, alive, pid, exitStatus, open, buf, processes, wait, ret, osVars, delivered>>

DeleteNext(p) ==
  /\ down
  /\ \A q \in Pids : Managed(q) => p <= q
  /\ Delete(p, "delete")

Stopped == down /\ (\A p \in Pids : ~Managed(p)) /\ UNCHANGED vars

-----------------------------------------------------------------------------
(* The children and the rest of the machine.                               *)

\* A write to a pipe: it blocks while the pipe is full, and is fatal (SIGPIPE)
\* if nobody can read the pipe any more.
ChildWrites(o, s, c) ==
  /\ life[o] = "run" /\ Len(written[o][s]) < MaxOut[s]
  /\ IF s = "err" \/ open[o]
     THEN /\ Len(chan[o][s]) < PipeCap
          /\ chan' = [chan EXCEPT ![o][s] = Append(chan[o][s], c)]
          /\ written' = [written EXCEPT ![o][s] = Append(written[o][s], c)]
          /\ UNCHANGED <<life, code>>
     ELSE /\ life' = [life EXCEPT ![o] = "zombie"]
          /\ code' = [code EXCEPT ![o] = Status(SIGPIPE)]
          /\ UNCHANGED <<chan, written>>
  /\ UNCHANGED <<agentVars, owner, delivered, reuse>>

ChildExits(o, c) ==
  /\ life[o] = "run" /\ \A s \in Streams : Len(written[o][s]) >= Job[s]
  /\ life' = [life EXCEPT ![o] = "zombie"]
  /\ code' = [code EXCEPT ![o] = c]
  /\ UNCHANGED <<agentVars, owner, chan, written, delivered, reuse>>

ForeignStarts(p) ==
  /\ Available(p)
  /\ owner' = [owner EXCEPT ![p] = Foreign]
  /\ UNCHANGED <<agentVars, life, code, chan, written, delivered, reuse>>

ForeignExits(p) ==
  /\ owner[p] = Foreign
  /\ owner' = [owner EXCEPT ![p] = Free]
  /\ UNCHANGED <<agentVars, life, code, chan, written, delivered, reuse>>

-----------------------------------------------------------------------------
Empty == [s \in Streams |-> <<>>]

Init ==
  /\ nobj = 0
  /\ alive = [o \in Objs |-> FALSE]
  /\ pid = [o \in Objs |-> NoPid]
  /\ exitStatus = [o \in Objs |-> 0]
  /\ open = [o \in Objs |-> FALSE]
  /\ buf = [o \in Objs |-> Empty]
  /\ processes = [p \in Pids |-> NoObj]
  /\ wait = NoObj
  /\ down = FALSE
  /\ ret = [op |-> "none", obj |-> NoObj, val |-> Null]
  /\ reuse \in BOOLEAN
  /\ owner = [p \in Pids |-> Free]
  /\ life = [o \in Objs |-> "none"]
  /\ code = [o \in Objs |-> 0]
  /\ chan = [o \in Objs |-> Empty]
  /\ written = [o \in Objs |-> Empty]
  /\ delivered = [o \in Objs |-> Empty]

Request(p) ==
  \/ \E streams \in BOOLEAN : Start(p, streams)
  \/ ReadRunning(p)
  \/ \E s \in Streams : ReadLine(p, s)
  \/ \E s \in Streams : Read(p, s)
  \/ BufferEmpty(p)
  \/ ReadStatus(p)
  \/ Write(p)
  \/ KillSignal(p, 15)
  \/ Kill(p)
  \/ Release(p)
  \/ Close(p)
  \/ DeleteNext(p)

Child(o) ==
  \/ \E s \in Streams, c \in Chars : ChildWrites(o, s, c)
  \/ \E c \in ExitCodes : ChildExits(o, c)

Next ==
  \/ Reject
  \/ StartFails
  \/ \E p \in Pids : Request(p)
  \/ CloseReturns
  \/ Shutdown
  \/ Stopped
  \/ \E o \in Objs : Child(o)
  \/ \E p \in Pids : ForeignStarts(p) \/ ForeignExits(p)

Spec == Init /\ [][Next]_vars

\* The kernel schedules a child that can run, and waitpid returns when it can.
Fairness == WF_vars(CloseReturns) /\ \A o \in Objs : WF_vars(Child(o))
FairSpec == Spec /\ Fairness

-----------------------------------------------------------------------------
(* Properties.                                                             *)

Ops == {"none", "reject", "start", "starting", "running", "read_line", "read", "buffer_empty",
        "status", "write", "kill", "release", "delete", "closing", "close"}

\* The types of the variables.
TypeOK ==
  /\ nobj \in 0..MaxStarts
  /\ alive \in [Objs -> BOOLEAN]
  /\ pid \in [Objs -> Pids \cup {NoPid}]
  /\ exitStatus \in [Objs -> Nat]
  /\ open \in [Objs -> BOOLEAN]
  /\ buf \in [Objs -> [Streams -> Seq(Chars)]]
  /\ processes \in [Pids -> Objs \cup {NoObj}]
  /\ wait \in Objs \cup {NoObj}
  /\ down \in BOOLEAN
  /\ ret \in [op : Ops, obj : Objs \cup {NoObj}, val : Int]
  /\ reuse \in BOOLEAN
  /\ owner \in [Pids -> Objs \cup {Free, Foreign}]
  /\ life \in [Objs -> {"none", "run", "zombie", "gone"}]
  /\ code \in [Objs -> Nat]
  /\ chan \in [Objs -> [Streams -> Seq(Chars)]]
  /\ written \in [Objs -> [Streams -> Seq(Chars)]]
  /\ delivered \in [Objs -> [Streams -> Seq(Chars)]]

\* Whatever mix of read, read_line, running and buffer_empty is used, the
\* caller receives what the child wrote to a stream in order and without a gap
\* or a repetition: it is in the caller's hands, in the object's buffer or in the pipe.
OutputInOrder ==
  \A o \in Objs, s \in Streams :
    delivered[o][s] \o (buf[o][s] \o chan[o][s]) = written[o][s]

\* release and the agent's destructor leave no child behind: the child of a
\* deleted object has ended and has been waited for, even if the pid it
\* had is in use again.
ReleasedIsReaped ==
  \A o \in 1..nobj : ~alive[o] => life[o] = "gone"

\* An ID in _processes belongs to a live object whose pid is that ID, or to
\* one that has already lost its pid.
HandleCoherent ==
  \A p \in Pids : Managed(p) => /\ alive[processes[p]]
                                /\ pid[processes[p]] \in {p, NoPid}

\* As long as no pid is handed out again while it is a key of _processes, a child
\* that has not been waited for can be reached through its ID: no zombie and no
\* running child is lost to the agent.
NoOrphan ==
  ~reuse =>
    \A o \in Objs : life[o] \in {"run", "zombie"} =>
      \E p \in Pids : /\ owner[p] = o /\ pid[o] = p
                      /\ processes[p] = o \/ wait = o

\* A status other than "success" is the true one, and so is any status given
\* before the object was closed.
PolledStatus ==
  (~reuse /\ ret.op = "status" /\ ret.val # Nil /\ (open[ret.obj] \/ ret.val # 0)) =>
    life[ret.obj] = "gone" /\ ret.val = code[ret.obj]

\* A child that failed or was killed is never reported as running once it
\* has been waited for.
FailureIsNotRunning ==
  (~reuse /\ ((ret.op = "running" /\ ret.val = 1) \/ (ret.op = "status" /\ ret.val = Nil))) =>
    (life[ret.obj] = "gone" => code[ret.obj] = 0)

\* The .process agent accounts for its children: a deleted Process has no child
\* left (release, the destructor, ExternalProgram::kill and close); an ID belongs
\* to a live object, and a child that was not waited for can be reached through
\* its ID; a status is that of the child, and a child that failed is not reported
\* as running once it was waited for.
ChildrenAreAccountedFor ==
  /\ TypeOK /\ ReleasedIsReaped /\ HandleCoherent /\ NoOrphan
  /\ PolledStatus /\ FailureIsNotRunning

\* "Close input/output of the process and wait until the process ends"
\* (Execute(.process.close)): the call comes back.
CloseEnds == (wait # NoObj) ~> (wait = NoObj)
=============================================================================
