-------------------------- MODULE ProgramComponent --------------------------
(***************************************************************************)
(* A component that is another program (Y2ProgramComponent) and the        *)
(* program's end of the conversation (Y2StdioComponent and the main        *)
(* program of genericfrontend).  The two speak over two pipes.             *)
(*                                                                         *)
(* As a server the program is sent commands and answers them; the first    *)
(* message of a YaST2 server is the argument list its stdio client is      *)
(* given.  As a client it is sent its arguments, asks for evaluations in   *)
(* the user interface and at last sends its result.  It may die at any     *)
(* time; what it has written can still be read.                            *)
(*                                                                         *)
(* A message is written and read as a whole, apart from the linefeed after *)
(* it.  A program that is not of YaST2 is taken to behave as one that is,  *)
(* but for the arguments.                                                  *)
(***************************************************************************)
EXTENDS Integers, Sequences

CONSTANTS
  MaxCalls,      \* bound: calls of the component
  MaxLaunches,   \* bound: times the program is launched
  MaxQuestions   \* bound: evaluations that a client asks for

ASSUME ProgramAssumption == MaxCalls \in Nat /\ MaxLaunches \in Nat /\ MaxQuestions \in Nat

VARIABLES
  role,           \* how the component is used: "server" or "client"
  is_non_y2,
  pid,            \* the launch it stands for, 0 for -1
  at,             \* where the caller is in a call of the component
  call,           \* that call: its kind and number
  message,        \* what it sends
  open,           \* the caller's ends of the pipes are open
  to_external, from_external,
  child,          \* where the program is, and the number of its command or question
  launches, calls,
  returned,       \* history: what each call returned
  result_sent     \* history: the client has sent its result

program == <<child, to_external, from_external, result_sent>>
fixed == <<role, is_non_y2>>
vars == <<fixed, pid, at, call, message, open, program, launches, calls, returned>>

Call == [kind : {"none", "evaluate", "result", "doActualWork", "delete"}, n : Nat]
Message == [kind : {"arglist", "command", "answer", "result", "nil", "void"}, n : Nat]
Msg(kind, n) == [kind |-> kind, n |-> n]
Void == Msg("void", 0)

Children == [st : {"none", "start", "loop", "work", "ask", "answer", "confused", "zombie"}, n : Nat]
Child(st, n) == [st |-> st, n |-> n]
NoChild == Child("none", 0)
Running == child.st \notin {"none", "zombie"}

Init ==
  /\ role \in {"server", "client"} /\ is_non_y2 \in BOOLEAN
  /\ pid = 0 /\ at = "idle" /\ call = [kind |-> "none", n |-> 0] /\ message = Void
  /\ open = FALSE /\ to_external = <<>> /\ from_external = <<>>
  /\ child = NoChild /\ launches = 0 /\ calls = 0
  /\ returned = {} /\ result_sent = FALSE

-----------------------------------------------------------------------------
(* Y2ProgramComponent: the calls.                                          *)

launchExternalProgram ==
  /\ launches < MaxLaunches
  /\ launches' = launches + 1 /\ pid' = launches + 1
  /\ child' = Child("start", 0) /\ result_sent' = FALSE
  /\ open' = TRUE /\ to_external' = <<>> /\ from_external' = <<>>
NotLaunched == UNCHANGED <<launches, pid, open, program>>

Begin(kind, first, m) ==
  /\ at = "idle" /\ calls < MaxCalls
  /\ calls' = calls + 1 /\ call' = [kind |-> kind, n |-> calls + 1]
  /\ at' = first /\ message' = m
  /\ UNCHANGED <<fixed, returned>>

\* mutants: no server sends arguments first; every server does
NeverFirst == FALSE
AlwaysFirst == TRUE
\* "the server will send me my arguments": a program that is not of YaST2 will not
SendsArguments == ~is_non_y2

\* The program is launched if it is not there.
evaluate ==
  /\ role = "server"
  /\ Begin("evaluate", IF pid = 0 /\ SendsArguments THEN "first" ELSE "send", Msg("command", calls + 1))
  /\ IF pid = 0 THEN launchExternalProgram ELSE NotLaunched

\* Y2StdioFunction::evaluateCall does not launch it; SCROpen has used the component before.
evaluateCall ==
  /\ role = "server" /\ launches > 0
  /\ Begin("evaluate", "send", Msg("command", calls + 1)) /\ NotLaunched

result ==
  /\ role = "server" /\ pid # 0
  /\ Begin("result", "send", Msg("result", 0)) /\ NotLaunched

\* mutant: every client is sent its arguments
AlwaysSent == TRUE
\* A YaST2 client is sent its arguments, another one has them on its command line.
GetsArguments == ~is_non_y2

doActualWork ==
  /\ role = "client" /\ pid = 0
  /\ Begin("doActualWork", IF GetsArguments THEN "send" ELSE "receive", Msg("arglist", 0))
  /\ launchExternalProgram

\* mutant: the pipes are left open
LeaveOpen == UNCHANGED open
ClosePipes == open' = FALSE

\* ~Y2ProgramComponent
Destroy ==
  /\ pid # 0 /\ Begin("delete", "wait", Void) /\ ClosePipes
  /\ UNCHANGED <<launches, pid, program>>

-----------------------------------------------------------------------------
(* Y2ProgramComponent: the steps of a call.                                *)

Return(value) ==
  /\ at' = "idle" /\ returned' = returned \cup {[call |-> call, value |-> value]}

Reaped == pid' = 0 /\ child' = NoChild
\* mutant: the program is not waited for
NotReaped == pid' = 0 /\ UNCHANGED child
WaitPid == Reaped

\* The value is written, or nobody is there to read it: terminateExternalProgram
sendToExternal ==
  /\ at = "send" /\ at' = "linefeed"
  /\ IF open /\ Running
     THEN to_external' = Append(to_external, message) /\ UNCHANGED <<pid, open, child>>
     ELSE /\ IF pid # 0 THEN WaitPid /\ ClosePipes ELSE UNCHANGED <<pid, child, open>>
          /\ UNCHANGED to_external
  /\ UNCHANGED <<fixed, call, message, from_external, result_sent, launches, calls, returned>>

\* mutant: a linefeed that cannot be sent is an error as well
FailingLinefeed ==
  IF open /\ ~Running THEN WaitPid /\ ClosePipes ELSE UNCHANGED <<pid, child, open>>
\* "We MUST NOT trigger an error, if the sending of the linefeed is not successful."
Linefeed == UNCHANGED <<pid, child, open>>

sendLinefeed ==
  /\ at = "linefeed"
  /\ IF call.kind = "result"
     THEN IF pid # 0 THEN at' = "wait" /\ ClosePipes /\ UNCHANGED <<pid, child, returned>>
                     ELSE Return(Void) /\ UNCHANGED <<pid, child, open>>
     ELSE at' = "receive" /\ Linefeed /\ UNCHANGED returned
  /\ UNCHANGED <<fixed, call, message, to_external, from_external, result_sent, launches, calls>>

\* terminateExternalProgram: waitpid, with the pipes closed
terminateExternalProgram ==
  /\ at = "wait" /\ child.st = "zombie"
  /\ WaitPid /\ Return(Void)
  /\ UNCHANGED <<fixed, call, message, open, to_external, from_external, result_sent, launches, calls>>

\* kill (pid, 0) succeeds for a zombie
externalProgramOK == pid # 0 /\ child.st # "none"

\* receiveFromExternal: a message, or null: the program is gone and all is read
Received == externalProgramOK /\ from_external # <<>>
ReceivedNull == ~externalProgramOK \/ (from_external = <<>> /\ child.st = "zombie")
Receiving(p) ==
  /\ at = p
  /\ UNCHANGED <<fixed, pid, call, open, child, to_external, result_sent, launches, calls>>

\* The arguments are ignored.
receiveArguments ==
  /\ Receiving("first")
  /\ \/ Received /\ from_external' = Tail(from_external) /\ at' = "send" /\ UNCHANGED returned
     \/ ReceivedNull /\ Return(Void) /\ UNCHANGED from_external
  /\ UNCHANGED message

receiveAnswer ==
  /\ call.kind = "evaluate" /\ Receiving("receive")
  /\ \/ Received /\ from_external' = Tail(from_external) /\ Return(Head(from_external))
     \/ ReceivedNull /\ Return(Void) /\ UNCHANGED from_external
  /\ UNCHANGED message

\* The loop of doActualWork; the user interface evaluates what is not a result.
receiveFromClient ==
  /\ call.kind = "doActualWork" /\ Receiving("receive")
  /\ \/ /\ Received /\ from_external' = Tail(from_external)
        /\ IF Head(from_external).kind = "result" THEN Return(Head(from_external)) /\ UNCHANGED message
           ELSE at' = "send" /\ message' = Msg("answer", Head(from_external).n) /\ UNCHANGED returned
     \/ ReceivedNull /\ Return(Void) /\ UNCHANGED <<from_external, message>>

-----------------------------------------------------------------------------
(* The program: Y2StdioComponent and main.                                 *)

ProgramStep(st, next) ==
  /\ child.st = st /\ child' = next
  /\ UNCHANGED <<fixed, pid, at, call, message, open, launches, calls, returned>>

\* A write fails when the caller has closed the pipe, and nobody notices.
send(m) == from_external' = IF open THEN Append(from_external, m) ELSE from_external
SendNothing == UNCHANGED from_external
Readable == to_external # <<>>
AtEOF == to_external = <<>> /\ ~open
Read == to_external' = Tail(to_external)

ServerStart ==
  /\ role = "server" /\ ProgramStep("start", Child("loop", 0))
  /\ IF is_non_y2 THEN SendNothing ELSE send(Msg("arglist", 0))
  /\ UNCHANGED <<to_external, result_sent>>

\* The loop of Y2StdioComponent::doActualWork; at the end of the input (nil) is sent.
ServerReceive ==
  /\ role = "server"
  /\ \/ /\ Readable /\ Read /\ SendNothing
        /\ ProgramStep("loop", IF Head(to_external).kind = "result" THEN Child("zombie", 0)
                               ELSE Child("work", Head(to_external).n))
     \/ AtEOF /\ ProgramStep("loop", Child("zombie", 0)) /\ send(Msg("nil", 0)) /\ UNCHANGED to_external
  /\ UNCHANGED result_sent

ServerAnswer ==
  /\ ProgramStep("work", Child("loop", 0)) /\ send(Msg("answer", child.n))
  /\ UNCHANGED <<to_external, result_sent>>

\* parse_client_and_options: the option -s
ClientStart ==
  /\ role = "client"
  /\ \/ ~is_non_y2 /\ Readable /\ Read /\ ProgramStep("start", Child("ask", 0))
     \/ ~is_non_y2 /\ AtEOF /\ ProgramStep("start", Child("zombie", 0)) /\ UNCHANGED to_external
     \/ is_non_y2 /\ ProgramStep("start", Child("ask", 0)) /\ UNCHANGED to_external
  /\ UNCHANGED <<from_external, result_sent>>

\* Y2StdioComponent::evaluate: "Couldn't read return value from stdin. Aborting!"
ClientAsk ==
  /\ child.n < MaxQuestions
  /\ ProgramStep("ask", Child("answer", child.n + 1)) /\ send(Msg("command", child.n + 1))
  /\ UNCHANGED <<to_external, result_sent>>

ClientAnswer ==
  /\ \/ /\ Readable /\ Read
        /\ ProgramStep("answer", IF Head(to_external) = Msg("answer", child.n) THEN Child("ask", child.n)
                                 ELSE Child("confused", child.n))
     \/ AtEOF /\ ProgramStep("answer", Child("zombie", 0)) /\ UNCHANGED to_external
  /\ UNCHANGED <<from_external, result_sent>>

\* Y2StdioComponent::result and the end of main
ClientResult ==
  /\ ProgramStep("ask", Child("zombie", 0)) /\ send(Msg("result", 0)) /\ result_sent' = open
  /\ UNCHANGED to_external

\* The program dies.
Die ==
  /\ Running /\ child' = Child("zombie", 0)
  /\ UNCHANGED <<fixed, pid, at, call, message, open, to_external, from_external, result_sent,
                 launches, calls, returned>>

-----------------------------------------------------------------------------
CallStep ==
  \/ sendToExternal \/ sendLinefeed \/ terminateExternalProgram
  \/ receiveArguments \/ receiveAnswer \/ receiveFromClient
Program ==
  \/ ServerStart \/ ServerReceive \/ ServerAnswer
  \/ ClientStart \/ ClientAsk \/ ClientAnswer \/ ClientResult

Next ==
  \/ evaluate \/ evaluateCall \/ result \/ doActualWork \/ Destroy
  \/ CallStep \/ Program \/ Die

Spec == Init /\ [][Next]_vars
\* The caller goes on with the call it is in, and the program with what it is asked.
FairSpec == Spec /\ WF_vars(CallStep) /\ WF_vars(Program)
-----------------------------------------------------------------------------
(* Properties.                                                             *)

\* The types of the variables.
TypeOK ==
  /\ role \in {"server", "client"} /\ is_non_y2 \in BOOLEAN /\ open \in BOOLEAN /\ result_sent \in BOOLEAN
  /\ pid \in 0..launches /\ launches \in Nat /\ calls \in Nat
  /\ at \in {"idle", "first", "send", "linefeed", "receive", "wait"}
  /\ message \in Message /\ to_external \in Seq(Message) /\ from_external \in Seq(Message)
  /\ child \in Children
  /\ call \in Call /\ returned \subseteq [call : Call, value : Message]

\* What evaluate returns for a command is the answer to that command or nothing,
\* never the arguments a server sends first, nor the answer to an earlier command
\* whatever died and was launched again in between.
AnswersMatch ==
  \A r \in returned :
    r.call.kind = "evaluate" => r.value = Void \/ r.value = Msg("answer", r.call.n)

\* A client is given the answers to its own questions.
QuestionsAnswered == child.st # "confused"

\* A result that the client has sent is what doActualWork returns, also when the
\* client has ended before the last linefeed was sent to it ("which is very
\* important. Otherwise the result value would be dropped").
ResultNotDropped ==
  result_sent =>
    \A r \in returned : r.call = call /\ call.kind = "doActualWork" => r.value = Msg("result", 0)

\* The two never wait for each other with nothing on the way.
NotBothWaiting ==
  ~ /\ at \in {"first", "receive"} /\ from_external = <<>>
    /\ child.st \in {"loop", "answer"} /\ to_external = <<>>
    /\ pid # 0

\* At most one message is on the way, in one direction: neither side ever blocks
\* writing to a pipe that is full because the other one is writing as well.
HalfDuplex == Len(to_external) + Len(from_external) <= 1

\* Caller and program take turns: one of them speaks at a time, and they never wait
\* for each other (Y2ProgramComponent::evaluate and doActualWork against the
\* program's end of the conversation).
TheyTakeTurns == NotBothWaiting /\ HalfDuplex

\* terminateExternalProgram collects the process: without a pid there is no process,
\* running or zombie, left over from an earlier launch.
NothingLeftBehind == pid = 0 => child = NoChild

\* Every call of the component returns: also result and the destructor, which wait
\* for the program to end without killing it.
CallsReturn == at # "idle" ~> at = "idle"
=============================================================================
