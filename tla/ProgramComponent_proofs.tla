---------------------- MODULE ProgramComponent_proofs ----------------------
(***************************************************************************)
(* The conversation of ProgramComponent for any number of calls, launches  *)
(* and questions: answers belong to their questions, results arrive, the   *)
(* two sides never write at the same time nor wait for each other, and no  *)
(* process is left behind.                                                 *)
(***************************************************************************)
EXTENDS ProgramComponent, TLAPS

-----------------------------------------------------------------------------
(* The inductive invariant.  It says whose turn it is: in every state one  *)
(* of the caller, the pipe to the program, the program and the pipe from   *)
(* it has the conversation, and which one follows from where the two are.  *)

Pipes(to, from) == to_external = to /\ from_external = from
Quiet == Pipes(<<>>, <<>>)
Exchange == at \in {"linefeed", "receive"}

\* A server that runs: before its arguments are read, between commands, while it
\* has a command, and after the pipes were closed.
ServerTurn ==
  \/ at = "first" /\ child.st = "start" /\ ~is_non_y2 /\ Quiet
  \/ at = "first" /\ child.st = "loop" /\ Pipes(<<>>, <<Msg("arglist", 0)>>)
  \/ at = "send" /\ child.st = "start" /\ is_non_y2 /\ call.kind = "evaluate" /\ Quiet
  \/ at \in {"idle", "send"} /\ child.st = "loop" /\ Quiet
  \/ Exchange /\ child.st = "start" /\ is_non_y2 /\ call.kind = "evaluate" /\ Pipes(<<message>>, <<>>)
  \/ Exchange /\ child.st = "loop" /\ Pipes(<<message>>, <<>>)
  \/ Exchange /\ call.kind = "evaluate" /\ child = Child("work", call.n) /\ Quiet
  \/ Exchange /\ call.kind = "evaluate" /\ child.st = "loop" /\ Pipes(<<>>, <<Msg("answer", call.n)>>)
  \/ at = "wait" /\ child.st = "loop" /\ from_external = <<>> /\ to_external \in {<<>>, <<Msg("result", 0)>>}

\* A client that runs: before its arguments are read, between its questions, and
\* while one is asked or answered.
ClientTurn ==
  \/ at = "send" /\ child.st = "start" /\ ~is_non_y2 /\ message = Msg("arglist", 0) /\ Quiet
  \/ Exchange /\ child.st = "start" /\ ~is_non_y2 /\ Pipes(<<Msg("arglist", 0)>>, <<>>)
  \/ Exchange /\ child.st = "start" /\ is_non_y2 /\ Quiet
  \/ Exchange /\ child.st = "ask" /\ Quiet
  \/ Exchange /\ child.st = "answer" /\ Pipes(<<>>, <<Msg("command", child.n)>>)
  \/ at = "send" /\ child.st = "answer" /\ message = Msg("answer", child.n) /\ Quiet
  \/ Exchange /\ child.st = "answer" /\ Pipes(<<Msg("answer", child.n)>>, <<>>)

\* What a program that has ended may have left to read.
LastWords ==
  IF role = "server"
  THEN \/ at = "first" /\ from_external = <<Msg("arglist", 0)>>
       \/ Exchange /\ call.kind = "evaluate" /\ from_external = <<Msg("answer", call.n)>>
  ELSE \/ Exchange /\ result_sent /\ from_external = <<Msg("result", 0)>>
       \/ Exchange /\ from_external = <<Msg("command", Head(from_external).n)>>

Turn ==
  /\ child.st = "none" => from_external = <<>> /\ at # "first"
  /\ child.st = "zombie" => from_external = <<>> \/ (LastWords /\ to_external = <<>>)
  /\ Running => IF role = "server" THEN ServerTurn ELSE ClientTurn

\* The call in progress, and what it sends.
CallOK ==
  /\ at # "idle" =>
       /\ call.n = calls
       /\ call.kind \in IF role = "server" THEN {"evaluate", "result", "delete"}
                                          ELSE {"doActualWork", "delete"}
       /\ at \in {"first", "send"} \/ Exchange => call.kind # "delete"
  /\ at \in {"first", "receive"} => call.kind # "result"
  /\ at = "wait" => call.kind \in {"result", "delete"}
  /\ role = "server" /\ at # "idle" =>
       /\ call.kind = "evaluate" => message = Msg("command", call.n)
       /\ call.kind = "result" => message = Msg("result", 0)

\* The component and the process it stands for.
ProcessOK ==
  /\ pid = 0 <=> child = NoChild
  /\ pid = 0 <=> child.st = "none"
  /\ open <=> pid # 0 /\ at # "wait"
  /\ at = "wait" => pid # 0
  /\ role = "client" /\ at \in {"idle", "wait"} => ~Running
  /\ Len(to_external) <= 1

\* A result was sent: it can be read, or was returned.
ResultOK ==
  result_sent =>
    /\ role = "client" /\ at \in {"linefeed", "receive", "idle", "wait"}
    /\ Exchange => child.st = "zombie" /\ Pipes(<<>>, <<Msg("result", 0)>>)

\* Numbers tell calls apart.
ReturnedOK ==
  \A r \in returned :
    /\ r.call.n \in Nat /\ r.call.n <= calls
    /\ at # "idle" => r.call.n < calls

IInv ==
  /\ TypeOK /\ Turn /\ CallOK /\ ProcessOK /\ ResultOK /\ ReturnedOK
  /\ AnswersMatch /\ ResultNotDropped

-----------------------------------------------------------------------------
(* Sequences of at most one message.                                       *)

LEMMA Single ==
  /\ Len(<<>>) = 0
  /\ \A m \in Message : /\ Append(<<>>, m) = <<m>> /\ <<m>> \in Seq(Message)
                        /\ Head(<<m>>) = m /\ Tail(<<m>>) = <<>>
                        /\ Len(<<m>>) = 1 /\ <<m>> # <<>>
  OBVIOUS

\* A sequence of one element is not empty.
LEMMA OneElement == \A m : Len(<<m>>) = 1 /\ <<m>> # <<>>
  OBVIOUS

\* What append and read do to the type of a pipe.
LEMMA SeqType ==
  /\ <<>> \in Seq(Message)
  /\ \A s \in Seq(Message) : \A m \in Message : Append(s, m) \in Seq(Message)
  /\ \A s \in Seq(Message) : s # <<>> => Head(s) \in Message /\ Tail(s) \in Seq(Message)
  OBVIOUS

\* The messages of the protocol.
LEMMA MsgType ==
  /\ \A k \in {"arglist", "command", "answer", "result", "nil", "void"}, n \in Nat : Msg(k, n) \in Message
  /\ Void \in Message
  /\ \A m \in Message : m.n \in Nat
  BY DEF Msg, Message, Void

\* launchExternalProgram keeps the types.
LEMMA LaunchType ==
  ASSUME TypeOK, launchExternalProgram
  PROVE  /\ launches' \in Nat /\ pid' \in 0..launches'
         /\ child' \in Children
         /\ open' \in BOOLEAN /\ result_sent' \in BOOLEAN
         /\ to_external' \in Seq(Message) /\ from_external' \in Seq(Message)
<1>1. launches' \in Nat /\ pid' \in 0..launches'
  BY DEF TypeOK, launchExternalProgram
<1>2. child' \in Children
  BY DEF launchExternalProgram, Child, Children
<1> QED BY <1>1, <1>2, SeqType DEF launchExternalProgram

\* The beginning of a call keeps the types.
LEMMA BeginType ==
  ASSUME TypeOK, NEW kind \in {"none", "evaluate", "result", "doActualWork", "delete"},
         NEW first \in {"idle", "first", "send", "linefeed", "receive", "wait"},
         NEW m \in Message, Begin(kind, first, m)
  PROVE  /\ role' \in {"server", "client"} /\ is_non_y2' \in BOOLEAN /\ at' = first
         /\ calls' \in Nat /\ call' \in Call /\ message' \in Message
         /\ returned' \subseteq [call : Call, value : Message]
  BY DEF TypeOK, Begin, Call, fixed

\* The end of a call keeps the types.
LEMMA ReturnType ==
  ASSUME TypeOK, NEW value \in Message, Return(value)
  PROVE  returned' \subseteq [call : Call, value : Message] /\ at' = "idle"
  BY DEF TypeOK, Return

-----------------------------------------------------------------------------
(* The calls.                                                              *)

\* evaluate: a program that was launched has the turn if it sends its arguments first, else the caller.
LEMMA EvaluateStep == ASSUME IInv, evaluate PROVE IInv'
<1>1. TypeOK'
  <2>1. calls + 1 \in Nat /\ Msg("command", calls + 1) \in Message
    BY MsgType DEF IInv, TypeOK
  <2>2. CASE pid = 0
    BY <2>1, <2>2, BeginType, LaunchType DEF IInv, TypeOK, evaluate
  <2>3. CASE pid # 0
    BY <2>1, <2>3, BeginType DEF IInv, TypeOK, evaluate, NotLaunched, program
  <2> QED BY <2>2, <2>3
<1> USE DEF Msg, Child, NoChild, Void, Running
<1>2. Turn'
  BY DEF IInv, Turn, ServerTurn, LastWords, Pipes, Quiet, Exchange, CallOK, ProcessOK, evaluate,
     Begin, SendsArguments, launchExternalProgram, NotLaunched, fixed, program
<1>3. CallOK' /\ ProcessOK'
  BY DEF IInv, TypeOK, CallOK, ProcessOK, Exchange, evaluate, Begin, SendsArguments,
     launchExternalProgram, NotLaunched, fixed, program
<1>4. ResultOK' /\ ReturnedOK'
  BY DEF IInv, TypeOK, ResultOK, ReturnedOK, Exchange, Pipes, evaluate, Begin, SendsArguments,
     launchExternalProgram, NotLaunched, fixed, program
<1>5. AnswersMatch' /\ ResultNotDropped'
  BY DEF IInv, AnswersMatch, ResultNotDropped, evaluate, Begin, SendsArguments,
     launchExternalProgram, NotLaunched, fixed, program
<1> QED BY <1>1, <1>2, <1>3, <1>4, <1>5 DEF IInv

\* evaluateCall: the caller has the turn, with or without a program.
LEMMA EvaluateCallStep == ASSUME IInv, evaluateCall PROVE IInv'
<1>1. TypeOK'
  BY SeqType, MsgType, ReturnType DEF IInv, TypeOK, Children, Child, NoChild, Running, Call,
     evaluateCall,
     Begin, NotLaunched, fixed, program
<1> USE DEF Msg, Child, NoChild, Void, Running
<1>2. Turn'
  BY DEF IInv, Turn, ServerTurn, LastWords, Pipes, Quiet, Exchange, CallOK, ProcessOK,
     evaluateCall, Begin, NotLaunched, fixed, program
<1>3. CallOK' /\ ProcessOK'
  BY DEF IInv, CallOK, ProcessOK, Exchange, evaluateCall, Begin, NotLaunched, fixed, program
<1>4. ResultOK' /\ ReturnedOK'
  BY DEF IInv, TypeOK, ResultOK, ReturnedOK, Exchange, Pipes, evaluateCall, Begin, NotLaunched,
     fixed, program
<1>5. AnswersMatch' /\ ResultNotDropped'
  BY DEF IInv, AnswersMatch, ResultNotDropped, evaluateCall, Begin, NotLaunched, fixed, program
<1> QED BY <1>1, <1>2, <1>3, <1>4, <1>5 DEF IInv

\* result begins between two commands.
LEMMA ResultStep == ASSUME IInv, result PROVE IInv'
<1>1. TypeOK'
  BY SeqType, MsgType, ReturnType DEF IInv, TypeOK, Children, Child, NoChild, Running, Call,
     result, Begin,
     NotLaunched, fixed, program
<1> USE DEF Msg, Child, NoChild, Void, Running
<1>2. Turn'
  BY DEF IInv, Turn, ServerTurn, LastWords, Pipes, Quiet, Exchange, CallOK, ProcessOK, result,
     Begin, NotLaunched, fixed, program
<1>3. CallOK' /\ ProcessOK'
  BY DEF IInv, CallOK, ProcessOK, Exchange, result, Begin, NotLaunched, fixed, program
<1>4. ResultOK' /\ ReturnedOK'
  BY DEF IInv, TypeOK, ResultOK, ReturnedOK, Exchange, Pipes, result, Begin, NotLaunched, fixed,
     program
<1>5. AnswersMatch' /\ ResultNotDropped'
  BY DEF IInv, AnswersMatch, ResultNotDropped, result, Begin, NotLaunched, fixed, program
<1> QED BY <1>1, <1>2, <1>3, <1>4, <1>5 DEF IInv

\* doActualWork: the caller has the turn if it has arguments to send, else the program.
LEMMA DoActualWorkStep == ASSUME IInv, doActualWork PROVE IInv'
<1>1. TypeOK'
  <2>1. Msg("arglist", 0) \in Message
    BY MsgType
  <2> QED BY <2>1, BeginType, LaunchType DEF IInv, TypeOK, doActualWork
<1> USE DEF Msg, Child, NoChild, Void, Running
<1>2. Turn'
  BY DEF IInv, Turn, ClientTurn, LastWords, Pipes, Quiet, Exchange, CallOK, ProcessOK,
     doActualWork, Begin, GetsArguments, launchExternalProgram, fixed, program
<1>3. CallOK' /\ ProcessOK'
  BY DEF IInv, TypeOK, CallOK, ProcessOK, Exchange, doActualWork, Begin, GetsArguments,
     launchExternalProgram, fixed, program
<1>4. ResultOK' /\ ReturnedOK'
  BY DEF IInv, TypeOK, ResultOK, ReturnedOK, Exchange, Pipes, doActualWork, Begin, GetsArguments,
     launchExternalProgram, fixed, program
<1>5. AnswersMatch' /\ ResultNotDropped'
  BY DEF IInv, AnswersMatch, ResultNotDropped, doActualWork, Begin, GetsArguments,
     launchExternalProgram, fixed, program
<1> QED BY <1>1, <1>2, <1>3, <1>4, <1>5 DEF IInv

\* The destructor begins between two commands.
LEMMA DestroyStep == ASSUME IInv, Destroy PROVE IInv'
<1>1. TypeOK'
  BY BeginType, MsgType DEF IInv, TypeOK, Destroy, ClosePipes, program
<1> USE DEF Msg, Child, NoChild, Void, Running
<1>2. Turn'
  BY Single DEF IInv, TypeOK, Turn, ServerTurn, LastWords, Pipes, Quiet, Exchange, CallOK,
     ProcessOK, Destroy, Begin, ClosePipes, fixed, program
<1>3. CallOK' /\ ProcessOK'
  BY DEF IInv, CallOK, ProcessOK, Exchange, Destroy, Begin, ClosePipes, fixed, program
<1>4. ResultOK' /\ ReturnedOK'
  BY DEF IInv, TypeOK, ResultOK, ReturnedOK, Exchange, Pipes, Destroy, Begin, ClosePipes, fixed,
     program
<1>5. AnswersMatch' /\ ResultNotDropped'
  BY DEF IInv, AnswersMatch, ResultNotDropped, Destroy, Begin, ClosePipes, fixed, program
<1> QED BY <1>1, <1>2, <1>3, <1>4, <1>5 DEF IInv

-----------------------------------------------------------------------------
(* The steps of a call.                                                    *)

\* sendToExternal passes the turn on, or finds that the program is gone.
LEMMA SendToExternalStep == ASSUME IInv, sendToExternal PROVE IInv'
<1>1. TypeOK'
  <2>1. CASE open /\ Running
    <3>1. to_external' = Append(to_external, message) /\ UNCHANGED <<pid, open, child>>
      BY <2>1 DEF sendToExternal
    <3> QED BY <3>1, SeqType DEF IInv, TypeOK, sendToExternal, fixed
  <2>2. CASE ~(open /\ Running) /\ pid # 0
    <3>1. pid' = 0 /\ child' = NoChild /\ open' = FALSE /\ UNCHANGED to_external
      BY <2>2 DEF sendToExternal, WaitPid, Reaped, ClosePipes
    <3>2. child' \in Children
      BY <3>1 DEF NoChild, Child, Children
    <3>3. pid' \in 0..launches
      BY <3>1, launches \in Nat DEF IInv, TypeOK
    <3> QED BY ZenonT(60), <3>1, <3>2, <3>3 DEF IInv, TypeOK, sendToExternal, fixed
  <2>3. CASE ~(open /\ Running) /\ pid = 0
    <3>1. UNCHANGED <<pid, child, open, to_external>>
      BY <2>3 DEF sendToExternal
    <3> QED BY <3>1 DEF IInv, TypeOK, sendToExternal, fixed
  <2> QED BY <2>1, <2>2, <2>3
<1> USE DEF Child, NoChild, Running
<1>2. Turn'
  <2>1. CASE open /\ Running
    <3>1. to_external = <<>> /\ from_external = <<>> /\ message \in Message
      BY <2>1 DEF IInv, TypeOK, Turn, ServerTurn, ClientTurn, LastWords, Pipes, Quiet, Exchange,
         CallOK,
       ProcessOK, sendToExternal
    <3>2. to_external' = <<message>>
      BY SMTT(60), <2>1, <3>1, Single DEF sendToExternal
    <3> QED BY <2>1, <3>1, <3>2 DEF IInv, TypeOK, Turn, ServerTurn, ClientTurn, LastWords, Pipes,
       Quiet, Exchange, CallOK,
       ProcessOK, sendToExternal, fixed
  <2>2. CASE ~(open /\ Running)
    BY <2>2 DEF IInv, TypeOK, Turn, ServerTurn, ClientTurn, LastWords, Pipes, Quiet, Exchange,
       CallOK,
       ProcessOK, sendToExternal, WaitPid, Reaped, ClosePipes, fixed
  <2> QED BY <2>1, <2>2
<1>3. CallOK' /\ ProcessOK'
  BY DEF IInv, TypeOK, Turn, ServerTurn, ClientTurn, Pipes, Quiet, CallOK, ProcessOK, Exchange,
     sendToExternal, WaitPid, Reaped, ClosePipes, fixed, program
<1>4. ResultOK' /\ ReturnedOK'
  BY DEF IInv, ResultOK, ReturnedOK, Exchange, Pipes, sendToExternal, WaitPid, Reaped, ClosePipes,
     fixed, program
<1>5. AnswersMatch' /\ ResultNotDropped'
  BY DEF IInv, AnswersMatch, ResultNotDropped, sendToExternal, WaitPid, Reaped, ClosePipes, fixed,
     program
<1> QED BY <1>1, <1>2, <1>3, <1>4, <1>5 DEF IInv

\* The linefeed changes nothing but where the caller is; after a result the pipes are closed.
LEMMA SendLinefeedStep == ASSUME IInv, sendLinefeed PROVE IInv'
<1>1. TypeOK'
  BY ZenonT(60), SeqType, MsgType, ReturnType DEF IInv, TypeOK, Children, Child, sendLinefeed, Linefeed, Return,
     ClosePipes, fixed, program
<1> USE DEF Msg, Child, NoChild, Void, Running
<1>2. Turn'
  BY Single, MsgType DEF IInv, TypeOK, Turn, ServerTurn, ClientTurn, LastWords, Pipes, Quiet,
     Exchange, CallOK,
     ProcessOK, sendLinefeed, Linefeed, Return, ClosePipes, fixed, program
<1>3. CallOK' /\ ProcessOK'
  BY DEF IInv, CallOK, ProcessOK, Exchange, sendLinefeed, Linefeed, Return, ClosePipes, fixed,
     program
<1>4. ResultOK' /\ ReturnedOK'
  BY DEF IInv, TypeOK, CallOK, ProcessOK, ResultOK, ReturnedOK, Exchange, Pipes, sendLinefeed,
     Linefeed, Return, ClosePipes, fixed, program
<1>5. AnswersMatch' /\ ResultNotDropped'
  BY DEF IInv, AnswersMatch, ResultNotDropped, sendLinefeed, Linefeed, Return, ClosePipes, fixed,
     program
<1> QED BY <1>1, <1>2, <1>3, <1>4, <1>5 DEF IInv

\* terminateExternalProgram collects the process.
LEMMA TerminateExternalProgramStep == ASSUME IInv, terminateExternalProgram PROVE IInv'
<1>1. TypeOK'
  BY SeqType, MsgType, ReturnType DEF IInv, TypeOK, Children, Child, NoChild, Running, Call,
     terminateExternalProgram, WaitPid, Reaped, Return, fixed, program
<1> USE DEF Msg, Child, NoChild, Void, Running
<1>2. Turn'
  BY DEF IInv, Turn, LastWords, Exchange, terminateExternalProgram, WaitPid, Reaped, Return, fixed,
     program
<1>3. CallOK' /\ ProcessOK'
  BY DEF IInv, CallOK, ProcessOK, Exchange, terminateExternalProgram, WaitPid, Reaped, Return,
     fixed, program
<1>4. ResultOK' /\ ReturnedOK'
  BY DEF IInv, TypeOK, CallOK, ProcessOK, ResultOK, ReturnedOK, Exchange, Pipes,
     terminateExternalProgram, WaitPid, Reaped, Return, fixed, program
<1>5. AnswersMatch' /\ ResultNotDropped'
  BY DEF IInv, CallOK, ReturnedOK, ResultOK, AnswersMatch, ResultNotDropped,
     terminateExternalProgram, WaitPid, Reaped, Return, fixed, program
<1> QED BY <1>1, <1>2, <1>3, <1>4, <1>5 DEF IInv

\* The arguments of a server are read, and nothing else.
LEMMA ReceiveArgumentsStep == ASSUME IInv, receiveArguments PROVE IInv'
<1>1. TypeOK'
  BY ZenonT(60), SeqType, MsgType, ReturnType DEF IInv, TypeOK, Children, Child, receiveArguments, Receiving,
     Received,
     ReceivedNull, externalProgramOK, Return, fixed, program
<1> USE DEF Msg, Child, NoChild, Void, Running
<1>2. Turn'
  BY Single, MsgType DEF IInv, TypeOK, Turn, ServerTurn, ClientTurn, LastWords, Pipes, Quiet,
     Exchange, CallOK,
     ProcessOK, receiveArguments, Receiving, Received, ReceivedNull, externalProgramOK, Return,
     fixed, program
<1>3. CallOK' /\ ProcessOK'
  BY DEF IInv, CallOK, ProcessOK, Exchange, receiveArguments, Receiving, Received, ReceivedNull,
     externalProgramOK, Return, fixed, program
<1>4. ResultOK' /\ ReturnedOK'
  BY DEF IInv, TypeOK, CallOK, ProcessOK, ResultOK, ReturnedOK, Exchange, Pipes, receiveArguments,
     Receiving, Received, ReceivedNull, externalProgramOK, Return, fixed, program
<1>5. AnswersMatch' /\ ResultNotDropped'
  BY DEF IInv, CallOK, ReturnedOK, ResultOK, AnswersMatch, ResultNotDropped, receiveArguments,
     Receiving, Received, ReceivedNull, externalProgramOK, Return, fixed, program
<1> QED BY <1>1, <1>2, <1>3, <1>4, <1>5 DEF IInv

\* evaluate reads the answer to its own command.
LEMMA ReceiveAnswerStep == ASSUME IInv, receiveAnswer PROVE IInv'
<1>1. TypeOK'
  BY ZenonT(60), SeqType, MsgType, ReturnType DEF IInv, TypeOK, Children, Child, receiveAnswer, Receiving,
     Received,
     ReceivedNull, externalProgramOK, Return, fixed, program
<1> USE DEF Msg, Child, NoChild, Void, Running
<1>2. Turn'
  BY SMTT(60) DEF IInv, Turn, ServerTurn, LastWords, Pipes, Quiet, Exchange, CallOK, ProcessOK,
     receiveAnswer, Receiving, Received, ReceivedNull, externalProgramOK, Return, fixed, program
<1>3. CallOK' /\ ProcessOK'
  BY DEF IInv, CallOK, ProcessOK, Exchange, receiveAnswer, Receiving, Received, ReceivedNull,
     externalProgramOK, Return, fixed, program
<1>4. ResultOK' /\ ReturnedOK'
  BY SMTT(60) DEF IInv, TypeOK, CallOK, ProcessOK, ResultOK, ReturnedOK, Exchange, Pipes, receiveAnswer,
     Receiving, Received, ReceivedNull, externalProgramOK, Return, fixed, program
<1>5. AnswersMatch' /\ ResultNotDropped'
  BY Single, MsgType DEF IInv, TypeOK, Turn, ServerTurn, ClientTurn, LastWords, Pipes, Quiet,
     Exchange, CallOK,
     ProcessOK, ResultOK, ReturnedOK, AnswersMatch, ResultNotDropped, receiveAnswer, Receiving,
     Received, ReceivedNull, externalProgramOK, Return, fixed, program
<1> QED BY <1>1, <1>2, <1>3, <1>4, <1>5 DEF IInv

\* doActualWork reads a question or the result; a result that was sent is there to read.
LEMMA ReceiveFromClientStep == ASSUME IInv, receiveFromClient PROVE IInv'
<1>1. TypeOK'
  BY ZenonT(60), SeqType, MsgType, ReturnType DEF IInv, TypeOK, Children, Child, receiveFromClient, Receiving,
     Received,
     ReceivedNull, externalProgramOK, Return, fixed, program
<1> USE DEF Msg, Child, NoChild, Void, Running
<1>2. Turn'
  BY Single DEF IInv, TypeOK, Turn, ClientTurn, LastWords, Pipes, Quiet, Exchange, CallOK,
     ProcessOK, receiveFromClient, Receiving, Received, ReceivedNull, externalProgramOK, Return,
     fixed, program
<1>3. CallOK' /\ ProcessOK'
  BY DEF IInv, TypeOK, Turn, ServerTurn, ClientTurn, Pipes, Quiet, CallOK, ProcessOK, Exchange,
     receiveFromClient, Receiving, Received, ReceivedNull, externalProgramOK, Return, fixed,
     program
<1>4. ResultOK' /\ ReturnedOK'
  BY DEF IInv, TypeOK, CallOK, ProcessOK, ResultOK, ReturnedOK, Exchange, Pipes, receiveFromClient,
     Receiving, Received, ReceivedNull, externalProgramOK, Return, fixed, program
<1>5. AnswersMatch'
  BY DEF IInv, AnswersMatch, ResultNotDropped, receiveFromClient, Receiving, Received,
     ReceivedNull, externalProgramOK, Return, fixed, program
<1>6. ResultNotDropped'
  <2>1. \A r \in returned : r.call # call
    BY DEF IInv, TypeOK, Call, ReturnedOK, CallOK, receiveFromClient, Receiving
  <2>2. result_sent => Received /\ from_external = <<Msg("result", 0)>> /\ ~ReceivedNull
    BY Single, MsgType DEF IInv, ResultOK, ProcessOK, Pipes, Exchange, Received, ReceivedNull,
       externalProgramOK,
       receiveFromClient, Receiving
  <2>3. Head(<<Msg("result", 0)>>) = Msg("result", 0)
    BY Single, MsgType
  <2> QED BY <2>1, <2>2, <2>3 DEF ResultNotDropped, receiveFromClient, Receiving, Return
<1> QED BY SMTT(60), <1>1, <1>2, <1>3, <1>4, <1>5, <1>6 DEF IInv

-----------------------------------------------------------------------------
(* The program.                                                            *)

\* A YaST2 server starts while its caller waits for the arguments.
LEMMA ServerStartStep == ASSUME IInv, ServerStart PROVE IInv'
<1>1. TypeOK'
  <2>1. from_external' \in Seq(Message)
    <3>1. Append(from_external, Msg("arglist", 0)) \in Seq(Message)
      BY SeqType, MsgType DEF IInv, TypeOK
    <3> QED BY ZenonT(60), <3>1 DEF IInv, TypeOK, ServerStart, send, SendNothing
  <2>2. child' \in Children
    BY DEF ServerStart, ProgramStep, Child, Children
  <2> QED BY <2>1, <2>2 DEF IInv, TypeOK, ServerStart, ProgramStep, fixed
<1> USE DEF Child, NoChild, Running
<1>2. Turn'
  <2>1. CASE is_non_y2
    BY <2>1 DEF IInv, TypeOK, Turn, ServerTurn, ClientTurn, LastWords, Pipes, Quiet, Exchange,
       CallOK,
       ProcessOK, ServerStart, ProgramStep, SendNothing, fixed
  <2>2. CASE ~is_non_y2
    <3>1. at = "first" /\ open /\ Quiet /\ role = "server"
      BY <2>2 DEF IInv, TypeOK, Turn, ServerTurn, ClientTurn, LastWords, Pipes, Quiet, Exchange,
         CallOK,
       ProcessOK, ServerStart, ProgramStep
    <3>2. from_external' = <<Msg("arglist", 0)>>
      BY <2>2, <3>1, Single, MsgType DEF ServerStart, send, Quiet, Pipes
    <3> QED BY SMTT(60), <3>1, <3>2 DEF Turn, ServerTurn, Pipes, Quiet, ServerStart, ProgramStep, fixed
  <2> QED BY <2>1, <2>2
<1>3. CallOK' /\ ProcessOK'
  BY SMTT(60) DEF IInv, CallOK, ProcessOK, Exchange, ServerStart, ProgramStep, send, SendNothing, fixed,
     program
<1>4. ResultOK' /\ ReturnedOK'
  BY DEF IInv, ResultOK, ReturnedOK, Exchange, Pipes, ServerStart, ProgramStep, send, SendNothing,
     fixed, program
<1>5. AnswersMatch' /\ ResultNotDropped'
  BY SMTT(60) DEF IInv, AnswersMatch, ResultNotDropped, ServerStart, ProgramStep, send, SendNothing, fixed,
     program
<1> QED BY <1>1, <1>2, <1>3, <1>4, <1>5 DEF IInv

\* A server takes a command, the result or the end of the input.
LEMMA ServerReceiveStep == ASSUME IInv, ServerReceive PROVE IInv'
<1>1. TypeOK'
  BY SMTT(60), SeqType, MsgType, ReturnType DEF IInv, TypeOK, ProcessOK, Children, Child, NoChild, Running,
     Call, ServerReceive, ProgramStep, send, SendNothing, Readable, AtEOF, Read, fixed, program
<1> USE DEF Msg, Child, NoChild, Void, Running
<1>2. Turn'
  BY DEF IInv, Turn, ServerTurn, Pipes, Quiet, Exchange, CallOK, ProcessOK, ServerReceive,
     ProgramStep, send, SendNothing, Readable, AtEOF, Read, fixed, program
<1>3. CallOK' /\ ProcessOK'
  BY DEF IInv, CallOK, ProcessOK, Exchange, ServerReceive, ProgramStep, send, SendNothing,
     Readable, AtEOF, Read, fixed, program
<1>4. ResultOK' /\ ReturnedOK'
  BY DEF IInv, ResultOK, ReturnedOK, Exchange, Pipes, ServerReceive, ProgramStep, send,
     SendNothing, Readable, AtEOF, Read, fixed, program
<1>5. AnswersMatch' /\ ResultNotDropped'
  BY SMTT(60) DEF IInv, AnswersMatch, ResultNotDropped, ServerReceive, ProgramStep, send, SendNothing,
     Readable, AtEOF, Read, fixed, program
<1> QED BY <1>1, <1>2, <1>3, <1>4, <1>5 DEF IInv

\* A server answers the command of the call in progress.
LEMMA ServerAnswerStep == ASSUME IInv, ServerAnswer PROVE IInv'
<1> USE DEF Child, NoChild, Running
<1>a. /\ from_external = <<>> /\ open /\ Exchange /\ role = "server" /\ to_external = <<>>
      /\ child.n = call.n /\ call.kind = "evaluate"
  BY DEF IInv, TypeOK, Turn, ServerTurn, ClientTurn, LastWords, Pipes, Quiet, Exchange, CallOK,
       ProcessOK, ServerAnswer, ProgramStep
<1>b. from_external' = <<Msg("answer", call.n)>>
  BY <1>a, Single, MsgType DEF IInv, TypeOK, Call, ServerAnswer, ProgramStep, send
<1>1. TypeOK'
  BY SMTT(60), SeqType, MsgType DEF IInv, TypeOK, Children, Child, ServerAnswer, ProgramStep, send, fixed,
     program
<1>2. Turn'
  BY <1>a, <1>b DEF IInv, TypeOK, Turn, ServerTurn, ClientTurn, LastWords, Pipes, Quiet, Exchange,
     ServerAnswer, ProgramStep, fixed
<1>3. CallOK' /\ ProcessOK'
  BY SMTT(60) DEF IInv, CallOK, ProcessOK, Exchange, ServerAnswer, ProgramStep, send, fixed, program
<1>4. ResultOK' /\ ReturnedOK'
  BY DEF IInv, ResultOK, ReturnedOK, Exchange, Pipes, ServerAnswer, ProgramStep, send, fixed,
     program
<1>5. AnswersMatch' /\ ResultNotDropped'
  BY DEF IInv, AnswersMatch, ResultNotDropped, ServerAnswer, ProgramStep, send, fixed, program
<1> QED BY <1>1, <1>2, <1>3, <1>4, <1>5 DEF IInv

\* A client takes its arguments.
LEMMA ClientStartStep == ASSUME IInv, ClientStart PROVE IInv'
<1>1. TypeOK'
  BY SMTT(60), SeqType, MsgType, ReturnType DEF IInv, TypeOK, ProcessOK, Children, Child, NoChild, Running,
     Call, ClientStart, ProgramStep, Readable, AtEOF, Read, fixed, program
<1> USE DEF Child, NoChild, Running
<1>2. Turn'
  BY DEF IInv, Turn, ClientTurn, LastWords, Pipes, Quiet, Exchange, CallOK, ProcessOK, ClientStart,
     ProgramStep, Readable, AtEOF, Read, fixed, program
<1>3. CallOK' /\ ProcessOK'
  BY DEF IInv, CallOK, ProcessOK, Exchange, ClientStart, ProgramStep, Readable, AtEOF, Read, fixed,
     program
<1>4. ResultOK' /\ ReturnedOK'
  BY DEF IInv, ResultOK, ReturnedOK, Exchange, Pipes, ClientStart, ProgramStep, Readable, AtEOF,
     Read, fixed, program
<1>5. AnswersMatch' /\ ResultNotDropped'
  BY SMTT(60) DEF IInv, AnswersMatch, ResultNotDropped, ClientStart, ProgramStep, Readable, AtEOF, Read,
     fixed, program
<1> QED BY <1>1, <1>2, <1>3, <1>4, <1>5 DEF IInv

\* A client asks while its caller waits.
LEMMA ClientAskStep == ASSUME IInv, ClientAsk PROVE IInv'
<1> USE DEF Child, NoChild, Running
<1>a. from_external = <<>> /\ open /\ Exchange /\ role = "client" /\ to_external = <<>>
  BY DEF IInv, TypeOK, Turn, ServerTurn, ClientTurn, LastWords, Pipes, Quiet, Exchange, CallOK,
       ProcessOK, ClientAsk, ProgramStep
<1>b. from_external' = <<Msg("command", child.n + 1)>>
  BY <1>a, Single, MsgType DEF IInv, TypeOK, Call, ClientAsk, ProgramStep, send
<1>1. TypeOK'
  BY SMTT(60), SeqType, MsgType DEF IInv, TypeOK, Children, Child, ClientAsk, ProgramStep, send, fixed,
     program
<1>2. Turn'
  BY SMTT(60), <1>a, <1>b DEF IInv, TypeOK, Turn, ServerTurn, ClientTurn, LastWords, Pipes, Quiet, Exchange,
     ClientAsk, ProgramStep, fixed
<1>3. CallOK' /\ ProcessOK'
  BY SMTT(60) DEF IInv, CallOK, ProcessOK, Exchange, ClientAsk, ProgramStep, send, fixed, program
<1>4. ResultOK' /\ ReturnedOK'
  BY DEF IInv, ResultOK, ReturnedOK, Exchange, Pipes, ClientAsk, ProgramStep, send, fixed, program
<1>5. AnswersMatch' /\ ResultNotDropped'
  BY SMTT(60) DEF IInv, AnswersMatch, ResultNotDropped, ClientAsk, ProgramStep, send, fixed, program
<1> QED BY <1>1, <1>2, <1>3, <1>4, <1>5 DEF IInv

\* A client is given the answer to the question it has asked.
LEMMA ClientAnswerStep == ASSUME IInv, ClientAnswer PROVE IInv'
<1>1. TypeOK'
  BY SMTT(60), SeqType, MsgType, ReturnType DEF IInv, TypeOK, ProcessOK, Children, Child, NoChild, Running,
     Call, ClientAnswer, ProgramStep, Readable, AtEOF, Read, fixed, program
<1> USE DEF Msg, Child, NoChild, Void, Running
<1>2. Turn'
  BY SMTT(60), Single, MsgType DEF IInv, TypeOK, Turn, ServerTurn, ClientTurn, LastWords, Pipes, Quiet,
     Exchange, CallOK,
     ProcessOK, ClientAnswer, ProgramStep, Readable, AtEOF, Read, fixed, program
<1>3. CallOK' /\ ProcessOK'
  BY SMTT(60) DEF IInv, CallOK, ProcessOK, Exchange, ClientAnswer, ProgramStep, Readable, AtEOF, Read,
     fixed, program
<1>4. ResultOK' /\ ReturnedOK'
  BY SMTT(60) DEF IInv, ResultOK, ReturnedOK, Exchange, Pipes, ClientAnswer, ProgramStep, Readable, AtEOF,
     Read, fixed, program
<1>5. AnswersMatch' /\ ResultNotDropped'
  BY SMTT(60) DEF IInv, AnswersMatch, ResultNotDropped, ClientAnswer, ProgramStep, Readable, AtEOF, Read,
     fixed, program
<1> QED BY <1>1, <1>2, <1>3, <1>4, <1>5 DEF IInv

\* A client sends its result while its caller waits.
LEMMA ClientResultStep == ASSUME IInv, ClientResult PROVE IInv'
<1> USE DEF Child, NoChild, Running
<1>a. from_external = <<>> /\ open /\ Exchange /\ role = "client" /\ to_external = <<>>
  BY DEF IInv, TypeOK, Turn, ServerTurn, ClientTurn, LastWords, Pipes, Quiet, Exchange, CallOK,
       ProcessOK, ClientResult, ProgramStep
<1>b. from_external' = <<Msg("result", 0)>>
  BY <1>a, Single, MsgType DEF IInv, TypeOK, Call, ClientResult, ProgramStep, send
<1>1. TypeOK'
  BY SMTT(60), SeqType, MsgType DEF IInv, TypeOK, Children, Child, ClientResult, ProgramStep, send, fixed,
     program
<1>2. Turn'
  BY SMTT(60), <1>a, <1>b DEF IInv, TypeOK, Turn, ServerTurn, ClientTurn, LastWords, Pipes, Quiet, Exchange,
     ClientResult, ProgramStep, fixed
<1>3. CallOK' /\ ProcessOK'
  BY DEF IInv, CallOK, ProcessOK, Exchange, ClientResult, ProgramStep, send, fixed, program
<1>4. ResultOK' /\ ReturnedOK'
  BY SMTT(60), <1>a, <1>b DEF IInv, ResultOK, ReturnedOK, Pipes, Exchange, ClientResult, ProgramStep, fixed
<1>5. AnswersMatch' /\ ResultNotDropped'
  BY SMTT(60), Single, MsgType DEF IInv, TypeOK, Turn, ServerTurn, ClientTurn, LastWords, Pipes, Quiet,
     Exchange, CallOK,
     ProcessOK, ResultOK, ReturnedOK, AnswersMatch, ResultNotDropped, ClientResult, ProgramStep,
     send, fixed, program
<1> QED BY <1>1, <1>2, <1>3, <1>4, <1>5 DEF IInv

\* The program dies: what was on the way stays there.
LEMMA DieStep == ASSUME IInv, Die PROVE IInv'
<1>1. TypeOK'
  BY SMTT(60), SeqType, MsgType DEF IInv, TypeOK, Children, Child, Die, fixed, program
<1> USE DEF Msg, Child, NoChild, Void, Running
<1>2. Turn'
  BY SMTT(60), Single, MsgType DEF IInv, TypeOK, Turn, ServerTurn, ClientTurn, LastWords, Pipes, Quiet,
     Exchange, CallOK,
     ProcessOK, Die, fixed, program
<1>3. CallOK' /\ ProcessOK'
  BY DEF IInv, CallOK, ProcessOK, Exchange, Die, fixed, program
<1>4. ResultOK' /\ ReturnedOK'
  BY DEF IInv, ResultOK, ReturnedOK, Exchange, Pipes, Die, fixed, program
<1>5. AnswersMatch' /\ ResultNotDropped'
  BY DEF IInv, AnswersMatch, ResultNotDropped, Die, fixed, program
<1> QED BY <1>1, <1>2, <1>3, <1>4, <1>5 DEF IInv
-----------------------------------------------------------------------------
(* The theorems.                                                           *)

\* The inductive invariant holds at the start.
LEMMA InitInv == Init => IInv
<1> SUFFICES ASSUME Init PROVE IInv
  OBVIOUS
<1>1. TypeOK
  <2>1. child \in Children
    BY DEF Init, NoChild, Child, Children
  <2>2. call \in Call
    BY DEF Init, Call
  <2>3. pid \in 0..launches /\ launches \in Nat /\ calls \in Nat
    BY DEF Init
  <2> QED BY ZenonT(60), <2>1, <2>2, <2>3, SeqType, MsgType DEF Init, TypeOK
<1>2. Turn /\ CallOK /\ ProcessOK
  BY Single DEF Init, Turn, CallOK, ProcessOK, Exchange, Running, NoChild, Child
<1> QED BY <1>1, <1>2 DEF Init, IInv, ResultOK, ReturnedOK, AnswersMatch, ResultNotDropped

\* Every step preserves it.
LEMMA NextInv == IInv /\ [Next]_vars => IInv'
<1> SUFFICES ASSUME IInv, [Next]_vars PROVE IInv'
  OBVIOUS
<1>1. CASE evaluate \/ evaluateCall \/ result \/ doActualWork \/ Destroy
  BY <1>1, EvaluateStep, EvaluateCallStep, ResultStep, DoActualWorkStep, DestroyStep
<1>2. CASE CallStep
  BY <1>2, SendToExternalStep, SendLinefeedStep, TerminateExternalProgramStep, ReceiveArgumentsStep,
     ReceiveAnswerStep, ReceiveFromClientStep DEF CallStep
<1>3. CASE Program
  BY <1>3, ServerStartStep, ServerReceiveStep, ServerAnswerStep, ClientStartStep, ClientAskStep,
     ClientAnswerStep, ClientResultStep DEF Program
<1>4. CASE Die
  BY <1>4, DieStep
<1>5. CASE UNCHANGED vars
  <2> USE <1>5 DEF vars, fixed, program
  <2>1. TypeOK' /\ AnswersMatch' /\ ResultNotDropped'
    BY DEF IInv, TypeOK, AnswersMatch, ResultNotDropped
  <2>2. Turn'
    BY SMTT(60) DEF IInv, Turn, ServerTurn, ClientTurn, LastWords, Pipes, Quiet, Exchange, Running
  <2>3. CallOK' /\ ProcessOK'
    BY SMTT(60) DEF IInv, CallOK, ProcessOK, Exchange, Running
  <2>4. ResultOK' /\ ReturnedOK'
    BY SMTT(60) DEF IInv, ResultOK, ReturnedOK, Exchange, Pipes
  <2> QED BY <2>1, <2>2, <2>3, <2>4 DEF IInv
<1> QED BY <1>1, <1>2, <1>3, <1>4, <1>5 DEF Next

\* The inductive invariant holds: it is always known whose turn it is.
THEOREM Invariance == Spec => []IInv
BY InitInv, NextInv, PTL DEF Spec

\* What evaluate returns for a command is the answer to that command or nothing, for
\* any number of commands, deaths and launches.
THEOREM Answers == Spec => []AnswersMatch
<1>1. IInv => AnswersMatch
  BY DEF IInv
<1> QED BY <1>1, Invariance, PTL

\* A client is given the answers to its own questions, however many it asks.
THEOREM Questions == Spec => []QuestionsAnswered
<1>1. IInv => QuestionsAnswered
  BY DEF IInv, Turn, ServerTurn, ClientTurn, Running, Child, QuestionsAnswered
<1> QED BY <1>1, Invariance, PTL

\* doActualWork returns the result that the client has sent.
THEOREM Result == Spec => []ResultNotDropped
<1>1. IInv => ResultNotDropped
  BY DEF IInv
<1> QED BY <1>1, Invariance, PTL

\* The caller and the program never wait for each other with nothing on the way.
THEOREM Waiting == Spec => []NotBothWaiting
<1>1. ASSUME IInv PROVE NotBothWaiting
  <2> SUFFICES ASSUME at \in {"first", "receive"}, child.st \in {"loop", "answer"}, Quiet PROVE FALSE
    BY DEF NotBothWaiting, Quiet, Pipes
  <2>1. ServerTurn \/ ClientTurn
    BY <1>1 DEF IInv, Turn, Running
  <2> QED BY <2>1, OneElement DEF ServerTurn, ClientTurn, Child, Pipes, Quiet
<1> QED BY <1>1, Invariance, PTL

\* At most one message is on the way: no write blocks on a full pipe for ever.
THEOREM Duplex == Spec => []HalfDuplex
<1>1. ASSUME IInv PROVE HalfDuplex
  <2>1. Len(to_external) \in Nat /\ Len(to_external) <= 1
    <3>1. to_external \in Seq(Message)
      BY <1>1 DEF IInv, TypeOK
    <3> QED BY <1>1, <3>1 DEF IInv, ProcessOK
  <2>2. from_external = <<>> \/ (to_external = <<>> /\ \E m \in Message : from_external = <<m>>)
    <3>1. CASE ~Running
      BY SMTT(60), <1>1, <3>1, MsgType DEF IInv, TypeOK, Call, Turn, LastWords, Running
    <3>2. CASE Running
      BY <1>1, <3>2, MsgType DEF IInv, TypeOK, Call, Turn, ServerTurn, ClientTurn, Pipes, Quiet
    <3> QED BY <3>1, <3>2
  <2>3. CASE from_external = <<>>
    BY <2>1, <2>3 DEF HalfDuplex
  <2>4. CASE to_external = <<>> /\ \E m \in Message : from_external = <<m>>
    BY <2>4 DEF HalfDuplex
  <2> QED BY <2>2, <2>3, <2>4
<1> QED BY <1>1, Invariance, PTL

\* Without a pid there is no process left over from an earlier launch.
THEOREM Collected == Spec => []NothingLeftBehind
<1>1. IInv => NothingLeftBehind
  BY DEF IInv, ProcessOK, NothingLeftBehind
<1> QED BY <1>1, Invariance, PTL

\* The two processes take turns: Y2ProgramComponent never waits for a program that
\* waits for it, and there is never more than one message on the way.
THEOREM Turns == Spec => []TheyTakeTurns
<1>1. NotBothWaiting /\ HalfDuplex => TheyTakeTurns
  BY DEF TheyTakeTurns
<1> QED BY <1>1, Waiting, Duplex, PTL
=============================================================================
