------------------------------ MODULE Debugger ------------------------------
(***************************************************************************)
(* The YCP debugger: Debugger.cc, the wrapper YBreakpoint around the code  *)
(* of a function, and the part of YBlock::evaluate that stops before a     *)
(* statement and reads commands from the debugger's client.                *)
(*                                                                         *)
(* A program is a set of blocks; a statement is plain, declares a          *)
(* function, returns, or evaluates a block: the body of a function, or a   *)
(* block of statements.  What statements compute and what the client is    *)
(* shown are left out.                                                     *)
(***************************************************************************)
EXTENDS Integers, Sequences, SequencesExt

CONSTANTS
  Body,        \* Body[b]: the statements of block b, [kind, block]
  Functions,   \* the blocks that are bodies of functions
  Main         \* the block of the client that is run

VARIABLES
  stack,           \* the evaluations of YBlock: [block, at, m_debug], the innermost last
  pc,              \* where the innermost is: "statement", "prompt", "evaluate", "after", "leave", "done"
  returning,       \* the statement gave a value: the block is left
  m_tracing, m_last_command, m_blockstack,
  connected,       \* m_descriptor # NULL
  breakpoint,      \* breakpoint[f]: "none", "enabled", "disabled": the YBreakpoint of f
  asked,           \* the last command that resumed the program, or "s" when a breakpoint was hit since,
                   \* and the depth it was given at
  stopped          \* the program stopped before the statement it is at

debuggerVars ==
  <<stack, pc, returning, m_tracing, m_last_command, m_blockstack, connected, breakpoint, asked, stopped>>

Blocks == DOMAIN Body
Depth == Len(stack)
Top == stack[Depth]
Statement == Body[Top.block][Top.at]

(* stmt and m_debug of the innermost evaluation                            *)
InTop(at, debug) == [stack EXCEPT ![Depth] = [block |-> Top.block, at |-> at, m_debug |-> debug]]

(* YBreakpoint::evaluate, Debugger::setTracing                             *)
Hit(b) == b \in Functions /\ breakpoint[b] = "enabled"

(* YBlock::evaluate up to its first statement                              *)
Enter(b, tracing) ==
  /\ stack' = Append(stack, [block |-> b, at |-> 1, m_debug |-> tracing])
  /\ m_blockstack' = <<b>> \o m_blockstack
  /\ pc' = "statement"

(* Y2WFMComponent::doActualWork puts a breakpoint around the client, which *)
(* is hit at once; initialize may have failed to get a client.             *)
Init ==
  /\ stack = <<[block |-> Main, at |-> 1, m_debug |-> TRUE]>>
  /\ m_blockstack = <<Main>>
  /\ pc = "statement" /\ returning = FALSE
  /\ m_tracing = TRUE /\ m_last_command = "s"
  /\ connected \in BOOLEAN
  /\ breakpoint = [f \in Functions |-> "none"]
  /\ asked = [command |-> "s", depth |-> 1] /\ stopped = FALSE

-----------------------------------------------------------------------------
(* The loop of YBlock::evaluate                                            *)

(* processInput without a client leaves the caller's command unset, and    *)
(* the caller then compares it with c_next.                                *)
Unset == BOOLEAN

Reach ==
  /\ pc = "statement" /\ Top.at <= Len(Body[Top.block])
  /\ LET stops == Top.m_debug /\ Statement.kind # "function"
     IN /\ pc' = IF stops /\ connected THEN "prompt" ELSE "evaluate"
        /\ stopped' = (stops /\ connected)
        /\ IF stops /\ ~connected THEN \E next \in Unset : m_tracing' = (m_tracing /\ ~next)
           ELSE UNCHANGED m_tracing
  /\ UNCHANGED <<stack, returning, m_last_command, m_blockstack, connected, breakpoint, asked>>

Evaluate ==
  /\ pc = "evaluate"
  /\ LET b == Statement.block
     IN \/ /\ Statement.kind = "evaluate"
           /\ m_tracing' = (m_tracing \/ Hit(b))
           /\ m_last_command' = IF Hit(b) THEN "s" ELSE m_last_command
           /\ asked' = IF Hit(b) THEN [command |-> "s", depth |-> Depth] ELSE asked
           /\ Enter(b, m_tracing')
           /\ UNCHANGED <<returning, connected, breakpoint, stopped>>
        \/ /\ Statement.kind # "evaluate"
           /\ pc' = "after" /\ returning' = (Statement.kind = "return")
           /\ UNCHANGED <<stack, m_tracing, m_last_command, m_blockstack, connected, breakpoint, asked, stopped>>

Advance(debug) ==
  /\ stack' = InTop(Top.at + 1, debug)
  /\ pc' = IF returning THEN "leave" ELSE "statement"
  /\ UNCHANGED <<returning, m_last_command, m_blockstack, connected, breakpoint, asked, stopped>>
(* MUTANT: a continue that an inner block was given is not respected.      *)
AfterKeepsDebugging ==
  /\ pc = "after"
  /\ m_tracing' = (m_tracing \/ Top.m_debug)
  /\ Advance(m_tracing')
After ==
  /\ pc = "after"
  /\ m_tracing' = IF Top.m_debug THEN m_last_command # "c" ELSE m_tracing
  /\ Advance(m_tracing')

(* A block of statements passes a return on, a function ends it.           *)
Leave ==
  /\ \/ pc = "statement" /\ Top.at > Len(Body[Top.block])
     \/ pc = "leave"
  /\ stack' = Front(stack)
  /\ m_blockstack' = Tail(m_blockstack)
  /\ pc' = IF Depth = 1 THEN "done" ELSE "after"
  /\ returning' = (pc = "leave" /\ Top.block \notin Functions)
  /\ UNCHANGED <<m_tracing, m_last_command, connected, breakpoint, asked, stopped>>

-----------------------------------------------------------------------------
(* processInput, and what YBlock::evaluate does with the command           *)
Resume(command) ==
  /\ pc = "prompt"
  /\ m_last_command' = command
  /\ asked' = [command |-> IF command = "unknown" THEN "s" ELSE command, depth |-> Depth]
  /\ pc' = "evaluate"
  /\ UNCHANGED <<returning, m_blockstack, connected, breakpoint, stopped>>
Continue ==
  /\ Resume("c")
  /\ stack' = InTop(Top.at, FALSE) /\ m_tracing' = FALSE
StepOver == Resume("n") /\ m_tracing' = FALSE /\ UNCHANGED stack
Step == \E command \in {"s", "unknown"} : Resume(command) /\ UNCHANGED <<stack, m_tracing>>

(* The client goes, or sends an empty line.                                *)
Closed ==
  /\ pc = "prompt"
  /\ connected' = FALSE /\ pc' = "evaluate" /\ stopped' = FALSE
  /\ \E next \in Unset : m_tracing' = (m_tracing /\ ~next)
  /\ UNCHANGED <<stack, returning, m_last_command, m_blockstack, breakpoint, asked>>

(* The commands after which it asks again.                                 *)
setBreakpoint(f) ==
  /\ pc = "prompt"
  /\ breakpoint' = [breakpoint EXCEPT ![f] = "enabled"]
  /\ UNCHANGED <<stack, pc, returning, m_tracing, m_last_command, m_blockstack, connected, asked, stopped>>
removeBreakpoint(f) ==
  /\ pc = "prompt" /\ breakpoint[f] = "enabled"
  /\ breakpoint' = [breakpoint EXCEPT ![f] = "disabled"]
  /\ UNCHANGED <<stack, pc, returning, m_tracing, m_last_command, m_blockstack, connected, asked, stopped>>

Next ==
  \/ Reach \/ Evaluate \/ After \/ Leave
  \/ Continue \/ StepOver \/ Step \/ Closed
  \/ \E f \in Functions : setBreakpoint(f) \/ removeBreakpoint(f)
Spec == Init /\ [][Next]_debuggerVars

-----------------------------------------------------------------------------
(* The program stops where it was asked to: after "c" only when a          *)
(* breakpoint was hit since, after "n" only in the same or an outer block. *)
StopsAsAsked ==
  pc = "prompt" =>
    asked.command # "c" /\ (asked.command = "n" => Depth <= asked.depth)

(* And it never runs past a place where it was asked to stop: a statement  *)
(* is evaluated without a stop only after "c", or further in after "n".    *)
NothingIsSkipped ==
  pc = "evaluate" /\ connected /\ ~stopped /\ Statement.kind # "function" =>
    asked.command = "c" \/ (asked.command = "n" /\ Depth > asked.depth)

(* The debugger looks for variables in the blocks that are evaluated, the  *)
(* innermost first (pushBlock, popBlock, findSymbol).                      *)
BlocksAreThoseEvaluated ==
  /\ Len(m_blockstack) = Depth
  /\ \A i \in 1..Depth : m_blockstack[i] = stack[Depth + 1 - i].block

(* The debugger stops the program where it was asked to and nowhere else,  *)
(* and looks for variables in the blocks that are evaluated                *)
(* (YBlock::evaluate, YBreakpoint::evaluate, Debugger::processInput).      *)
DebuggerStops == StopsAsAsked /\ NothingIsSkipped /\ BlocksAreThoseEvaluated
=============================================================================
