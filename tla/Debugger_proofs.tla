-------------------------- MODULE Debugger_proofs ---------------------------
(***************************************************************************)
(* For any program: the debugger stops where it was asked to and nowhere   *)
(* else, and its stack of blocks is that of the blocks being evaluated.    *)
(*                                                                         *)
(* What a command asks for is held in three places: the debugger's         *)
(* m_tracing, its last command, and an m_debug of every block that is      *)
(* being evaluated.  The inductive invariant says for each command which   *)
(* of them may be set at which depth.                                      *)
(***************************************************************************)
EXTENDS Debugger, SequenceTheorems, TLAPS

\* What the theorem assumes of the program.
ConstantsOK ==
  /\ Main \in Blocks /\ Functions \subseteq Blocks
  /\ \A b \in Blocks :
       /\ Len(Body[b]) \in Nat
       /\ \A i \in 1..Len(Body[b]) : Body[b][i].kind = "evaluate" => Body[b][i].block \in Blocks

Frames == [block : Blocks, at : Nat \ {0}, m_debug : BOOLEAN]
Commands == {"c", "n", "s"}

TypeOK ==
  /\ stack \in Seq(Frames) /\ m_blockstack \in Seq(Blocks)
  /\ pc \in {"statement", "prompt", "evaluate", "after", "leave", "done"}
  /\ returning \in BOOLEAN /\ m_tracing \in BOOLEAN /\ connected \in BOOLEAN /\ stopped \in BOOLEAN
  /\ m_last_command \in Commands \cup {"unknown"}
  /\ breakpoint \in [Functions -> {"none", "enabled", "disabled"}]
  /\ asked \in [command : Commands, depth : Nat]
  /\ pc # "done" => Depth > 0
  /\ pc \in {"prompt", "evaluate"} => Top.at \in 1..Len(Body[Top.block])

\* The program waits for a command only where it is debugged.
AtPrompt == pc = "prompt" => connected /\ Top.m_debug /\ stopped /\ m_tracing

\* A statement of a block that is debugged is evaluated after a stop.
Stopped == pc = "evaluate" /\ connected /\ Statement.kind # "function" /\ Top.m_debug => stopped

\* After "c" nothing is debugged until a breakpoint is hit.
Continued ==
  asked.command = "c" =>
    /\ m_last_command = "c" /\ ~m_tracing /\ pc # "prompt"
    /\ pc \in {"statement", "evaluate"} => ~Top.m_debug

\* After "s", or a breakpoint, everything is.
Stepped ==
  asked.command = "s" /\ connected =>
    /\ m_last_command # "c" /\ m_tracing
    /\ pc \in {"statement", "evaluate"} => Top.m_debug

\* After "n" the block it was given in is, and those outside it are once they go on;
\* nothing inside is.
SteppedOver ==
  asked.command = "n" /\ connected =>
    /\ m_last_command = "n" /\ asked.depth > 0
    /\ asked.depth <= Depth => stack[asked.depth].m_debug
    /\ \A i \in 1..Depth : i > asked.depth => ~stack[i].m_debug
    /\ Depth > asked.depth => ~m_tracing
    /\ Depth < asked.depth => m_tracing /\ (pc \in {"statement", "evaluate"} => Top.m_debug)
    /\ Depth = asked.depth /\ pc \in {"statement", "leave"} => m_tracing
    /\ Depth <= asked.depth /\ pc = "evaluate" /\ Statement.kind # "function" => Depth = asked.depth /\ ~m_tracing

IInv == TypeOK /\ AtPrompt /\ Stopped /\ Continued /\ Stepped /\ SteppedOver /\ BlocksAreThoseEvaluated

-----------------------------------------------------------------------------
(* The stack of evaluations.                                               *)

\* What entering, going on in and leaving a block do to the stack.
LEMMA StackFacts ==
  ASSUME TypeOK, Depth > 0
  PROVE  /\ Top \in Frames /\ Depth \in Nat
         /\ \A f \in Frames : /\ Append(stack, f) \in Seq(Frames) /\ Len(Append(stack, f)) = Depth + 1
                              /\ Append(stack, f)[Depth + 1] = f
                              /\ \A i \in 1..Depth : Append(stack, f)[i] = stack[i]
         /\ Front(stack) \in Seq(Frames) /\ Len(Front(stack)) = Depth - 1
         /\ \A i \in 1..(Depth - 1) : Front(stack)[i] = stack[i]
<1>1. stack \in Seq(Frames) /\ Depth \in Nat
  BY DEF TypeOK, Depth
<1>2. Top \in Frames
  BY <1>1 DEF Top, Depth
<1>3. ASSUME NEW f \in Frames
      PROVE  /\ Append(stack, f) \in Seq(Frames) /\ Len(Append(stack, f)) = Depth + 1
             /\ Append(stack, f)[Depth + 1] = f
             /\ \A i \in 1..Depth : Append(stack, f)[i] = stack[i]
  BY <1>1 DEF Depth
<1>4. \A i \in 1..(Depth - 1) : stack[i] \in Frames
  BY <1>1 DEF Depth
<1>5. /\ Front(stack) \in Seq(Frames)
      /\ Len(Front(stack)) = IF 1 <= Depth - 1 THEN Depth - 1 - 1 + 1 ELSE 0
      /\ \A i \in 1..(Depth - 1 - 1 + 1) : Front(stack)[i] = stack[1 + i - 1]
  BY <1>1, <1>4, SubSeqProperties DEF Front, Depth
<1>6. Len(Front(stack)) = Depth - 1
  BY <1>1, <1>5
<1>7. \A i \in 1..(Depth - 1) : Front(stack)[i] = stack[i]
  BY <1>1, <1>5
<1> QED
  BY <1>1, <1>2, <1>3, <1>5, <1>6, <1>7

\* What going on, or a command, does to the innermost evaluation.
LEMMA InTopFacts ==
  ASSUME TypeOK, Depth > 0, NEW k \in Nat \ {0}, NEW d \in BOOLEAN
  PROVE  /\ InTop(k, d) \in Seq(Frames) /\ Len(InTop(k, d)) = Depth
         /\ \A i \in 1..Depth : i # Depth => InTop(k, d)[i] = stack[i]
         /\ InTop(k, d)[Depth].m_debug = d /\ InTop(k, d)[Depth].block = stack[Depth].block
         /\ InTop(k, d)[Depth].at = k
<1> DEFINE g == [block |-> Top.block, at |-> k, m_debug |-> d]
<1>1. Top \in Frames /\ Top = stack[Depth] /\ Depth \in Nat /\ stack \in Seq(Frames)
  BY StackFacts DEF Top, TypeOK
<1>2. g \in Frames /\ g.block = stack[Depth].block
  BY <1>1 DEF Frames
<1>3. g.m_debug = d /\ g.at = k
  OBVIOUS
<1>4. InTop(k, d) = [stack EXCEPT ![Depth] = g]
  BY DEF InTop
<1> HIDE DEF g
<1>5. Depth \in 1..Len(stack) /\ Len(stack) = Depth
  BY <1>1 DEF Depth
<1>6. /\ InTop(k, d) \in Seq(Frames) /\ Len(InTop(k, d)) = Depth
      /\ \A i \in 1..Depth : InTop(k, d)[i] = IF i = Depth THEN g ELSE stack[i]
  BY <1>1, <1>2, <1>4, <1>5, ExceptSeq
<1>7. Depth \in 1..Depth
  BY <1>5
<1> QED
  BY <1>2, <1>3, <1>6, <1>7

\* A step that leaves the stack of blocks as it is.
LEMMA BlocksSame ==
  ASSUME TypeOK, BlocksAreThoseEvaluated, UNCHANGED m_blockstack, Depth' = Depth,
         \A i \in 1..Depth : stack'[i].block = stack[i].block
  PROVE  BlocksAreThoseEvaluated'
BY DEF BlocksAreThoseEvaluated, TypeOK, Depth

-----------------------------------------------------------------------------
(* The steps.                                                              *)

CInv == AtPrompt /\ Stopped /\ Continued /\ Stepped /\ SteppedOver

\* A step that leaves the stack as it is.
LEMMA SameStack ==
  ASSUME TypeOK, BlocksAreThoseEvaluated, UNCHANGED <<stack, m_blockstack>>
  PROVE  Top' = Top /\ Depth' = Depth /\ Statement' = Statement /\ BlocksAreThoseEvaluated'
BY DEF Top, Depth, Statement, BlocksAreThoseEvaluated

LEMMA ReachKeeps ==
  ASSUME ConstantsOK, IInv, Reach
  PROVE  IInv'
<1>0. TypeOK /\ CInv /\ BlocksAreThoseEvaluated
  BY DEF IInv, CInv
<1>1. /\ Top' = Top /\ Depth' = Depth /\ Statement' = Statement /\ BlocksAreThoseEvaluated'
      /\ stack' = stack
  BY <1>0, SameStack DEF Reach
<1>2. /\ pc = "statement" /\ Top.at <= Len(Body[Top.block]) /\ Depth > 0
      /\ UNCHANGED <<returning, m_last_command, m_blockstack, connected, breakpoint, asked>>
  BY <1>0 DEF Reach, TypeOK
<1>3. m_tracing' \in BOOLEAN /\ stopped' \in BOOLEAN /\ (~m_tracing => ~m_tracing')
      /\ (connected => m_tracing' = m_tracing)
  BY <1>0 DEF Reach, Unset, TypeOK
<1>6. Top.at \in 1..Len(Body[Top.block])
  BY <1>0, <1>2, StackFacts DEF ConstantsOK, Frames
<1>4. CASE Top.m_debug /\ Statement.kind # "function" /\ connected
  <2>1. pc' = "prompt" /\ stopped'
    BY <1>4 DEF Reach
  <2>2. TypeOK'
    BY <1>0, <1>1, <1>2, <1>3, <1>6, <2>1 DEF TypeOK
  <2>3. asked.command # "c" /\ m_tracing
    <3>1. asked.command # "c"
      BY <1>0, <1>2, <1>4 DEF CInv, Continued
    <3>2. CASE asked.command = "s"
      BY <1>0, <1>4, <3>2 DEF CInv, Stepped
    <3>3. CASE asked.command = "n"
      <4>1. ~(Depth > asked.depth)
        <5>1. Depth \in 1..Depth /\ Top = stack[Depth]
          BY <1>0, <1>2 DEF TypeOK, Depth, Top
        <5> QED
          BY <1>0, <1>4, <3>3, <5>1 DEF CInv, SteppedOver
      <4>2. Depth \in Nat /\ asked.depth \in Nat
        BY <1>0 DEF TypeOK, Depth
      <4>3. Depth < asked.depth \/ Depth = asked.depth
        BY <4>1, <4>2
      <4> QED
        BY <1>0, <1>2, <1>4, <3>3, <4>3 DEF CInv, SteppedOver
    <3> QED
      BY <1>0, <3>1, <3>2, <3>3 DEF TypeOK, Commands
  <2>4. CInv'
    BY <1>0, <1>1, <1>2, <1>3, <1>4, <2>1, <2>3 DEF CInv, AtPrompt, Stopped, Continued, Stepped, SteppedOver
  <2> QED
    BY <1>1, <2>2, <2>4 DEF IInv, CInv
<1>5. CASE ~(Top.m_debug /\ Statement.kind # "function" /\ connected)
  <2>1. pc' = "evaluate"
    BY <1>5 DEF Reach
  <2>3. TypeOK'
    BY <1>0, <1>1, <1>2, <1>3, <1>6, <2>1 DEF TypeOK
  <2>4. AtPrompt' /\ Stopped' /\ Continued'
    BY <1>0, <1>1, <1>2, <1>3, <1>5, <2>1 DEF CInv, AtPrompt, Stopped, Continued
  <2>5. Stepped'
    BY <1>0, <1>1, <1>2, <1>3, <1>5, <2>1 DEF CInv, Stepped
  <2>6. SteppedOver'
    <3>1. SUFFICES ASSUME asked.command = "n", connected, m_tracing' = m_tracing PROVE SteppedOver'
      BY <1>2, <1>3 DEF SteppedOver
    <3>2. Depth <= asked.depth /\ Statement.kind # "function" => FALSE
      <4>1. Depth <= asked.depth => Top.m_debug
        BY <1>0, <1>2, <3>1 DEF CInv, SteppedOver, Top, TypeOK, Depth
      <4> QED
        BY <1>5, <3>1, <4>1
    <3> QED
      BY <1>0, <1>1, <1>2, <2>1, <3>1, <3>2 DEF CInv, SteppedOver
  <2> QED
    BY <1>1, <2>3, <2>4, <2>5, <2>6 DEF IInv
<1> QED
  BY <1>4, <1>5

\* Entering a block.
LEMMA EnterKeeps ==
  ASSUME ConstantsOK, IInv, Evaluate, Statement.kind = "evaluate"
  PROVE  IInv'
<1> DEFINE b == Statement.block
           f == [block |-> b, at |-> 1, m_debug |-> m_tracing']
<1>0. TypeOK /\ CInv /\ BlocksAreThoseEvaluated
  BY DEF IInv, CInv
<1>1. /\ pc = "evaluate" /\ pc' = "statement"
      /\ m_tracing' = (m_tracing \/ Hit(b))
      /\ m_last_command' = (IF Hit(b) THEN "s" ELSE m_last_command)
      /\ asked' = (IF Hit(b) THEN [command |-> "s", depth |-> Depth] ELSE asked)
      /\ stack' = Append(stack, f) /\ m_blockstack' = <<b>> \o m_blockstack
      /\ UNCHANGED <<returning, connected, breakpoint, stopped>>
  BY DEF Evaluate, Enter
<1>2. Depth > 0 /\ Depth \in Nat /\ Top \in Frames /\ Top.at \in 1..Len(Body[Top.block])
  BY <1>0, <1>1, StackFacts DEF TypeOK
<1>3. b \in Blocks
  BY <1>2 DEF ConstantsOK, Statement, Frames
<1>4. m_tracing' \in BOOLEAN /\ f \in Frames
  BY <1>0, <1>1, <1>3 DEF TypeOK, Frames
<1>5. /\ stack' \in Seq(Frames) /\ Depth' = Depth + 1 /\ stack'[Depth + 1] = f
      /\ \A i \in 1..Depth : stack'[i] = stack[i]
  <2> HIDE DEF f
  <2> QED
    BY <1>0, <1>1, <1>2, <1>4, StackFacts DEF Depth
<1>6. Top' = f /\ f.m_debug = m_tracing' /\ f.block = b
  BY <1>5 DEF Top, Depth
<1>7. m_blockstack' \in Seq(Blocks) /\ BlocksAreThoseEvaluated'
  <2>1. m_blockstack \in Seq(Blocks) /\ Len(m_blockstack) = Depth
    BY <1>0 DEF TypeOK, BlocksAreThoseEvaluated
  <2>2. /\ m_blockstack' \in Seq(Blocks) /\ Len(m_blockstack') = Depth + 1 /\ m_blockstack'[1] = b
        /\ \A i \in 2..(Depth + 1) : m_blockstack'[i] = m_blockstack[i - 1]
    <3> HIDE DEF b, f
    <3> QED
      BY <1>1, <1>2, <1>3, <2>1
  <2>3. ASSUME NEW i \in 1..(Depth + 1) PROVE m_blockstack'[i] = stack'[Depth + 2 - i].block
    <3>1. CASE i = 1
      BY <1>2, <1>5, <1>6, <2>2, <3>1
    <3>2. CASE i # 1
      <4>1. i - 1 \in 1..Depth /\ i \in 2..(Depth + 1) /\ Depth + 2 - i \in 1..Depth /\ Depth + 1 - (i - 1) = Depth + 2 - i
        BY <1>2, <3>2
      <4>2. m_blockstack'[i] = m_blockstack[i - 1] /\ m_blockstack[i - 1] = stack[Depth + 1 - (i - 1)].block
        BY <1>0, <2>2, <4>1 DEF BlocksAreThoseEvaluated
      <4>3. stack'[Depth + 2 - i] = stack[Depth + 2 - i]
        BY <1>5, <4>1
      <4> QED
        BY <4>1, <4>2, <4>3
    <3> QED
      BY <3>1, <3>2
  <2>4. \A i \in 1..(Depth + 1) : m_blockstack'[i] = stack'[Depth + 1 + 1 - i].block
    BY <1>2, <2>3
  <2> QED
    BY <1>5, <2>2, <2>4 DEF BlocksAreThoseEvaluated
<1>8. TypeOK'
  <2>1. asked' \in [command : Commands, depth : Nat] /\ m_last_command' \in Commands \cup {"unknown"}
    BY <1>0, <1>1, <1>2 DEF TypeOK, Commands
  <2> QED
    BY <1>0, <1>1, <1>2, <1>4, <1>5, <1>7, <2>1 DEF TypeOK
<1>9. AtPrompt' /\ Stopped'
  BY <1>1 DEF AtPrompt, Stopped
<1> HIDE DEF f, b
<1>10. CASE Hit(b)
  <2>1. asked'.command = "s" /\ m_last_command' = "s" /\ m_tracing'
    BY <1>1, <1>10
  <2> QED
    BY <1>1, <1>6, <1>7, <1>8, <1>9, <2>1 DEF IInv, Continued, Stepped, SteppedOver
<1>11. CASE ~Hit(b)
  <2>1. asked' = asked /\ m_last_command' = m_last_command /\ m_tracing' = m_tracing
    BY <1>0, <1>1, <1>11 DEF TypeOK
  <2>2. Continued' /\ Stepped'
    BY <1>0, <1>1, <1>6, <2>1 DEF CInv, Continued, Stepped
  <2>3. SteppedOver'
    <3>1. SUFFICES ASSUME asked.command = "n", connected PROVE SteppedOver'
      BY <1>1, <2>1 DEF SteppedOver
    <3>2. Depth >= asked.depth /\ ~m_tracing /\ asked.depth \in Nat
      <4>1. Statement.kind # "function" /\ asked.depth \in Nat
        BY <1>0 DEF TypeOK
      <4> QED
        BY <1>0, <1>1, <1>2, <3>1, <4>1 DEF CInv, SteppedOver
    <3>3. asked.depth > 0 /\ stack[asked.depth].m_debug /\ \A i \in 1..Depth : i > asked.depth => ~stack[i].m_debug
      BY <1>0, <3>1, <3>2 DEF CInv, SteppedOver
    <3>4. stack'[asked.depth].m_debug
      BY <1>2, <1>5, <3>2, <3>3
    <3>5. ASSUME NEW i \in 1..Depth', i > asked.depth PROVE ~stack'[i].m_debug
      BY <1>2, <1>5, <1>6, <2>1, <3>2, <3>3, <3>5
    <3>6. asked' = asked /\ Depth' > asked'.depth /\ ~m_tracing' /\ m_last_command' = "n" /\ asked'.depth > 0
      BY <1>0, <1>2, <1>5, <2>1, <3>1, <3>2, <3>3 DEF CInv, SteppedOver
    <3>7. ~(Depth' < asked'.depth) /\ ~(Depth' = asked'.depth) /\ ~(Depth' <= asked'.depth)
      BY <1>2, <1>5, <2>1, <3>2
    <3> QED
      BY <3>4, <3>5, <3>6, <3>7 DEF SteppedOver
  <2> QED
    BY <1>7, <1>8, <1>9, <2>2, <2>3 DEF IInv
<1> QED
  BY <1>10, <1>11

LEMMA EvaluateKeeps ==
  ASSUME ConstantsOK, IInv, Evaluate
  PROVE  IInv'
<1>0. TypeOK /\ CInv /\ BlocksAreThoseEvaluated
  BY DEF IInv, CInv
<1>1. CASE Statement.kind = "evaluate"
  BY <1>1, EnterKeeps
<1>2. CASE Statement.kind # "evaluate"
  <2>1. /\ pc = "evaluate" /\ pc' = "after" /\ returning' \in BOOLEAN
        /\ UNCHANGED <<stack, m_tracing, m_last_command, m_blockstack, connected, breakpoint, asked, stopped>>
    BY <1>2 DEF Evaluate
  <2>2. Top' = Top /\ Depth' = Depth /\ BlocksAreThoseEvaluated'
    BY <1>0, <2>1, SameStack
  <2>3. TypeOK'
    BY <1>0, <2>1, <2>2 DEF TypeOK
  <2>4. CInv'
    BY <1>0, <2>1, <2>2 DEF CInv, AtPrompt, Stopped, Continued, Stepped, SteppedOver
  <2> QED
    BY <2>2, <2>3, <2>4 DEF IInv, CInv
<1> QED
  BY <1>1, <1>2

LEMMA AfterKeeps ==
  ASSUME ConstantsOK, IInv, After
  PROVE  IInv'
<1>0. TypeOK /\ CInv /\ BlocksAreThoseEvaluated
  BY DEF IInv, CInv
<1>1. /\ pc = "after" /\ pc' \in {"leave", "statement"}
      /\ m_tracing' = (IF Top.m_debug THEN m_last_command # "c" ELSE m_tracing)
      /\ stack' = InTop(Top.at + 1, m_tracing')
      /\ UNCHANGED <<returning, m_last_command, m_blockstack, connected, breakpoint, asked, stopped>>
  BY DEF After, Advance
<1>2. Depth > 0 /\ Depth \in Nat /\ Top \in Frames /\ stack \in Seq(Frames)
  BY <1>0, <1>1, StackFacts DEF TypeOK
<1>3. m_tracing' \in BOOLEAN
  BY <1>0, <1>1 DEF TypeOK
<1>4. /\ stack' \in Seq(Frames) /\ Len(stack') = Depth
      /\ \A i \in 1..Depth : i # Depth => stack'[i] = stack[i]
      /\ stack'[Depth].m_debug = m_tracing' /\ stack'[Depth].block = stack[Depth].block
  <2>1. Top.at + 1 \in Nat \ {0}
    BY <1>2 DEF Frames
  <2>2. \A d \in BOOLEAN :
          /\ InTop(Top.at + 1, d) \in Seq(Frames) /\ Len(InTop(Top.at + 1, d)) = Depth
          /\ \A i \in 1..Depth : i # Depth => InTop(Top.at + 1, d)[i] = stack[i]
          /\ InTop(Top.at + 1, d)[Depth].m_debug = d /\ InTop(Top.at + 1, d)[Depth].block = stack[Depth].block
    BY <1>0, <1>2, <2>1, InTopFacts, ZenonT(60)
  <2> QED
    BY <1>1, <1>3, <2>2, ZenonT(60)
<1>5. Depth' = Depth /\ Top'.m_debug = m_tracing' /\ \A i \in 1..Depth : stack'[i].block = stack[i].block
  BY <1>2, <1>4 DEF Depth, Top
<1>6. BlocksAreThoseEvaluated'
  BY <1>0, <1>1, <1>5, BlocksSame
<1>7. TypeOK'
  BY <1>0, <1>1, <1>2, <1>3, <1>4, <1>5 DEF TypeOK
<1>8. AtPrompt' /\ Stopped'
  BY <1>1 DEF AtPrompt, Stopped
<1>9. Continued'
  <2>1. asked.command = "c" => ~m_tracing'
    BY <1>0, <1>1 DEF CInv, Continued
  <2> QED
    BY <1>0, <1>1, <1>5, <2>1 DEF CInv, Continued
<1>10. Stepped'
  <2>1. asked.command = "s" /\ connected => m_tracing'
    BY <1>0, <1>1 DEF CInv, Stepped
  <2> QED
    BY <1>0, <1>1, <1>5, <2>1 DEF CInv, Stepped
<1>11. SteppedOver'
  <2>1. SUFFICES ASSUME asked.command = "n", connected PROVE SteppedOver'
    BY <1>1 DEF SteppedOver
  <2>2. asked.depth \in Nat /\ asked.depth > 0 /\ m_last_command = "n" /\ Top = stack[Depth]
    BY <1>0, <2>1 DEF TypeOK, CInv, SteppedOver, Top
  <2>3. CASE Depth > asked.depth
    <3>1. ~Top.m_debug /\ ~m_tracing
      BY <1>0, <1>2, <2>1, <2>2, <2>3 DEF CInv, SteppedOver
    <3>2. ~m_tracing'
      BY <1>1, <3>1
    <3>3. stack'[asked.depth].m_debug
      <4>1. stack[asked.depth].m_debug /\ asked.depth \in 1..Depth /\ asked.depth # Depth
        BY <1>0, <1>2, <2>1, <2>2, <2>3 DEF CInv, SteppedOver
      <4> QED
        BY <1>4, <4>1
    <3>4. ASSUME NEW i \in 1..Depth, i > asked.depth PROVE ~stack'[i].m_debug
      <4>1. ~stack[i].m_debug
        BY <1>0, <2>1, <3>4 DEF CInv, SteppedOver
      <4> QED
        BY <1>4, <3>2, <4>1
    <3>5. asked' = asked /\ Depth' > asked'.depth /\ m_last_command' = "n" /\ asked'.depth > 0 /\ Depth' = Depth
      BY <1>1, <1>5, <2>2, <2>3
    <3>6. ~(Depth' < asked'.depth) /\ ~(Depth' = asked'.depth) /\ ~(Depth' <= asked'.depth)
      BY <1>2, <2>2, <2>3, <3>5
    <3> QED
      BY <3>2, <3>3, <3>4, <3>5, <3>6 DEF SteppedOver
  <2>4. CASE Depth <= asked.depth
    <3>1. m_tracing'
      <4>1. CASE Depth = asked.depth
        <5>1. Top.m_debug
          BY <1>0, <1>2, <2>1, <2>2, <4>1 DEF CInv, SteppedOver
        <5> QED
          BY <1>1, <2>2, <5>1
      <4>2. CASE Depth < asked.depth
        <5>1. m_tracing
          BY <1>0, <2>1, <4>2 DEF CInv, SteppedOver
        <5> QED
          BY <1>1, <2>2, <5>1
      <4> QED
        BY <1>2, <2>2, <2>4, <4>1, <4>2
    <3>2. \A i \in 1..Depth : ~(i > asked.depth)
      BY <1>2, <2>2, <2>4
    <3>3. asked.depth <= Depth => stack'[asked.depth].m_debug
      <4>1. asked.depth <= Depth => asked.depth = Depth
        BY <1>2, <2>2, <2>4
      <4> QED
        BY <1>4, <3>1, <4>1
    <3>4. asked' = asked /\ Depth' <= asked'.depth /\ m_last_command' = "n" /\ asked'.depth > 0 /\ Depth' = Depth
      BY <1>1, <1>5, <2>2, <2>4
    <3>5. ~(Depth' > asked'.depth)
      BY <1>2, <2>2, <3>4
    <3> QED
      BY <1>1, <1>5, <3>1, <3>2, <3>3, <3>4, <3>5 DEF SteppedOver
  <2> QED
    BY <1>2, <2>2, <2>3, <2>4
<1> QED
  BY <1>6, <1>7, <1>8, <1>9, <1>10, <1>11 DEF IInv

LEMMA LeaveKeeps ==
  ASSUME ConstantsOK, IInv, Leave
  PROVE  IInv'
<1>0. TypeOK /\ CInv /\ BlocksAreThoseEvaluated
  BY DEF IInv, CInv
<1>1. /\ pc \in {"statement", "leave"} /\ pc' = (IF Depth = 1 THEN "done" ELSE "after")
      /\ stack' = Front(stack) /\ m_blockstack' = Tail(m_blockstack)
      /\ returning' \in BOOLEAN
      /\ UNCHANGED <<m_tracing, m_last_command, connected, breakpoint, asked, stopped>>
  BY DEF Leave
<1>2. Depth > 0 /\ Depth \in Nat
  BY <1>0, <1>1, StackFacts DEF TypeOK
<1>3. /\ stack' \in Seq(Frames) /\ Len(stack') = Depth - 1
      /\ \A i \in 1..(Depth - 1) : stack'[i] = stack[i]
  BY <1>0, <1>1, <1>2, StackFacts
<1>4. Depth' = Depth - 1
  BY <1>3 DEF Depth
<1>5. m_blockstack' \in Seq(Blocks) /\ BlocksAreThoseEvaluated'
  <2>1. m_blockstack \in Seq(Blocks) /\ Len(m_blockstack) = Depth
    BY <1>0 DEF TypeOK, BlocksAreThoseEvaluated
  <2>2. /\ m_blockstack' \in Seq(Blocks) /\ Len(m_blockstack') = Depth - 1
        /\ \A i \in 1..(Depth - 1) : m_blockstack'[i] = m_blockstack[i + 1]
    BY <1>1, <1>2, <2>1
  <2>3. ASSUME NEW i \in 1..(Depth - 1) PROVE m_blockstack'[i] = stack'[Depth - 1 + 1 - i].block
    <3>1. i + 1 \in 1..Depth /\ Depth + 1 - (i + 1) = Depth - i /\ Depth - 1 + 1 - i = Depth - i /\ Depth - i \in 1..(Depth - 1)
      BY <1>2
    <3>2. m_blockstack[i + 1] = stack[Depth - i].block
      BY <1>0, <3>1 DEF BlocksAreThoseEvaluated
    <3> QED
      BY <1>3, <2>2, <3>1, <3>2
  <2> QED
    BY <1>4, <2>2, <2>3 DEF BlocksAreThoseEvaluated
<1>6. pc' \in {"done", "after"} /\ (pc' # "done" => Depth' > 0)
  BY <1>1, <1>2, <1>4
<1>7. TypeOK'
  BY <1>0, <1>1, <1>3, <1>5, <1>6 DEF TypeOK
<1>8. AtPrompt' /\ Stopped' /\ Continued' /\ Stepped'
  BY <1>0, <1>1, <1>6 DEF CInv, AtPrompt, Stopped, Continued, Stepped
<1>9. SteppedOver'
  <2>1. SUFFICES ASSUME asked.command = "n", connected PROVE SteppedOver'
    BY <1>1 DEF SteppedOver
  <2>2. asked.depth \in Nat /\ asked.depth > 0 /\ m_last_command = "n"
    BY <1>0, <2>1 DEF TypeOK, CInv, SteppedOver
  <2>3. asked.depth <= Depth - 1 => stack'[asked.depth].m_debug
    <3>1. asked.depth <= Depth - 1 => asked.depth <= Depth /\ asked.depth \in 1..(Depth - 1)
      BY <1>2, <2>2
    <3> QED
      BY <1>0, <1>3, <2>1, <3>1 DEF CInv, SteppedOver
  <2>4. ASSUME NEW i \in 1..(Depth - 1), i > asked.depth PROVE ~stack'[i].m_debug
    <3>1. i \in 1..Depth
      BY <1>2
    <3> QED
      BY <1>0, <1>3, <2>1, <2>4, <3>1 DEF CInv, SteppedOver
  <2>5. Depth - 1 > asked.depth => ~m_tracing
    <3>1. Depth - 1 > asked.depth => Depth > asked.depth
      BY <1>2, <2>2
    <3> QED
      BY <1>0, <2>1, <3>1 DEF CInv, SteppedOver
  <2>6. Depth - 1 < asked.depth => m_tracing
    <3>1. Depth - 1 < asked.depth => Depth < asked.depth \/ Depth = asked.depth
      BY <1>2, <2>2
    <3> QED
      BY <1>0, <1>1, <2>1, <3>1 DEF CInv, SteppedOver
  <2> QED
    BY <1>1, <1>4, <1>6, <2>2, <2>3, <2>4, <2>5, <2>6 DEF SteppedOver
<1> QED
  BY <1>5, <1>7, <1>8, <1>9 DEF IInv

\* The commands.
LEMMA ContinueKeeps ==
  ASSUME ConstantsOK, IInv, Continue
  PROVE  IInv'
<1>0. TypeOK /\ CInv /\ BlocksAreThoseEvaluated
  BY DEF IInv, CInv
<1>1. /\ pc = "prompt" /\ pc' = "evaluate" /\ stack' = InTop(Top.at, FALSE) /\ m_tracing' = FALSE
      /\ m_last_command' = "c" /\ asked' = [command |-> "c", depth |-> Depth]
      /\ UNCHANGED <<returning, m_blockstack, connected, breakpoint, stopped>>
  BY DEF Continue, Resume
<1>2. Depth > 0 /\ Depth \in Nat /\ Top \in Frames /\ Top.at \in Nat \ {0} /\ Top = stack[Depth]
  BY <1>0, <1>1, StackFacts DEF TypeOK, Frames, Top
<1>3. /\ stack' \in Seq(Frames) /\ Len(stack') = Depth
      /\ \A i \in 1..Depth : i # Depth => stack'[i] = stack[i]
      /\ stack'[Depth].m_debug = FALSE /\ stack'[Depth].block = stack[Depth].block /\ stack'[Depth].at = Top.at
  <2>1. FALSE \in BOOLEAN
    OBVIOUS
  <2> QED
    BY <1>0, <1>1, <1>2, <2>1, InTopFacts, ZenonT(60)
<1>4. /\ Depth' = Depth /\ Top'.m_debug = FALSE /\ Top'.block = Top.block /\ Top'.at = Top.at
      /\ \A i \in 1..Depth : stack'[i].block = stack[i].block
  BY <1>2, <1>3 DEF Depth, Top
<1>5. BlocksAreThoseEvaluated'
  BY <1>0, <1>1, <1>4, BlocksSame
<1>6. TypeOK'
  <2>1. asked' \in [command : Commands, depth : Nat]
    BY <1>1, <1>2 DEF Commands
  <2>2. Top'.at \in 1..Len(Body[Top'.block])
    BY <1>0, <1>1, <1>4 DEF TypeOK
  <2> QED
    BY <1>0, <1>1, <1>2, <1>3, <1>4, <2>1, <2>2 DEF TypeOK, Commands
<1>7. asked'.command = "c"
  BY <1>1
<1>8. CInv'
  BY <1>1, <1>4, <1>7 DEF CInv, AtPrompt, Stopped, Continued, Stepped, SteppedOver
<1> QED
  BY <1>5, <1>6, <1>8 DEF IInv, CInv

LEMMA StepOverKeeps ==
  ASSUME ConstantsOK, IInv, StepOver
  PROVE  IInv'
<1>0. TypeOK /\ CInv /\ BlocksAreThoseEvaluated
  BY DEF IInv, CInv
<1>1. /\ pc = "prompt" /\ pc' = "evaluate" /\ m_tracing' = FALSE
      /\ m_last_command' = "n" /\ asked' = [command |-> "n", depth |-> Depth]
      /\ UNCHANGED <<stack, returning, m_blockstack, connected, breakpoint, stopped>>
  BY DEF StepOver, Resume
<1>2. Depth > 0 /\ Depth \in Nat /\ Top = stack[Depth] /\ Top.m_debug /\ stopped
  BY <1>0, <1>1, StackFacts DEF TypeOK, Top, CInv, AtPrompt
<1>3. Top' = Top /\ Depth' = Depth /\ Statement' = Statement /\ BlocksAreThoseEvaluated'
  BY <1>0, <1>1, SameStack
<1>4. asked'.command = "n" /\ asked'.depth = Depth /\ asked' \in [command : Commands, depth : Nat]
  BY <1>1, <1>2 DEF Commands
<1>5. TypeOK'
  BY <1>0, <1>1, <1>3, <1>4 DEF TypeOK, Commands
<1>6. AtPrompt' /\ Stopped' /\ Continued' /\ Stepped'
  BY <1>1, <1>2, <1>4 DEF AtPrompt, Stopped, Continued, Stepped
<1>7. SteppedOver'
  <2>1. \A i \in 1..Depth : ~(i > Depth)
    BY <1>2
  <2>2. ~(Depth > Depth) /\ ~(Depth < Depth)
    BY <1>2
  <2> QED
    BY <1>1, <1>2, <1>3, <1>4, <2>1, <2>2 DEF SteppedOver
<1> QED
  BY <1>3, <1>5, <1>6, <1>7 DEF IInv

LEMMA StepKeeps ==
  ASSUME ConstantsOK, IInv, Step
  PROVE  IInv'
<1>0. TypeOK /\ CInv /\ BlocksAreThoseEvaluated
  BY DEF IInv, CInv
<1>1. /\ pc = "prompt" /\ pc' = "evaluate"
      /\ m_last_command' \in {"s", "unknown"} /\ asked' = [command |-> "s", depth |-> Depth]
      /\ UNCHANGED <<stack, m_tracing, returning, m_blockstack, connected, breakpoint, stopped>>
  BY DEF Step, Resume
<1>2. Depth \in Nat /\ Top.m_debug /\ stopped /\ m_tracing
  BY <1>0, <1>1, StackFacts DEF TypeOK, CInv, AtPrompt
<1>3. Top' = Top /\ Depth' = Depth /\ Statement' = Statement /\ BlocksAreThoseEvaluated'
  BY <1>0, <1>1, SameStack
<1>4. asked'.command = "s" /\ asked' \in [command : Commands, depth : Nat]
  BY <1>1, <1>2 DEF Commands
<1>5. TypeOK'
  BY <1>0, <1>1, <1>3, <1>4 DEF TypeOK, Commands
<1>6. CInv'
  BY <1>1, <1>2, <1>3, <1>4 DEF CInv, AtPrompt, Stopped, Continued, Stepped, SteppedOver
<1> QED
  BY <1>3, <1>5, <1>6 DEF IInv, CInv

LEMMA ClosedKeeps ==
  ASSUME ConstantsOK, IInv, Closed
  PROVE  IInv'
<1>0. TypeOK /\ CInv /\ BlocksAreThoseEvaluated
  BY DEF IInv, CInv
<1>1. /\ pc = "prompt" /\ pc' = "evaluate" /\ connected' = FALSE /\ stopped' = FALSE
      /\ UNCHANGED <<stack, returning, m_last_command, m_blockstack, breakpoint, asked>>
  BY DEF Closed
<1>2. m_tracing' \in BOOLEAN
  BY DEF Closed
<1>3. Top' = Top /\ Depth' = Depth /\ Statement' = Statement /\ BlocksAreThoseEvaluated'
  BY <1>0, <1>1, SameStack
<1>4. TypeOK'
  BY <1>0, <1>1, <1>2, <1>3 DEF TypeOK
<1>5. CInv'
  BY <1>0, <1>1, <1>3 DEF CInv, AtPrompt, Stopped, Continued, Stepped, SteppedOver
<1> QED
  BY <1>3, <1>4, <1>5 DEF IInv, CInv

LEMMA BreakpointsKeep ==
  ASSUME ConstantsOK, IInv, NEW f \in Functions, setBreakpoint(f) \/ removeBreakpoint(f)
  PROVE  IInv'
<1>0. TypeOK /\ CInv /\ BlocksAreThoseEvaluated
  BY DEF IInv, CInv
<1>1. UNCHANGED <<stack, pc, returning, m_tracing, m_last_command, m_blockstack, connected, asked, stopped>>
  BY DEF setBreakpoint, removeBreakpoint
<1>2. breakpoint' \in [Functions -> {"none", "enabled", "disabled"}]
  BY <1>0 DEF setBreakpoint, removeBreakpoint, TypeOK
<1>3. Top' = Top /\ Depth' = Depth /\ Statement' = Statement /\ BlocksAreThoseEvaluated'
  BY <1>0, <1>1, SameStack
<1>4. TypeOK'
  BY <1>0, <1>1, <1>2, <1>3 DEF TypeOK
<1>5. CInv'
  BY <1>0, <1>1, <1>3 DEF CInv, AtPrompt, Stopped, Continued, Stepped, SteppedOver
<1> QED
  BY <1>3, <1>4, <1>5 DEF IInv, CInv

-----------------------------------------------------------------------------
(* The theorem.                                                            *)

LEMMA InitIInv ==
  ASSUME ConstantsOK, Init
  PROVE  IInv
<1> DEFINE f == [block |-> Main, at |-> 1, m_debug |-> TRUE]
<1>1. f \in Frames /\ f.block = Main /\ f.m_debug = TRUE
  BY DEF ConstantsOK, Frames
<1>2. stack = <<f>> /\ m_blockstack = <<Main>>
  BY DEF Init
<1> HIDE DEF f
<1>3. stack \in Seq(Frames) /\ Depth = 1 /\ Top = f /\ m_blockstack \in Seq(Blocks)
  BY <1>1, <1>2 DEF Depth, Top, ConstantsOK
<1>4. BlocksAreThoseEvaluated
  BY <1>1, <1>2, <1>3 DEF BlocksAreThoseEvaluated
<1>5. /\ pc = "statement" /\ asked = [command |-> "s", depth |-> 1] /\ asked.command = "s"
      /\ m_tracing /\ m_last_command = "s"
  BY DEF Init
<1>6. TypeOK
  <2>1. asked \in [command : Commands, depth : Nat] /\ m_last_command \in Commands \cup {"unknown"}
    BY <1>5 DEF Commands
  <2>2. breakpoint \in [Functions -> {"none", "enabled", "disabled"}]
    BY DEF Init
  <2>3. returning \in BOOLEAN /\ m_tracing \in BOOLEAN /\ connected \in BOOLEAN /\ stopped \in BOOLEAN
    BY DEF Init
  <2> QED
    BY <1>3, <1>5, <2>1, <2>2, <2>3 DEF TypeOK
<1>7. AtPrompt /\ Stopped /\ Continued /\ SteppedOver
  BY <1>5 DEF AtPrompt, Stopped, Continued, SteppedOver
<1>8. Stepped
  BY <1>1, <1>3, <1>5 DEF Stepped
<1> QED
  BY <1>4, <1>6, <1>7, <1>8 DEF IInv

LEMMA NextKeeps ==
  ASSUME ConstantsOK, IInv, [Next]_debuggerVars
  PROVE  IInv'
<1>1. CASE UNCHANGED debuggerVars
  <2>1. UNCHANGED <<stack, pc, returning, m_tracing, m_last_command, m_blockstack, connected, breakpoint, asked, stopped>>
    BY <1>1 DEF debuggerVars
  <2>2. TypeOK /\ CInv /\ BlocksAreThoseEvaluated
    BY DEF IInv, CInv
  <2>3. Top' = Top /\ Depth' = Depth /\ Statement' = Statement /\ BlocksAreThoseEvaluated'
    BY <2>1, <2>2, SameStack
  <2>4. TypeOK'
    BY <2>1, <2>2, <2>3 DEF TypeOK
  <2>5. CInv'
    BY <2>1, <2>2, <2>3 DEF CInv, AtPrompt, Stopped, Continued, Stepped, SteppedOver
  <2> QED
    BY <2>3, <2>4, <2>5 DEF IInv, CInv
<1>2. CASE Next
  BY <1>2, ReachKeeps, EvaluateKeeps, AfterKeeps, LeaveKeeps, ContinueKeeps, StepOverKeeps, StepKeeps,
     ClosedKeeps, BreakpointsKeep DEF Next
<1> QED
  BY <1>1, <1>2

LEMMA IInvImplies ==
  ASSUME IInv
  PROVE  DebuggerStops
<1>0. TypeOK /\ CInv /\ BlocksAreThoseEvaluated
  BY DEF IInv, CInv
<1>1. asked.depth \in Nat /\ Depth \in Nat /\ asked.command \in Commands
  BY <1>0 DEF TypeOK, Depth
<1>2. ASSUME pc \in {"prompt", "evaluate"}, connected, asked.command = "n", ~(Depth > asked.depth)
      PROVE  pc = "evaluate" => (Top.m_debug \/ Statement.kind = "function")
  <2>1. Depth <= asked.depth /\ Depth > 0
    BY <1>0, <1>1, <1>2 DEF TypeOK
  <2>2. CASE Depth < asked.depth
    BY <1>0, <1>2, <2>2 DEF CInv, SteppedOver
  <2>3. CASE Depth = asked.depth
    BY <1>0, <1>2, <2>1, <2>3 DEF CInv, SteppedOver, Top
  <2> QED
    BY <1>1, <2>1, <2>2, <2>3
<1>3. StopsAsAsked
  <2>1. SUFFICES ASSUME pc = "prompt" PROVE asked.command # "c" /\ (asked.command = "n" => Depth <= asked.depth)
    BY DEF StopsAsAsked
  <2>2. asked.command # "c" /\ connected /\ Top.m_debug
    BY <1>0, <2>1 DEF CInv, Continued, AtPrompt
  <2>3. ASSUME asked.command = "n", Depth > asked.depth PROVE FALSE
    <3>1. Depth \in 1..Depth /\ Top = stack[Depth]
      BY <1>1, <2>1, <1>0 DEF TypeOK, Top
    <3> QED
      BY <1>0, <2>2, <2>3, <3>1 DEF CInv, SteppedOver
  <2> QED
    BY <1>1, <2>2, <2>3
<1>4. NothingIsSkipped
  <2>1. SUFFICES ASSUME pc = "evaluate", connected, ~stopped, Statement.kind # "function"
                 PROVE  asked.command = "c" \/ (asked.command = "n" /\ Depth > asked.depth)
    BY DEF NothingIsSkipped
  <2>2. ~Top.m_debug
    BY <1>0, <2>1 DEF CInv, Stopped
  <2>3. asked.command # "s"
    BY <1>0, <2>1, <2>2 DEF CInv, Stepped
  <2> QED
    BY <1>1, <1>2, <2>1, <2>2, <2>3 DEF Commands
<1> QED
  BY <1>0, <1>3, <1>4 DEF DebuggerStops

\* Whatever the program, the breakpoints and the commands, and also after the client of
\* the debugger has gone: the program stops before every statement it was asked to stop
\* at and before no other, and the debugger's blocks are those that are evaluated
\* (YBlock::evaluate, YBreakpoint::evaluate, Debugger::processInput).
THEOREM StopsRight ==
  ASSUME ConstantsOK
  PROVE  Spec => []DebuggerStops
<1>1. Init => IInv
  BY InitIInv
<1>2. IInv /\ [Next]_debuggerVars => IInv'
  BY NextKeeps
<1>3. IInv => DebuggerStops
  BY IInvImplies
<1> QED
  BY <1>1, <1>2, <1>3, PTL DEF Spec
=============================================================================
