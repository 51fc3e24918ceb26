------------------------- MODULE WFMHandles_proofs -------------------------
(***************************************************************************)
(* SCR handles stay in order, are not used again, and the agent of SCR::   *)
(* and the System:: namespaces follow the default handle while it is open. *)
(***************************************************************************)
EXTENDS WFMHandles, NaturalsInduction, WellFoundedInduction, SequenceTheorems, TLAPS

\* The handles are in ascending order.
Ascending == \A i, j \in 1..Len(scrs) : i < j => scrs[i].handle < scrs[j].handle

\* The handles that were given out are below handle_cnt, and so is the default.
Given ==
  /\ \A i \in 1..Len(scrs) : scrs[i].handle < handle_cnt
  /\ default_handle < handle_cnt

-----------------------------------------------------------------------------
(* find_handle.                                                            *)

\* A set of positions that is not empty has a least one.
LEMMA MinExists ==
  ASSUME NEW S \in SUBSET Nat, S # {}
  PROVE  \E m \in S : \A j \in S : m <= j
<1>1. PICK x \in S : \A y \in S : ~(<<y, x>> \in OpToRel(<, Nat))
  BY NatLessThanWellFounded, WFMin
<1>2. \A y \in S : ~(y < x)
  BY <1>1 DEF OpToRel
<1>3. \A y \in S : x <= y
  BY <1>2
<1> QED
  BY <1>3

LEMMA HandleType ==
  ASSUME TypeOK
  PROVE  Len(scrs) \in Nat /\ \A i \in 1..Len(scrs) : scrs[i].handle \in Nat
<1>1. scrs \in Seq(WFMSubAgent)
  BY DEF TypeOK
<1>2. Len(scrs) \in Nat /\ \A i \in 1..Len(scrs) : scrs[i] \in WFMSubAgent
  BY <1>1
<1> QED
  BY <1>2 DEF WFMSubAgent

\* lower_bound returns a position in the vector or its end.
LEMMA LowerBoundType ==
  ASSUME TypeOK, NEW h \in Int
  PROVE  LowerBound(h) \in 1..(Len(scrs) + 1)
<1> DEFINE S == {i \in 1..Len(scrs) : scrs[i].handle >= h}
           Bound(i) == /\ \A j \in 1..(i - 1) : scrs[j].handle < h
                       /\ i <= Len(scrs) => scrs[i].handle >= h
<1>1. Len(scrs) \in Nat /\ \A i \in 1..Len(scrs) : scrs[i].handle \in Nat
  BY HandleType
<1>2. \E i \in 1..(Len(scrs) + 1) : Bound(i)
  <2>1. CASE S = {}
    <3>1. Bound(Len(scrs) + 1)
      BY <1>1, <2>1
    <3> QED
      BY <1>1, <3>1
  <2>2. CASE S # {}
    <3>0. S \in SUBSET Nat
      BY <1>1
    <3>1. PICK m \in S : \A j \in S : m <= j
      BY <3>0, <2>2, MinExists
    <3>2. Bound(m)
      BY <1>1, <3>1
    <3> QED
      BY <1>1, <3>1, <3>2
  <2> QED
    BY <2>1, <2>2
<1> QED
  BY <1>2 DEF LowerBound

\* find_handle finds the instances there are and no others.
LEMMA FindHandle ==
  ASSUME TypeOK, Ascending, NEW h \in Int
  PROVE  /\ find_handle(h) # 0 =>
              find_handle(h) \in 1..Len(scrs) /\ scrs[find_handle(h)].handle = h
         /\ \A i \in 1..Len(scrs) : scrs[i].handle = h => find_handle(h) = i
<1>1. Len(scrs) \in Nat /\ \A i \in 1..Len(scrs) : scrs[i].handle \in Nat
  BY HandleType
<1>2. LowerBound(h) \in 1..(Len(scrs) + 1)
  BY LowerBoundType
<1>3. find_handle(h) # 0 => find_handle(h) \in 1..Len(scrs) /\ scrs[find_handle(h)].handle = h
  BY <1>1, <1>2 DEF find_handle
<1>4. ASSUME NEW i \in 1..Len(scrs), scrs[i].handle = h
      PROVE  find_handle(h) = i
  <2> DEFINE Bound(k) == /\ \A j \in 1..(k - 1) : scrs[j].handle < h
                         /\ k <= Len(scrs) => scrs[k].handle >= h
  <2>1. i \in 1..(Len(scrs) + 1) /\ Bound(i)
    BY <1>1, <1>4 DEF Ascending
  <2>2. \A k \in 1..(Len(scrs) + 1) : Bound(k) => k = i
    <3> SUFFICES ASSUME NEW k \in 1..(Len(scrs) + 1), Bound(k) PROVE k = i
      OBVIOUS
    <3>1. ~(k < i)
      BY <1>1, <1>4 DEF Ascending
    <3>2. i < k => i \in 1..(k - 1)
      BY <1>1
    <3>3. ~(i < k)
      BY <1>1, <1>4, <3>2
    <3> QED
      BY SMTT(60), <1>1, <3>1, <3>3
  <2>3. LowerBound(h) = i
    BY <2>1, <2>2 DEF LowerBound
  <2> QED
    BY SMTT(60), <1>1, <1>4, <2>3 DEF find_handle
<1> QED
  BY <1>3, <1>4

\* erase: the elements behind the erased one move up.
LEMMA RemoveAtProperties ==
  ASSUME NEW T, NEW s \in Seq(T), NEW k \in 1..Len(s)
  PROVE  /\ RemoveAt(s, k) \in Seq(T) /\ Len(RemoveAt(s, k)) = Len(s) - 1
         /\ \A j \in 1..(Len(s) - 1) : RemoveAt(s, k)[j] = IF j < k THEN s[j] ELSE s[j + 1]
<1>1. Len(s) \in Nat /\ \A i \in 1..Len(s) : s[i] \in T
  OBVIOUS
<1>2. /\ SubSeq(s, 1, k - 1) \in Seq(T) /\ Len(SubSeq(s, 1, k - 1)) = k - 1
      /\ \A j \in 1..(k - 1) : SubSeq(s, 1, k - 1)[j] = s[j]
  BY <1>1
<1>3. /\ SubSeq(s, k + 1, Len(s)) \in Seq(T) /\ Len(SubSeq(s, k + 1, Len(s))) = Len(s) - k
      /\ \A j \in 1..(Len(s) - k) : SubSeq(s, k + 1, Len(s))[j] = s[k + j]
  BY <1>1
<1> DEFINE a == SubSeq(s, 1, k - 1)
           b == SubSeq(s, k + 1, Len(s))
<1> HIDE DEF a, b
<1>6. /\ a \in Seq(T) /\ Len(a) = k - 1 /\ \A j \in 1..(k - 1) : a[j] = s[j]
      /\ b \in Seq(T) /\ Len(b) = Len(s) - k /\ \A j \in 1..(Len(s) - k) : b[j] = s[k + j]
  BY <1>2, <1>3 DEF a, b
<1>7. /\ a \o b \in Seq(T) /\ Len(a \o b) = Len(a) + Len(b)
      /\ \A j \in 1..(Len(a) + Len(b)) : (a \o b)[j] = IF j <= Len(a) THEN a[j] ELSE b[j - Len(a)]
  BY <1>6, ConcatProperties
<1>4. a \o b \in Seq(T) /\ Len(a \o b) = Len(s) - 1
  BY <1>1, <1>6, <1>7
<1>5. \A j \in 1..(Len(s) - 1) : (a \o b)[j] = IF j < k THEN s[j] ELSE s[j + 1]
  <2> SUFFICES ASSUME NEW j \in 1..(Len(s) - 1)
               PROVE  (a \o b)[j] = IF j < k THEN s[j] ELSE s[j + 1]
    OBVIOUS
  <2>1. CASE j < k
    BY <1>1, <1>6, <1>7, <2>1
  <2>2. CASE ~(j < k)
    <3>1. j - (k - 1) \in 1..(Len(s) - k) /\ k + (j - (k - 1)) = j + 1
      BY <1>1, <2>2
    <3>2. (a \o b)[j] = b[j - (k - 1)]
      BY SMTT(60), <1>1, <1>6, <1>7, <2>2
    <3>3. b[j - (k - 1)] = s[k + (j - (k - 1))]
      BY SMTT(60), <1>6, <3>1
    <3> QED
      BY SMTT(60), <2>2, <3>1, <3>2, <3>3
  <2> QED
    BY <2>1, <2>2
<1> QED
  BY <1>4, <1>5 DEF RemoveAt, a, b

-----------------------------------------------------------------------------
(* The types.                                                              *)

LEMMA InitType == Init => TypeOK
<1> SUFFICES ASSUME Init PROVE TypeOK
  OBVIOUS
<1>1. scrs \in Seq(WFMSubAgent)
  BY DEF Init, WFMSubAgent
<1>2. handle_cnt \in Nat /\ default_handle \in Handles /\ current_scr \in Handles
  BY DEF Init, Handles
<1>3. system_namespaces \in Seq(Y2SystemNamespace) /\ clients \in Seq(Client)
  BY DEF Init
<1> QED
  BY <1>1, <1>2, <1>3 DEF Init, TypeOK

\* Redirecting keeps the namespaces and their functions.
LEMMA RedirectType ==
  ASSUME system_namespaces \in Seq(Y2SystemNamespace), NEW t \in Nat \cup {Local}, Redirect(t)
  PROVE  /\ system_namespaces' \in Seq(Y2SystemNamespace)
         /\ Len(system_namespaces') = Len(system_namespaces)
         /\ \A n \in 1..Len(system_namespaces') :
              /\ system_namespaces'[n].target = t
              /\ \A f \in 1..Len(system_namespaces'[n].functions) : system_namespaces'[n].functions[f] = t
<1> DEFINE Target == Nat \cup {Local}
<1>1. Len(system_namespaces) \in Nat
  OBVIOUS
<1>2. ASSUME NEW n \in 1..Len(system_namespaces)
      PROVE  /\ Redirected(system_namespaces[n], t) \in Y2SystemNamespace
             /\ Redirected(system_namespaces[n], t).target = t
             /\ \A f \in 1..Len(Redirected(system_namespaces[n], t).functions) :
                  Redirected(system_namespaces[n], t).functions[f] = t
  <2>0. system_namespaces[n] \in Y2SystemNamespace
    OBVIOUS
  <2>1. system_namespaces[n].functions \in Seq(Target)
    BY <2>0 DEF Y2SystemNamespace
  <2> DEFINE fs == [f \in 1..Len(system_namespaces[n].functions) |-> t]
  <2>2. fs \in Seq(Target) /\ Len(fs) = Len(system_namespaces[n].functions)
    BY <2>1
  <2>3. \A f \in 1..Len(fs) : fs[f] = t
    BY <2>1, <2>2
  <2>4. Redirected(system_namespaces[n], t) = [target |-> t, functions |-> fs]
    BY DEF Redirected
  <2> HIDE DEF fs
  <2> QED
    BY SMTT(60), <2>2, <2>3, <2>4 DEF Y2SystemNamespace
<1> DEFINE new == [n \in 1..Len(system_namespaces) |-> Redirected(system_namespaces[n], t)]
<1>3. system_namespaces' = new
  BY DEF Redirect
<1>4. new \in Seq(Y2SystemNamespace) /\ Len(new) = Len(system_namespaces)
  BY <1>1, <1>2
<1>5. \A n \in 1..Len(new) : new[n] = Redirected(system_namespaces[n], t)
  BY <1>4
<1> HIDE DEF new
<1> QED
  BY <1>2, <1>3, <1>4, <1>5

LEMMA NextType == TypeOK /\ Ascending /\ [Next]_vars => TypeOK'
<1> SUFFICES ASSUME TypeOK, Ascending, [Next]_vars PROVE TypeOK'
  OBVIOUS
<1> USE DEF Handles
<1>1. ASSUME NEW remote \in BOOLEAN, SCROpen(remote) PROVE TypeOK'
  <2>1. [handle |-> handle_cnt, remote |-> remote] \in WFMSubAgent
    BY DEF TypeOK, WFMSubAgent
  <2>2. scrs' \in Seq(WFMSubAgent)
    <3>1. scrs \in Seq(WFMSubAgent)
      BY DEF TypeOK
    <3>2. Append(scrs, [handle |-> handle_cnt, remote |-> remote]) \in Seq(WFMSubAgent)
      BY <2>1, <3>1, AppendProperties
    <3> QED
      BY <1>1, <3>1, <3>2, Zenon DEF SCROpen, PushBack, NewHandle
  <2>3. handle_cnt' \in Nat /\ current_scr' \in Handles
    BY <1>1 DEF SCROpen, TypeOK, Constructed, NewHandle
  <2> QED
    BY SMTT(60), <1>1, <2>2, <2>3 DEF SCROpen, TypeOK
<1>2. ASSUME NEW h \in Errors \cup 0..(handle_cnt - 1), SCRClose(h) PROVE TypeOK'
  <2>1. h \in Int
    BY DEF TypeOK, Errors
  <2>2. find_handle(h) \in 1..Len(scrs)
    BY <1>2, <2>1, FindHandle DEF SCRClose
  <2>3. scrs' \in Seq(WFMSubAgent)
    BY SMTT(60), <1>2, <2>2, RemoveAtProperties DEF SCRClose, TypeOK
  <2>4. system_namespaces' \in Seq(Y2SystemNamespace)
    BY <1>2, RedirectType DEF SCRClose, TypeOK, Local
  <2>5. default_handle' \in Handles /\ current_scr' \in Handles
    BY <1>2 DEF SCRClose, TypeOK, Destroyed, NoSCR, Errors
  <2> QED
    BY <1>2, <2>3, <2>4, <2>5 DEF SCRClose, TypeOK
<1>3. ASSUME NEW h \in Errors \cup 0..(handle_cnt - 1), SCRSetDefault(h) PROVE TypeOK'
  <2>1. h \in Int /\ h \in Handles
    BY DEF TypeOK, Errors
  <2>2. CASE find_handle(h) = 0
    BY SMTT(60), <1>3, <2>1, <2>2 DEF SCRSetDefault, TypeOK
  <2>3. CASE find_handle(h) # 0
    <3>1. find_handle(h) \in 1..Len(scrs) /\ scrs[find_handle(h)].handle = h
      BY SMTT(60), <2>1, <2>3, FindHandle
    <3>2. h \in Nat
      BY <3>1, HandleType
    <3>3. (IF scrs[find_handle(h)].remote THEN h ELSE Local) \in Nat \cup {Local}
      BY <3>2
    <3>4. system_namespaces' \in Seq(Y2SystemNamespace)
      BY <1>3, <2>3, <3>3, RedirectType DEF SCRSetDefault, TypeOK
    <3> QED
      BY SMTT(60), <1>3, <2>1, <2>3, <3>4 DEF SCRSetDefault, TypeOK, setAsCurrentSCR
  <2> QED
    BY <2>2, <2>3
<1>4. CASE LocalCommand
  BY <1>4 DEF LocalCommand, TypeOK, Constructed, LocalAgent, Errors
<1>5. CASE import
  <2>1. [target |-> Local, functions |-> <<>>] \in Y2SystemNamespace
    BY DEF Y2SystemNamespace
  <2> QED
    BY <1>5, <2>1 DEF import, TypeOK
<1>6. ASSUME NEW n \in 1..Len(system_namespaces), createFunctionCall(n) PROVE TypeOK'
  <2> DEFINE ns == system_namespaces[n]
  <2>1. ns \in Y2SystemNamespace
    BY DEF TypeOK
  <2>2. Append(ns.functions, ns.target) \in Seq(Nat \cup {Local})
    BY <2>1 DEF Y2SystemNamespace
  <2>3. [ns EXCEPT !.functions = Append(@, ns.target)] \in Y2SystemNamespace
    BY <2>1, <2>2 DEF Y2SystemNamespace
  <2>4. system_namespaces' = [system_namespaces EXCEPT ![n] = [ns EXCEPT !.functions = Append(@, ns.target)]]
    BY <1>6 DEF createFunctionCall, NewFunction
  <2>5. system_namespaces' \in Seq(Y2SystemNamespace)
    BY <2>3, <2>4 DEF TypeOK
  <2> QED
    BY <1>6, <2>5 DEF createFunctionCall, TypeOK
<1>7. ASSUME NEW args \in Arguments, CallFunction(args) PROVE TypeOK'
  <2>1. [args |-> args, old |-> argumentlist] \in Client
    BY DEF TypeOK, Client
  <2> QED
    BY <1>7, <2>1 DEF CallFunction, TypeOK
<1>8. CASE Return
  <2>1. clients \in Seq(Client) /\ Len(clients) \in Nat \ {0}
    BY <1>8 DEF Return, TypeOK
  <2>2. clients[Len(clients)] \in Client
    BY <2>1
  <2>3. argumentlist' \in Arguments
    BY <1>8, <2>2 DEF Return, Restored, Last, Client
  <2>4. clients' \in Seq(Client)
    BY <1>8, <2>1 DEF Return
  <2> QED
    BY <1>8, <2>3, <2>4 DEF Return, TypeOK
<1>9. CASE UNCHANGED vars
  BY <1>9 DEF vars, TypeOK
<1> QED
  BY SMTT(60), <1>1, <1>2, <1>3, <1>4, <1>5, <1>6, <1>7, <1>8, <1>9 DEF Next

-----------------------------------------------------------------------------
(* What opening and closing do to the set of open handles.                 *)

LEMMA Opening ==
  ASSUME TypeOK, Ascending, Given, NEW r \in BOOLEAN,
         scrs' = Append(scrs, [handle |-> handle_cnt, remote |-> r]), handle_cnt' = handle_cnt + 1
  PROVE  /\ Ascending' /\ \A i \in 1..Len(scrs') : scrs'[i].handle < handle_cnt'
         /\ \A h : /\ IsOpen(h)' <=> IsOpen(h) \/ h = handle_cnt
                   /\ IsRemote(h) => IsRemote(h)'
<1> DEFINE s == [handle |-> handle_cnt, remote |-> r]
<1>1. /\ scrs \in Seq(WFMSubAgent) /\ s \in WFMSubAgent /\ handle_cnt \in Nat
      /\ Len(scrs) \in Nat /\ \A i \in 1..Len(scrs) : scrs[i].handle \in Nat
  BY HandleType DEF TypeOK, WFMSubAgent
<1>2. /\ Len(scrs') = Len(scrs) + 1 /\ scrs'[Len(scrs) + 1].handle = handle_cnt
      /\ \A i \in 1..Len(scrs) : scrs'[i] = scrs[i]
  BY SMTT(60), <1>1, AppendProperties
<1>3. Ascending' /\ \A i \in 1..Len(scrs') : scrs'[i].handle < handle_cnt'
  BY SMTT(60), <1>1, <1>2 DEF Ascending, Given
<1>4. ASSUME NEW h PROVE IsOpen(h)' <=> IsOpen(h) \/ h = handle_cnt
  BY <1>1, <1>2 DEF IsOpen
<1>5. ASSUME NEW h PROVE IsRemote(h) => IsRemote(h)'
  BY SMTT(60), <1>1, <1>2 DEF IsRemote
<1> QED
  BY <1>3, <1>4, <1>5

LEMMA Closing ==
  ASSUME TypeOK, Ascending, Given, NEW k \in 1..Len(scrs),
         scrs' = RemoveAt(scrs, k), handle_cnt' = handle_cnt
  PROVE  /\ Ascending' /\ \A i \in 1..Len(scrs') : scrs'[i].handle < handle_cnt'
         /\ \A h : /\ IsOpen(h)' <=> IsOpen(h) /\ h # scrs[k].handle
                   /\ IsRemote(h) /\ h # scrs[k].handle => IsRemote(h)'
<1>1. /\ scrs \in Seq(WFMSubAgent) /\ handle_cnt \in Nat
      /\ Len(scrs) \in Nat /\ \A i \in 1..Len(scrs) : scrs[i].handle \in Nat
  BY HandleType DEF TypeOK
<1>2. /\ Len(scrs') = Len(scrs) - 1
      /\ \A j \in 1..(Len(scrs) - 1) : scrs'[j] = IF j < k THEN scrs[j] ELSE scrs[j + 1]
  BY SMTT(60), <1>1, RemoveAtProperties
<1>3. \A j \in 1..Len(scrs') : \E i \in 1..Len(scrs) : i # k /\ scrs'[j] = scrs[i]
  <2> SUFFICES ASSUME NEW j \in 1..Len(scrs')
               PROVE  \E i \in 1..Len(scrs) : i # k /\ scrs'[j] = scrs[i]
    OBVIOUS
  <2>1. CASE j < k
    BY <1>1, <1>2, <2>1
  <2>2. CASE ~(j < k)
    <3>1. j + 1 \in 1..Len(scrs) /\ j + 1 # k /\ scrs'[j] = scrs[j + 1]
      BY SMTT(60), <1>1, <1>2, <2>2
    <3> QED
      BY <3>1
  <2> QED
    BY <2>1, <2>2
<1>4. \A i \in 1..Len(scrs) : i # k => \E j \in 1..Len(scrs') : scrs'[j] = scrs[i]
  <2> SUFFICES ASSUME NEW i \in 1..Len(scrs), i # k
               PROVE  \E j \in 1..Len(scrs') : scrs'[j] = scrs[i]
    OBVIOUS
  <2>1. CASE i < k
    BY SMTT(60), <1>1, <1>2, <2>1
  <2>2. CASE ~(i < k)
    <3>1. i - 1 \in 1..Len(scrs') /\ ~(i - 1 < k) /\ (i - 1) + 1 = i
      BY SMTT(60), <1>1, <1>2, <2>2
    <3>2. scrs'[i - 1] = scrs[i]
      BY SMTT(60), <1>1, <1>2, <3>1
    <3> QED
      BY SMTT(60), <3>1, <3>2
  <2> QED
    BY SMTT(60), <2>1, <2>2
<1>5. Ascending'
  <2> DEFINE At(j) == IF j < k THEN j ELSE j + 1
  <2>1. \A j \in 1..Len(scrs') : At(j) \in 1..Len(scrs) /\ scrs'[j] = scrs[At(j)]
    BY <1>1, <1>2
  <2>2. \A i, j \in 1..Len(scrs') : i < j => At(i) < At(j)
    BY <1>1, <1>2
  <2> HIDE DEF At
  <2> QED
    BY ZenonT(60), <2>1, <2>2 DEF Ascending
<1>6. \A i \in 1..Len(scrs') : scrs'[i].handle < handle_cnt'
  BY <1>3 DEF Given
<1>7. \A i \in 1..Len(scrs) : scrs[i].handle = scrs[k].handle => i = k
  BY <1>1 DEF Ascending
<1>8. ASSUME NEW h PROVE IsOpen(h)' <=> IsOpen(h) /\ h # scrs[k].handle
  <2>1. IsOpen(h)' => IsOpen(h) /\ h # scrs[k].handle
    BY SMTT(60), <1>3, <1>7 DEF IsOpen
  <2>2. IsOpen(h) /\ h # scrs[k].handle => IsOpen(h)'
    BY <1>4 DEF IsOpen
  <2> QED
    BY <2>1, <2>2
<1>9. ASSUME NEW h PROVE IsRemote(h) /\ h # scrs[k].handle => IsRemote(h)'
  BY <1>4 DEF IsRemote
<1> QED
  BY SMTT(60), <1>5, <1>6, <1>8, <1>9

-----------------------------------------------------------------------------
(* The inductive invariant.                                                *)

Inv == /\ TypeOK /\ Ascending /\ Given
       /\ SCRUsesDefault /\ CurrentIsAlive /\ SystemFollowsDefault

\* What each step does to the open handles.
HandlesKept == \A h \in 0..(handle_cnt - 1) : ~IsOpen(h) => ~IsOpen(h)'

LEMMA InitInv == Init => Inv
<1> SUFFICES ASSUME Init PROVE Inv
  OBVIOUS
<1>1. TypeOK
  BY InitType
<1>2. /\ Len(scrs) = 1 /\ scrs[1].handle = 0
      /\ default_handle = 0 /\ current_scr = 0 /\ handle_cnt = 1 /\ Len(system_namespaces) = 0
  BY DEF Init
<1>3. Ascending /\ Given /\ SCRUsesDefault
  BY <1>2 DEF Ascending, Given, SCRUsesDefault
<1>4. CurrentIsAlive
  BY <1>2 DEF CurrentIsAlive, IsOpen
<1>5. SystemFollowsDefault
  BY <1>2 DEF SystemFollowsDefault
<1> QED
  BY SMTT(60), <1>1, <1>3, <1>4, <1>5 DEF Inv

LEMMA OpenType ==
  ASSUME TypeOK, NEW h, IsOpen(h)
  PROVE  h \in Nat
  BY HandleType DEF IsOpen

\* Steps that leave the instances, the default and the agent of SCR:: alone.
LEMMA Elsewhere ==
  ASSUME Inv, TypeOK', UNCHANGED <<scrs, handle_cnt, default_handle, current_scr, local_started>>
  PROVE  /\ Ascending' /\ Given' /\ SCRUsesDefault' /\ CurrentIsAlive' /\ HandlesKept
         /\ \A h : (IsOpen(h)' <=> IsOpen(h)) /\ (IsRemote(h)' <=> IsRemote(h))
<1>1. \A h : (IsOpen(h)' <=> IsOpen(h)) /\ (IsRemote(h)' <=> IsRemote(h))
  BY DEF IsOpen, IsRemote
<1>2. Ascending' /\ Given'
  BY DEF Inv, Ascending, Given
<1>3. SCRUsesDefault' /\ CurrentIsAlive'
  BY <1>1 DEF Inv, SCRUsesDefault, CurrentIsAlive
<1>4. HandlesKept
  BY <1>1 DEF HandlesKept
<1> QED
  BY SMTT(60), <1>1, <1>2, <1>3, <1>4

LEMMA OpenStep ==
  ASSUME Inv, TypeOK', NEW remote \in BOOLEAN, SCROpen(remote)
  PROVE  Inv' /\ HandlesKept
<1> USE DEF Inv
<1>0. handle_cnt \in Nat /\ handle_cnt' = handle_cnt + 1 /\ default_handle \in Int
      /\ UNCHANGED <<default_handle, local_started, system_namespaces>>
  BY DEF SCROpen, TypeOK, Handles, Errors
<1>1. CASE /\ scrs' = PushBack([handle |-> NewHandle, remote |-> remote])
           /\ current_scr' = Constructed(NewHandle)
  <2>1. /\ Ascending' /\ \A i \in 1..Len(scrs') : scrs'[i].handle < handle_cnt'
        /\ \A h : /\ IsOpen(h)' <=> IsOpen(h) \/ h = handle_cnt
                  /\ IsRemote(h) => IsRemote(h)'
    BY SMTT(60), <1>0, <1>1, Opening DEF PushBack, NewHandle
  <2>2. Given'
    BY <1>0, <2>1 DEF Given
  <2>3. IsOpen(default_handle)' => IsOpen(default_handle) /\ default_handle' = default_handle
    <3>1. default_handle # handle_cnt
      BY <1>0 DEF Given
    <3>2. IsOpen(default_handle)' <=> IsOpen(default_handle) \/ default_handle = handle_cnt
      BY <1>0, <2>1 DEF IsOpen
    <3> QED
      BY SMTT(60), <1>0, <3>1, <3>2
  <2>4. SCRUsesDefault'
    <3>1. ASSUME IsOpen(default_handle)' PROVE current_scr' = default_handle'
      <4>1. IsOpen(default_handle) /\ current_scr = default_handle
        BY <2>3, <3>1 DEF SCRUsesDefault
      <4>2. current_scr # NoSCR
        BY SMTT(60), <4>1, OpenType DEF NoSCR
      <4> QED
        BY <1>0, <1>1, <4>1, <4>2 DEF Constructed
    <3> QED
      BY <3>1 DEF SCRUsesDefault
  <2>5. CurrentIsAlive'
    <3>1. CASE current_scr = NoSCR
      <4>1. current_scr' = handle_cnt
        BY SMTT(60), <1>1, <3>1 DEF Constructed, NewHandle
      <4>2. IsOpen(current_scr)'
        BY <2>1, <4>1 DEF IsOpen
      <4> QED
        BY <4>2 DEF CurrentIsAlive
    <3>2. CASE current_scr # NoSCR
      <4>1. current_scr' = current_scr
        BY SMTT(60), <1>1, <3>2 DEF Constructed
      <4>2. IsOpen(current_scr) => IsOpen(current_scr)'
        BY <2>1, <4>1 DEF IsOpen
      <4> QED
        BY SMTT(60), <1>0, <4>1, <4>2 DEF CurrentIsAlive
    <3> QED
      BY SMTT(60), <3>1, <3>2
  <2>6. SystemFollowsDefault'
    <3>1. IsRemote(default_handle) => IsRemote(default_handle)'
      BY <1>0, <2>1 DEF IsRemote
    <3> QED
      BY <1>0, <2>3, <3>1 DEF SystemFollowsDefault
  <2>7. HandlesKept
    BY <1>0, <2>1 DEF HandlesKept
  <2> QED
    BY SMTT(60), <2>1, <2>2, <2>4, <2>5, <2>6, <2>7
<1>2. CASE UNCHANGED <<scrs, current_scr>>
  <2>1. \A h : (IsOpen(h)' <=> IsOpen(h)) /\ (IsRemote(h)' <=> IsRemote(h))
    BY <1>2 DEF IsOpen, IsRemote
  <2>2. IsOpen(default_handle)' <=> IsOpen(default_handle)
    BY SMTT(60), <1>0, <1>2 DEF IsOpen
  <2>3. IsRemote(default_handle)' <=> IsRemote(default_handle)
    BY SMTT(60), <1>0, <1>2 DEF IsRemote
  <2>4. Ascending' /\ Given'
    <3>1. \A i \in 1..Len(scrs) : scrs[i].handle \in Nat
      BY HandleType
    <3> QED
      BY SMTT(60), <1>0, <1>2, <3>1 DEF Ascending, Given
  <2>5. SCRUsesDefault'
    BY SMTT(60), <1>0, <1>2, <2>2 DEF SCRUsesDefault
  <2>6. CurrentIsAlive'
    BY SMTT(60), <1>0, <1>2 DEF CurrentIsAlive, IsOpen
  <2>7. SystemFollowsDefault'
    BY SMTT(60), <1>0, <2>2, <2>3 DEF SystemFollowsDefault
  <2>8. HandlesKept
    BY <2>1 DEF HandlesKept
  <2> QED
    BY <2>4, <2>5, <2>6, <2>7, <2>8
<1> QED
  BY SMTT(60), <1>1, <1>2 DEF SCROpen

LEMMA CloseStep ==
  ASSUME Inv, TypeOK', NEW h \in Int, SCRClose(h)
  PROVE  Inv' /\ HandlesKept
<1> USE DEF Inv
<1>0. find_handle(h) \in 1..Len(scrs) /\ scrs[find_handle(h)].handle = h
  BY FindHandle DEF SCRClose
<1>1. /\ scrs' = RemoveAt(scrs, find_handle(h)) /\ handle_cnt' = handle_cnt
      /\ local_started' = local_started /\ current_scr' = Destroyed(h)
  BY DEF SCRClose
<1>2. /\ Ascending' /\ \A i \in 1..Len(scrs') : scrs'[i].handle < handle_cnt'
      /\ \A g : /\ IsOpen(g)' <=> IsOpen(g) /\ g # h
                /\ IsRemote(g) /\ g # h => IsRemote(g)'
  BY SMTT(60), <1>0, <1>1, Closing
<1>3. IsOpen(h) /\ h \in Nat
  BY SMTT(60), <1>0, HandleType DEF IsOpen
<1>4. CurrentIsAlive'
  <2>1. CASE current_scr = h
    BY SMTT(60), <1>1, <2>1 DEF Destroyed, CurrentIsAlive
  <2>2. CASE current_scr # h
    <3>1. current_scr' = current_scr
      BY SMTT(60), <1>1, <2>2 DEF Destroyed
    <3>2. IsOpen(current_scr) => IsOpen(current_scr)'
      BY SMTT(60), <1>2, <2>2, <3>1 DEF IsOpen
    <3> QED
      BY SMTT(60), <1>1, <3>1, <3>2 DEF CurrentIsAlive
  <2> QED
    BY SMTT(60), <2>1, <2>2
<1>5. HandlesKept
  BY <1>2 DEF HandlesKept
<1>6. CASE h = default_handle
  <2>1. default_handle' = -1
    BY <1>6 DEF SCRClose
  <2>2. ~IsOpen(-1)
    BY OpenType
  <2>3. ~IsOpen(default_handle)'
    BY <1>2, <2>1, <2>2 DEF IsOpen
  <2>4. Given'
    BY <1>1, <1>2, <2>1 DEF Given, TypeOK
  <2> QED
    BY SMTT(60), <1>2, <1>4, <1>5, <2>3, <2>4 DEF SCRUsesDefault, SystemFollowsDefault
<1>7. CASE h # default_handle
  <2>1. UNCHANGED <<default_handle, system_namespaces>>
    BY <1>7 DEF SCRClose
  <2>2. IsOpen(default_handle)' <=> IsOpen(default_handle)
    BY SMTT(60), <1>2, <1>7, <2>1 DEF IsOpen
  <2>3. IsRemote(default_handle) => IsRemote(default_handle)'
    BY <1>2, <1>7, <2>1 DEF IsRemote
  <2>4. Given'
    BY <1>1, <1>2, <2>1 DEF Given
  <2>5. SCRUsesDefault'
    BY SMTT(60), <1>1, <1>7, <2>1, <2>2 DEF SCRUsesDefault, Destroyed
  <2>6. SystemFollowsDefault'
    BY SMTT(60), <2>1, <2>2, <2>3 DEF SystemFollowsDefault
  <2> QED
    BY <1>2, <1>4, <1>5, <2>4, <2>5, <2>6
<1> QED
  BY SMTT(60), <1>6, <1>7

LEMMA SetDefaultStep ==
  ASSUME Inv, TypeOK', NEW h \in Int, h < handle_cnt, SCRSetDefault(h)
  PROVE  Inv' /\ HandlesKept
<1> USE DEF Inv
<1>1. default_handle' = h /\ UNCHANGED <<scrs, handle_cnt, local_started>>
  BY DEF SCRSetDefault
<1>2. \A g : (IsOpen(g)' <=> IsOpen(g)) /\ (IsRemote(g)' <=> IsRemote(g))
  BY SMTT(60), <1>1 DEF IsOpen, IsRemote
<1>3. Ascending' /\ Given' /\ HandlesKept
  BY SMTT(60), <1>1, <1>2 DEF Ascending, Given, HandlesKept
<1>4. IsOpen(default_handle)' <=> IsOpen(h)
  BY SMTT(60), <1>1 DEF IsOpen
<1>5. CASE find_handle(h) = 0
  <2>1. ~IsOpen(h)
    <3>1. \A i \in 1..Len(scrs) : scrs[i].handle = h => find_handle(h) = i
      BY FindHandle
    <3> QED
      BY SMTT(60), <1>5, <3>1, HandleType DEF IsOpen
  <2>2. current_scr' = current_scr
    BY <1>5 DEF SCRSetDefault
  <2>3. CurrentIsAlive'
    BY SMTT(60), <1>1, <2>2 DEF CurrentIsAlive, IsOpen
  <2> QED
    BY SMTT(60), <1>3, <1>4, <2>1, <2>3 DEF SCRUsesDefault, SystemFollowsDefault
<1>6. CASE find_handle(h) # 0
  <2> DEFINE t == IF scrs[find_handle(h)].remote THEN h ELSE Local
  <2>1. find_handle(h) \in 1..Len(scrs) /\ scrs[find_handle(h)].handle = h
    BY SMTT(60), <1>6, FindHandle
  <2>2. IsOpen(h) /\ h \in Nat
    BY SMTT(60), <2>1, HandleType DEF IsOpen
  <2>3. current_scr' = h /\ Redirect(t)
    BY <1>6 DEF SCRSetDefault, setAsCurrentSCR
  <2>4. SCRUsesDefault' /\ CurrentIsAlive'
    <3>1. IsOpen(current_scr)'
      BY SMTT(60), <1>1, <2>2, <2>3 DEF IsOpen
    <3> QED
      BY SMTT(60), <1>1, <2>3, <3>1 DEF SCRUsesDefault, CurrentIsAlive
  <2>5. \A n \in 1..Len(system_namespaces') :
           /\ system_namespaces'[n].target = t
           /\ \A f \in 1..Len(system_namespaces'[n].functions) : system_namespaces'[n].functions[f] = t
    <3>1. t \in Nat \cup {Local}
      BY <2>2
    <3> QED
      BY <2>3, <3>1, RedirectType DEF TypeOK
  <2>6. t # Local => t = h /\ IsRemote(h)
    BY <2>1 DEF IsRemote
  <2>7. IsRemote(default_handle)' <=> IsRemote(h)
    BY <1>1 DEF IsRemote
  <2> HIDE DEF t
  <2>8. SystemFollowsDefault'
    BY <1>1, <2>5, <2>6, <2>7 DEF SystemFollowsDefault
  <2> QED
    BY SMTT(60), <1>3, <2>4, <2>8
<1> QED
  BY SMTT(60), <1>5, <1>6

LEMMA LocalStep ==
  ASSUME Inv, TypeOK', LocalCommand
  PROVE  Inv' /\ HandlesKept
<1> USE DEF Inv
<1>1. UNCHANGED <<scrs, handle_cnt, default_handle, system_namespaces>> /\ local_started' = TRUE
  BY DEF LocalCommand
<1>2. \A g : (IsOpen(g)' <=> IsOpen(g)) /\ (IsRemote(g)' <=> IsRemote(g))
  BY <1>1 DEF IsOpen, IsRemote
<1>3. Ascending' /\ Given' /\ HandlesKept
  BY SMTT(60), <1>1, <1>2 DEF Ascending, Given, HandlesKept
<1>4. IsOpen(default_handle)' <=> IsOpen(default_handle)
  BY <1>1 DEF IsOpen
<1>5. IsRemote(default_handle)' <=> IsRemote(default_handle)
  BY SMTT(60), <1>1 DEF IsRemote
<1>6. SystemFollowsDefault'
  BY SMTT(60), <1>1, <1>4, <1>5 DEF SystemFollowsDefault
<1>7. current_scr' = current_scr \/ (current_scr = NoSCR /\ current_scr' = LocalAgent)
  BY DEF LocalCommand, Constructed
<1>8. SCRUsesDefault'
  <2>1. IsOpen(default_handle) => current_scr # NoSCR
    BY OpenType DEF SCRUsesDefault, NoSCR
  <2> QED
    BY SMTT(60), <1>1, <1>4, <1>7, <2>1 DEF SCRUsesDefault
<1>9. CurrentIsAlive'
  BY SMTT(60), <1>1, <1>7 DEF CurrentIsAlive, IsOpen
<1> QED
  BY SMTT(60), <1>3, <1>6, <1>8, <1>9

\* A namespace is imported, or a function of one is created.
LEMMA NamespaceStep ==
  ASSUME Inv, TypeOK', import \/ \E n \in 1..Len(system_namespaces) : createFunctionCall(n)
  PROVE  Inv' /\ HandlesKept
<1> DEFINE Uniform(ns) == \A f \in 1..Len(ns.functions) : ns.functions[f] = ns.target
<1>1. UNCHANGED <<scrs, handle_cnt, default_handle, current_scr, local_started>>
  BY DEF import, createFunctionCall
<1>2. /\ Ascending' /\ Given' /\ SCRUsesDefault' /\ CurrentIsAlive' /\ HandlesKept
      /\ \A h : (IsOpen(h)' <=> IsOpen(h)) /\ (IsRemote(h)' <=> IsRemote(h))
  BY SMTT(60), <1>1, Elsewhere
<1>3. system_namespaces \in Seq(Y2SystemNamespace)
  BY DEF Inv, TypeOK
<1>4. ASSUME IsOpen(default_handle)',
             NEW m \in 1..Len(system_namespaces')
      PROVE  /\ Uniform(system_namespaces'[m])
             /\ system_namespaces'[m].target # Local =>
                  system_namespaces'[m].target = default_handle /\ IsRemote(default_handle)
  <2>1. IsOpen(default_handle)
    BY SMTT(60), <1>1, <1>4 DEF IsOpen
  <2>2. \A n \in 1..Len(system_namespaces) :
           /\ Uniform(system_namespaces[n])
           /\ system_namespaces[n].target # Local =>
                system_namespaces[n].target = default_handle /\ IsRemote(default_handle)
    BY SMTT(60), <2>1 DEF Inv, SystemFollowsDefault
  <2>3. CASE import
    <3> DEFINE new == [target |-> Local, functions |-> <<>>]
    <3>1. new \in Y2SystemNamespace /\ new.target = Local /\ Uniform(new)
      BY DEF Y2SystemNamespace
    <3>2. system_namespaces' = Append(system_namespaces, new)
      BY <2>3 DEF import
    <3> HIDE DEF new, Uniform
    <3>3. system_namespaces'[m] = new \/ (m \in 1..Len(system_namespaces) /\ system_namespaces'[m] = system_namespaces[m])
      BY SMTT(60), <1>3, <1>4, <3>1, <3>2, AppendProperties
    <3> QED
      BY SMTT(60), <2>2, <3>1, <3>3
  <2>4. ASSUME NEW n \in 1..Len(system_namespaces), createFunctionCall(n)
        PROVE  /\ Uniform(system_namespaces'[m])
               /\ system_namespaces'[m].target # Local =>
                    system_namespaces'[m].target = default_handle /\ IsRemote(default_handle)
    <3> DEFINE ns == system_namespaces[n]
               new == [ns EXCEPT !.functions = Append(@, ns.target)]
    <3>0. ns \in Y2SystemNamespace
      BY SMTT(60), <1>3
    <3>1. ns \in Y2SystemNamespace /\ ns.functions \in Seq(Nat \cup {Local}) /\ ns.target \in Nat \cup {Local}
      BY <3>0 DEF Y2SystemNamespace
    <3>2. new.target = ns.target /\ new.functions = Append(ns.functions, ns.target)
      BY SMTT(60), <3>1 DEF Y2SystemNamespace
    <3>3. Uniform(new)
      <4>1. Uniform(ns)
        BY SMTT(60), <2>2
      <4>2. /\ Len(new.functions) = Len(ns.functions) + 1 /\ Len(ns.functions) \in Nat
            /\ new.functions[Len(ns.functions) + 1] = ns.target
            /\ \A f \in 1..Len(ns.functions) : new.functions[f] = ns.functions[f]
        BY SMTT(60), <3>1, <3>2, AppendProperties
      <4> HIDE DEF new
      <4> QED
        BY SMTT(60), <3>2, <4>1, <4>2
    <3>4. system_namespaces' = [system_namespaces EXCEPT ![n] = new]
      BY <2>4 DEF createFunctionCall, NewFunction
    <3> HIDE DEF new, Uniform
    <3>5. /\ m \in 1..Len(system_namespaces)
          /\ system_namespaces'[m] = IF m = n THEN new ELSE system_namespaces[m]
      BY SMTT(60), <1>3, <1>4, <3>4
    <3> QED
      BY SMTT(60), <2>2, <3>2, <3>3, <3>5
  <2> QED
    BY SMTT(60), <2>3, <2>4
<1>5. SystemFollowsDefault'
  <2>1. IsRemote(default_handle)' <=> IsRemote(default_handle)
    BY SMTT(60), <1>1 DEF IsRemote
  <2> QED
    BY SMTT(60), <1>1, <1>4, <2>1 DEF SystemFollowsDefault
<1> QED
  BY SMTT(60), <1>2, <1>5 DEF Inv

LEMMA NextInv == Inv /\ [Next]_vars => Inv' /\ HandlesKept
<1> SUFFICES ASSUME Inv, [Next]_vars PROVE Inv' /\ HandlesKept
  OBVIOUS
<1>0. TypeOK'
  BY NextType DEF Inv
<1>1. ASSUME NEW remote \in BOOLEAN, SCROpen(remote) PROVE Inv' /\ HandlesKept
  BY SMTT(60), <1>0, <1>1, OpenStep
<1>2. ASSUME NEW h \in Errors \cup 0..(handle_cnt - 1), SCRClose(h) \/ SCRSetDefault(h)
      PROVE  Inv' /\ HandlesKept
  <2>1. h \in Int /\ h < handle_cnt
    BY DEF Inv, TypeOK, Errors
  <2> QED
    BY SMTT(60), <1>0, <1>2, <2>1, CloseStep, SetDefaultStep
<1>3. CASE LocalCommand
  BY SMTT(60), <1>0, <1>3, LocalStep
<1>4. CASE import \/ \E n \in 1..Len(system_namespaces) : createFunctionCall(n)
  BY SMTT(60), <1>0, <1>4, NamespaceStep
<1>5. ASSUME \/ \E args \in Arguments : CallFunction(args)
             \/ Return \/ UNCHANGED vars
      PROVE  Inv' /\ HandlesKept
  <2>1. UNCHANGED <<scrs, handle_cnt, default_handle, current_scr, local_started, system_namespaces>>
    BY <1>5 DEF CallFunction, Return, vars
  <2>2. Ascending' /\ Given' /\ SCRUsesDefault' /\ CurrentIsAlive' /\ HandlesKept
    BY <1>0, <2>1, Elsewhere
  <2>3. SystemFollowsDefault'
    BY <2>1 DEF Inv, SystemFollowsDefault, IsOpen, IsRemote
  <2> QED
    BY SMTT(60), <1>0, <2>2, <2>3 DEF Inv
<1> QED
  BY SMTT(60), <1>1, <1>2, <1>3, <1>4, <1>5 DEF Next

-----------------------------------------------------------------------------
(* The theorems.                                                           *)

\* The inductive invariant of the operations on SCR instances and namespaces.
THEOREM Invariance == Spec => []Inv
<1>1. Inv /\ [Next]_vars => Inv'
  BY NextInv
<1> QED
  BY InitInv, <1>1, PTL DEF Spec

\* Y2WFMComponent::find_handle finds every instance that is open, at its place.
THEOREM Found == Spec => []EveryHandleIsFound
<1>1. Inv => EveryHandleIsFound
  <2> SUFFICES ASSUME Inv, NEW i \in 1..Len(scrs) PROVE find_handle(scrs[i].handle) = i
    BY DEF EveryHandleIsFound
  <2>1. scrs[i].handle \in Int
    BY SMTT(60), HandleType DEF Inv
  <2> QED
    BY SMTT(60), <2>1, FindHandle DEF Inv
<1> QED
  BY <1>1, Invariance, PTL

\* SCR:: uses the instance of the default handle while that is open, however
\* instances were opened, closed and made the default before.
THEOREM UsesDefault == Spec => []SCRUsesDefault
<1>1. Inv => SCRUsesDefault
  BY SMTT(60) DEF Inv
<1> QED
  BY <1>1, Invariance, PTL

\* SCRAgent::current_scr never points to a deleted agent.
THEOREM Alive == Spec => []CurrentIsAlive
<1>1. Inv => CurrentIsAlive
  BY SMTT(60) DEF Inv
<1> QED
  BY <1>1, Invariance, PTL

\* While the default handle is open, every function of a System:: namespace runs
\* here or in the process of the default SCR, as the others of its namespace do.
THEOREM Follows == Spec => []SystemFollowsDefault
<1>1. Inv => SystemFollowsDefault
  BY DEF Inv
<1> QED
  BY <1>1, Invariance, PTL

\* SCROpen never returns a handle that was in use before.
THEOREM NotReused == Spec => HandlesAreNotReused
<1>1. Inv /\ [Next]_vars => [\A h \in 0..(handle_cnt - 1) : ~IsOpen(h) => ~IsOpen(h)']_vars
  BY NextInv DEF HandlesKept
<1> QED
  BY <1>1, Invariance, PTL DEF Spec, HandlesAreNotReused

\* SCR:: uses the instance of the default handle, and none that was deleted.
THEOREM CurrentSCR == Spec => []CurrentIsRight
<1>1. SCRUsesDefault /\ CurrentIsAlive => CurrentIsRight
  BY DEF CurrentIsRight
<1> QED
  BY <1>1, UsesDefault, Alive, PTL

\* Each client keeps the arguments of the client that called it.
Stacked ==
  /\ clients # <<>> => argumentlist = clients[Len(clients)].args
  /\ \A i \in 2..Len(clients) : clients[i].old = clients[i - 1].args

\* CallFunction and Return preserve it, and the other steps leave it alone.
LEMMA StackedStep == TypeOK /\ Stacked /\ [Next]_vars => Stacked'
<1> SUFFICES ASSUME TypeOK, Stacked, [Next]_vars PROVE Stacked'
  OBVIOUS
<1>0. clients \in Seq(Client) /\ argumentlist \in Arguments
  BY DEF TypeOK
<1>1. CASE \E args \in Arguments : CallFunction(args)
  <2>1. PICK args \in Arguments : CallFunction(args)
    BY <1>1
  <2>2. clients' = Append(clients, [args |-> args, old |-> argumentlist]) /\ argumentlist' = args
    BY <2>1 DEF CallFunction
  <2>3. Len(clients') = Len(clients) + 1 /\ clients'[Len(clients) + 1] = [args |-> args, old |-> argumentlist]
        /\ \A i \in 1..Len(clients) : clients'[i] = clients[i]
    BY <1>0, <2>2
  <2> QED
    BY <1>0, <2>2, <2>3 DEF Stacked
<1>2. CASE Return
  <2>1. clients # <<>> /\ argumentlist' = clients[Len(clients)].old
        /\ clients' = SubSeq(clients, 1, Len(clients) - 1)
    BY <1>2 DEF Return, Restored, Last
  <2>2. Len(clients) \in Nat \ {0}
    BY <1>0, <2>1
  <2>3. Len(clients') = Len(clients) - 1 /\ \A i \in 1..(Len(clients) - 1) : clients'[i] = clients[i]
    <3> DEFINE n == Len(clients) - 1
    <3>1. n \in Nat /\ \A i \in 1..n : clients[i] \in Client
      BY <1>0, <2>2
    <3> HIDE DEF n
    <3>2. Len(SubSeq(clients, 1, n)) = n /\ \A i \in 1..n : SubSeq(clients, 1, n)[i] = clients[i]
      BY SMTT(30), <3>1
    <3> QED
      BY <2>1, <3>2 DEF n
  <2> QED
    BY <1>0, <2>1, <2>2, <2>3 DEF Stacked
<1>3. CASE UNCHANGED <<argumentlist, clients>>
  BY <1>3 DEF Stacked
<1> QED
  BY <1>1, <1>2, <1>3
  DEF Next, vars, SCROpen, SCRClose, SCRSetDefault, LocalCommand, import, createFunctionCall

\* WFM::Args () answers with the arguments of the client that runs, at any depth.
THEOREM RunningArgs == Spec => []ArgsOfTheRunningClient
<1>1. Init => Stacked
  BY DEF Init, Stacked
<1>2. Inv => TypeOK
  BY DEF Inv
<1>3. Stacked => ArgsOfTheRunningClient
  BY DEF Stacked, ArgsOfTheRunningClient, Last
<1> QED
  BY <1>1, <1>2, <1>3, StackedStep, Invariance, PTL DEF Spec
=============================================================================
