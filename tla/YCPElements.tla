---------------------------- MODULE YCPElements ----------------------------
(***************************************************************************)
(* How YCP values are held (YCPElement, YCPList, YCPMap, YCPTerm).  A      *)
(* value is a representation that counts the handles to it.  Handles share *)
(* it when they are copied; a handle that changes a list, a map or a term  *)
(* first makes itself the only one (writeCopy).  A copy is shallow: the    *)
(* elements are shared in turn, and a term shares the list of its          *)
(* arguments.  The bracket assignment of the language, which walks down a  *)
(* nested value and builds the changed one on the way back, is             *)
(* YSBracket::commit.                                                      *)
(*                                                                         *)
(* shows[v] is not in the program: it is the value that v would have if    *)
(* every handle held a value of its own.                                   *)
(***************************************************************************)
EXTENDS Integers, Sequences, FiniteSets, SequencesExt

CONSTANTS
  Vars,      \* the handles of the program
  Kinds,     \* the kinds of values that are created
  MaxReps,   \* representations alive at once
  MaxSize    \* elements of a list, keys of a map

VARIABLES
  rep,       \* the heap
  element,   \* element[v]: the representation of a handle, 0 for YCPNull
  shows

Reps == 1 .. MaxReps
Freed == [kind |-> "freed", reference_counter |-> 0, cells |-> <<>>]
Unused(r) == {i \in Reps : r[i] = Freed}

(* The one nil (YCPVoid::nil), which is never given up.                    *)
Nil == 1

(* What one operation may allocate: a bracket with two indices copies two  *)
(* terms with their lists.                                                 *)
MaxNew == 4
Room == Cardinality(Unused(rep)) >= MaxNew

-----------------------------------------------------------------------------
(* YCPElementRep                                                           *)

Held(x) == LET k == SetToSeq(DOMAIN x.cells) IN [n \in DOMAIN k |-> x.cells[k[n]]]

clone(r, i) == [r EXCEPT ![i].reference_counter = @ + 1]

(* destroy, and the destructors that a deleted list, map or term runs.     *)
RECURSIVE destroyAll(_, _)
destroyAll(r, todo) ==
  IF todo = <<>> THEN r
  ELSE LET i == Head(todo)
           counter == r[i].reference_counter - 1
       IN IF counter = 0 THEN destroyAll([r EXCEPT ![i] = Freed], Held(r[i]) \o Tail(todo))
          ELSE destroyAll([r EXCEPT ![i].reference_counter = counter], Tail(todo))
destroy(r, i) == destroyAll(r, <<i>>)

(* new, and the handle that its result is given to at once.  What the      *)
(* representation holds it holds by handles of its own.                    *)
Create(r, kind, cells) ==
  LET n == CHOOSE i \in Unused(r) : \A j \in Unused(r) : i <= j
      more(j) == Cardinality({k \in DOMAIN cells : cells[k] = j})
  IN [at |-> n,
      heap |-> [[j \in Reps |-> [r[j] EXCEPT !.reference_counter = @ + more(j)]]
                 EXCEPT ![n] = [kind |-> kind, reference_counter |-> 1, cells |-> cells]]]

NewTerm(r) ==
  LET l == Create(r, "list", <<>>)
      t == Create(l.heap, "term", <<l.at>>)
  IN [at |-> t.at, heap |-> destroy(t.heap, l.at)]

shallowCopy(r, i) == Create(r, r[i].kind, r[i].cells)

writeCopy(r, i) ==
  IF r[i].reference_counter = 1 THEN [at |-> i, heap |-> r]
  ELSE LET c == shallowCopy(r, i) IN [at |-> c.at, heap |-> destroy(c.heap, i)]

(* The members of a representation are handles too: a cell is assigned,    *)
(* appended or erased.                                                     *)
Put(r, i, k, j) ==
  LET old == r[i].cells
      without == IF k \in DOMAIN old THEN destroy(r, old[k]) ELSE r
  IN [clone(without, j) EXCEPT ![i].cells = [m \in DOMAIN old \cup {k} |-> IF m = k THEN j ELSE old[m]]]
Erase(r, i, k) ==
  LET cells == r[i].cells
      left == IF r[i].kind = "map" THEN [m \in DOMAIN cells \ {k} |-> cells[m]] ELSE RemoveAt(cells, k)
  IN destroy([r EXCEPT ![i].cells = left], cells[k])

-----------------------------------------------------------------------------
(* The operations of a handle at representation i: [heap, at].             *)

(* YCPListRep::set: a list is filled with nil up to the index.             *)
RECURSIVE Filled(_, _, _)
Filled(r, i, n) ==
  IF Len(r[i].cells) > n THEN r
  ELSE Filled(Put(r, i, Len(r[i].cells) + 1, Nil), i, n)

listAdd(r, i, j) ==
  LET w == writeCopy(r, i) IN [w EXCEPT !.heap = Put(@, w.at, Len(@[w.at].cells) + 1, j)]
listSet(r, i, n, j) ==
  LET w == writeCopy(r, i)
  IN IF n < 0 THEN w ELSE [w EXCEPT !.heap = Put(Filled(@, w.at, n), w.at, n + 1, j)]
listRemove(r, i, n) == LET w == writeCopy(r, i) IN [w EXCEPT !.heap = Erase(@, w.at, n + 1)]
listSwap(r, i, x, y) ==
  LET w == writeCopy(r, i)
      size == Len(w.heap[w.at].cells)
      swapped(c) == [c EXCEPT ![x + 1] = c[y + 1], ![y + 1] = c[x + 1]]
  IN IF {x, y} \subseteq 0 .. size - 1 THEN [w EXCEPT !.heap[w.at].cells = swapped(@)] ELSE w
functionalAdd(r, i, j, prepend) ==
  Create(r, "list", IF prepend THEN <<j>> \o r[i].cells ELSE Append(r[i].cells, j))

mapAdd(r, i, k, j) == LET w == writeCopy(r, i) IN [w EXCEPT !.heap = Put(@, w.at, k, j)]
(* mutant: the map is changed where it is.                                 *)
UncopiedMapRemove(r, i, k) ==
  [heap |-> IF k \in DOMAIN r[i].cells THEN Erase(r, i, k) ELSE r, at |-> i]
mapRemove(r, i, k) ==
  LET w == writeCopy(r, i)
  IN IF k \in DOMAIN w.heap[w.at].cells THEN [w EXCEPT !.heap = Erase(@, w.at, k)] ELSE w
mapFunctionalAdd(r, i, k, j) ==
  LET m == Create(r, "map", r[i].cells) IN [m EXCEPT !.heap = Put(@, m.at, k, j)]

(* A term changes through its own handle, and then its list through the    *)
(* handle l of the term.                                                   *)
AtList(w, res) == [w EXCEPT !.heap = [res.heap EXCEPT ![w.at].cells = <<res.at>>]]
termAdd(r, i, j) == LET w == writeCopy(r, i) IN AtList(w, listAdd(w.heap, w.heap[w.at].cells[1], j))
termSet(r, i, n, j) == LET w == writeCopy(r, i) IN AtList(w, listSet(w.heap, w.heap[w.at].cells[1], n, j))
termFunctionalAdd(r, i, j) ==
  LET l == functionalAdd(r, r[i].cells[1], j, FALSE)
      t == Create(l.heap, "term", <<l.at>>)
  IN [t EXCEPT !.heap = destroy(@, l.at)]

(* value(n), value(key): 0, YCPNull, when there is none.                   *)
valueAt(r, i, n) ==
  LET x == IF r[i].kind = "term" THEN r[r[i].cells[1]] ELSE r[i]
      k == IF x.kind = "list" THEN n + 1 ELSE n
  IN IF k \in DOMAIN x.cells THEN x.cells[k] ELSE 0

(* YSBracket::commit.  current is a parameter, a handle the caller drops;  *)
(* the result is a handle of the caller's.                                 *)
Assigned(r, i, n, j) ==
  CASE r[i].kind = "list" -> listSet(r, i, n, j)
    [] r[i].kind = "term" -> termSet(r, i, n, j)
    [] r[i].kind = "map" -> LET m == mapFunctionalAdd(r, i, n, j) IN [m EXCEPT !.heap = destroy(@, i)]

RECURSIVE commit(_, _, _, _)
commit(r, current, arg, value) ==
  IF current = 0 \/ r[current].kind \notin {"list", "map", "term"} THEN [heap |-> r, at |-> 0]
  ELSE LET own == clone(r, current)    \* list, map or term of commit
           below == valueAt(own, current, Head(arg))
           passed == IF below = 0 THEN own ELSE clone(own, below)
           inner == commit(passed, below, Tail(arg), value)
           back == IF below = 0 THEN inner.heap ELSE destroy(inner.heap, below)
           res == Assigned(back, current, Head(arg), inner.at)
       IN IF Len(arg) = 1 THEN Assigned(own, current, Head(arg), value)
          ELSE IF inner.at = 0 THEN [heap |-> destroy(back, current), at |-> 0]
          ELSE [res EXCEPT !.heap = destroy(@, inner.at)]

-----------------------------------------------------------------------------
(* The values that the handles ought to show, and the same operations on   *)
(* them.                                                                   *)
Value(kind, cells) == [kind |-> kind, cells |-> cells]
Null == Value("null", <<>>)

RECURSIVE Shown(_, _)
Shown(r, i) ==
  IF i = 0 THEN Null ELSE Value(r[i].kind, [k \in DOMAIN r[i].cells |-> Shown(r, r[i].cells[k])])

With(c, k, x) == [m \in DOMAIN c \cup {k} |-> IF m = k THEN x ELSE c[m]]
Padded(c, n) == c \o [i \in 1 .. n - Len(c) |-> Value("void", <<>>)]

RECURSIVE Replaced(_, _, _)
Replaced(t, n, x) ==
  CASE t.kind = "list" -> IF n < 0 THEN t ELSE Value("list", With(Padded(t.cells, n), n + 1, x))
    [] t.kind = "map" -> Value("map", With(t.cells, n, x))
    [] t.kind = "term" -> Value("term", <<Replaced(t.cells[1], n, x)>>)
Selected(t, n) ==
  LET x == IF t.kind = "term" THEN t.cells[1] ELSE t
      k == IF x.kind = "list" THEN n + 1 ELSE n
  IN IF k \in DOMAIN x.cells THEN x.cells[k] ELSE Null

RECURSIVE Committed(_, _, _)
Committed(t, arg, x) ==
  IF t.kind \notin {"list", "map", "term"} THEN Null
  ELSE IF Len(arg) = 1 THEN Replaced(t, Head(arg), x)
  ELSE LET inner == Committed(Selected(t, Head(arg)), Tail(arg), x)
       IN IF inner = Null THEN Null ELSE Replaced(t, Head(arg), inner)

-----------------------------------------------------------------------------
(* The statements of a program: v is the handle that changes.              *)

Is(v, kind) == element[v] # 0 /\ rep[element[v]].kind = kind
Sized(v) == Len(rep[element[v]].cells)
ArgsOf(v) == rep[rep[element[v]].cells[1]].cells

(* v->op (...)                                                             *)
Change(v, res, value) ==
  /\ rep' = res.heap
  /\ element' = [element EXCEPT ![v] = res.at]
  /\ shows' = [shows EXCEPT ![v] = value]

(* v = temporary: operator= gives up the old representation before it      *)
(* takes the new one, and the temporary goes.                              *)
Give(v, res, value) ==
  LET dropped == IF element[v] = 0 THEN res.heap ELSE destroy(res.heap, element[v])
  IN Change(v, [at |-> res.at,
                heap |-> IF res.at = 0 THEN dropped ELSE destroy(clone(dropped, res.at), res.at)], value)

NewValue(v, kind) ==
  /\ Room
  /\ Give(v, IF kind = "term" THEN NewTerm(rep) ELSE Create(rep, kind, <<>>),
          Value(kind, IF kind = "term" THEN <<Value("list", <<>>)>> ELSE <<>>))

(* v = w, for two handles; a handle assigned to itself stays.              *)
Assign(v, w) ==
  /\ v # w
  /\ Change(v, [at |-> element[w],
                heap |-> LET d == IF element[v] = 0 THEN rep ELSE destroy(rep, element[v])
                         IN IF element[w] = 0 THEN d ELSE clone(d, element[w])], shows[w])

Forget(v) ==
  /\ element[v] # 0
  /\ Change(v, [at |-> 0, heap |-> destroy(rep, element[v])], Null)

(* v = w->value (n), v = w->args ()                                        *)
Select(v, w, n) ==
  /\ element[w] # 0 /\ rep[element[w]].kind \in {"list", "map", "term"}
  /\ LET i == valueAt(rep, element[w], n)
     IN Give(v, [at |-> i, heap |-> IF i = 0 THEN rep ELSE clone(rep, i)], Selected(shows[w], n))
TakeArgs(v, w) ==
  /\ Is(w, "term")
  /\ LET l == rep[element[w]].cells[1]
     IN Give(v, [at |-> l, heap |-> clone(rep, l)], shows[w].cells[1])

(* No caller adds a handle to itself (v # w): v->add (v) would store the   *)
(* list in itself when v is the only handle.                               *)
AddToList(v, w) ==
  /\ Room /\ v # w /\ element[w] # 0 /\ Is(v, "list") /\ Sized(v) < MaxSize
  /\ Change(v, listAdd(rep, element[v], element[w]), Value("list", Append(shows[v].cells, shows[w])))
AddToTerm(v, w) ==
  /\ Room /\ v # w /\ element[w] # 0 /\ Is(v, "term") /\ Len(ArgsOf(v)) < MaxSize
  /\ Change(v, termAdd(rep, element[v], element[w]),
            Value("term", <<Value("list", Append(shows[v].cells[1].cells, shows[w]))>>))
AddToMap(v, k, w) ==
  /\ Room /\ v # w /\ element[w] # 0 /\ Is(v, "map")
  /\ Change(v, mapAdd(rep, element[v], k, element[w]), Value("map", With(shows[v].cells, k, shows[w])))
SetInList(v, n, w) ==
  /\ Room /\ v # w /\ element[w] # 0 /\ Is(v, "list")
  /\ Change(v, listSet(rep, element[v], n, element[w]), Replaced(shows[v], n, shows[w]))
SetInTerm(v, n, w) ==
  /\ Room /\ v # w /\ element[w] # 0 /\ Is(v, "term")
  /\ Change(v, termSet(rep, element[v], n, element[w]), Replaced(shows[v], n, shows[w]))
RemoveFromList(v, n) ==
  /\ Room /\ Is(v, "list") /\ n \in 0 .. Sized(v) - 1
  /\ Change(v, listRemove(rep, element[v], n), Value("list", RemoveAt(shows[v].cells, n + 1)))
RemoveFromMap(v, k) ==
  /\ Room /\ Is(v, "map")
  /\ Change(v, mapRemove(rep, element[v], k),
            Value("map", [m \in DOMAIN shows[v].cells \ {k} |-> shows[v].cells[m]]))
SwapInList(v, x, y) ==
  /\ Room /\ Is(v, "list")
  /\ LET c == shows[v].cells
     IN Change(v, listSwap(rep, element[v], x, y),
               IF {x + 1, y + 1} \subseteq DOMAIN c
               THEN Value("list", [c EXCEPT ![x + 1] = c[y + 1], ![y + 1] = c[x + 1]])
               ELSE shows[v])

(* u = v->functionalAdd (...)                                              *)
FunctionalAdd(u, v, k, w, prepend) ==
  /\ Room /\ element[w] # 0
  /\ \/ /\ Is(v, "list") /\ Sized(v) < MaxSize
        /\ LET c == shows[v].cells
           IN Give(u, functionalAdd(rep, element[v], element[w], prepend),
                   Value("list", IF prepend THEN <<shows[w]>> \o c ELSE Append(c, shows[w])))
     \/ /\ Is(v, "term") /\ ~prepend /\ Len(ArgsOf(v)) < MaxSize
        /\ Give(u, termFunctionalAdd(rep, element[v], element[w]),
                Value("term", <<Value("list", Append(shows[v].cells[1].cells, shows[w]))>>))
     \/ /\ Is(v, "map") /\ ~prepend
        /\ Give(u, mapFunctionalAdd(rep, element[v], k, element[w]),
                Value("map", With(shows[v].cells, k, shows[w])))

(* v[arg] = w: the variable keeps its value when commit answers YCPNull.   *)
Bracket(v, arg, w) ==
  /\ Room /\ element[v] # 0
  /\ LET value == IF element[w] = 0 THEN Nil ELSE element[w]
         new == IF element[w] = 0 THEN Value("void", <<>>) ELSE shows[w]
         res == commit(clone(clone(rep, value), element[v]), element[v], arg, value)
         after == destroy(destroy(res.heap, element[v]), value)
         t == Committed(shows[v], arg, new)
     IN IF res.at = 0 THEN Change(v, [at |-> element[v], heap |-> after], IF t = Null THEN shows[v] ELSE t)
        ELSE Give(v, [at |-> res.at, heap |-> after], t)

Init ==
  /\ rep = [i \in Reps |-> IF i = Nil THEN [kind |-> "void", reference_counter |-> 1, cells |-> <<>>] ELSE Freed]
  /\ element = [v \in Vars |-> 0]
  /\ shows = [v \in Vars |-> Null]

Indices == -1 .. MaxSize - 1
Next ==
  \E v, w \in Vars :
    \/ \E kind \in Kinds : NewValue(v, kind)
    \/ Assign(v, w) \/ Forget(v) \/ TakeArgs(v, w)
    \/ AddToList(v, w) \/ AddToTerm(v, w)
    \/ \E n \in Indices :
         \/ Select(v, w, n) \/ SetInList(v, n, w) \/ SetInTerm(v, n, w)
         \/ AddToMap(v, n, w) \/ RemoveFromMap(v, n) \/ RemoveFromList(v, n)
         \/ \E m \in Indices : SwapInList(v, n, m) \/ Bracket(v, <<n, m>>, w)
         \/ Bracket(v, <<n>>, w)
         \/ \E u \in Vars, p \in BOOLEAN : FunctionalAdd(u, v, n, w, p)

-----------------------------------------------------------------------------
(* Copying a handle copies the value, whatever is shared: a change through *)
(* one handle (writeCopy, the list of a term, commit) is never seen        *)
(* through another, and it is seen whole through its own.                  *)
HandlesShowTheirOwn == \A v \in Vars : Shown(rep, element[v]) = shows[v]

(* Every representation counts the handles to it, the ones that lists,     *)
(* maps and terms hold and the static one of nil included (clone, destroy);*)
(* so what is held is never freed, and what is not held is.                *)
CountersAreExact ==
  LET cells == {<<i, k>> : i \in Reps, k \in Indices \cup 0 .. MaxSize}
      at(i) == Cardinality({v \in Vars : element[v] = i})
               + Cardinality({c \in cells : c[2] \in DOMAIN rep[c[1]].cells /\ rep[c[1]].cells[c[2]] = i})
  IN \A i \in Reps :
       /\ rep[i].reference_counter = at(i) + (IF i = Nil THEN 1 ELSE 0)
       /\ rep[i].kind = "freed" <=> rep[i].reference_counter = 0
=============================================================================
