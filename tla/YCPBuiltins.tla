----------------------------- MODULE YCPBuiltins -----------------------------
(***************************************************************************)
(* The builtin functions of YCP on lists, maps, multisets, terms, paths,   *)
(* booleans and numbers (libycp/src/YCPBuiltin*.cc), as functions of the   *)
(* values they get.                                                        *)
(*                                                                         *)
(* YEBuiltin::evaluate (Call) gives a builtin that is not declared with    *)
(* DECL_NIL only arguments other than nil, so the checks for nil in those  *)
(* builtins never apply and their operators take the contents of values of *)
(* the declared types.  The EXPR of a loop builtin is a function e: what   *)
(* evaluating it gives (a value, Null or Break) for the element that the   *)
(* loop variable holds.                                                    *)
(***************************************************************************)
EXTENDS YCPText

CONSTANT IntBits          \* the width of an int

Trap == <<"trap", 0>>  \* the process is killed by a signal, or undefined behaviour

(* YEBuiltin::evaluate: an argument that is nil never reaches a builtin    *)
(* without DECL_NIL.                                                       *)
Call(declNil, args, result) ==
  IF ~declNil /\ \E i \in DOMAIN args : args[i] = Null \/ isVoid(args[i]) THEN Null ELSE result

-----------------------------------------------------------------------------
(* The loops.  Outcome kinds end a loop; the elements before are Walked.   *)

Results(l, e) == [i \in DOMAIN l |-> e[l[i]]]
EndOf(l, e, kinds) == SelectInSeq(Results(l, e), LAMBDA r : r[1] \in kinds)
Walked(l, e, kinds) == LET n == EndOf(l, e, kinds) IN IF n = 0 THEN l ELSE SubSeq(l, 1, n - 1)

(* What the loop ended with, and its kind, "" when it ran to the end.      *)
LastResult(l, e, kinds) == e[l[EndOf(l, e, kinds)]]
EndedBy(l, e, kinds) == LET n == EndOf(l, e, kinds) IN IF n = 0 THEN "" ELSE e[l[n]][1]

(* Where a result must be a boolean, asBoolean aborts on any other.        *)
Others(kinds) == (Range(YCPValueType) \cup {"null"}) \ kinds

l_find(l, e) ==
  LET ends == Others({"boolean", "void", "return"})
      hit  == SelectSeq(Walked(l, e, ends), LAMBDA v : e[v] = Boolean(TRUE))
  IN  IF hit # <<>> THEN Head(hit)
      ELSE IF EndedBy(l, e, ends) \in {"", "null"} THEN Null ELSE asKind(LastResult(l, e, ends), "boolean")

l_filter(l, e) ==
  LET ends == Others({"boolean", "void", "return"})
  IN  CASE EndedBy(l, e, ends) \in {"", "break"} ->
             List(SelectSeq(Walked(l, e, ends), LAMBDA v : e[v] = Boolean(TRUE)))
        [] EndedBy(l, e, ends) = "null" -> Null
        [] OTHER -> asKind(LastResult(l, e, ends), "boolean")

l_maplist(l, e) ==
  IF EndedBy(l, e, {"null", "break"}) = "null" THEN Null
  ELSE List(Results(Walked(l, e, {"null", "break"}), e))

IsEntry(v) == v[1] = "map" /\ Cardinality(DOMAIN v[2]) = 1
AddEntry(m, v) == mapAdd(m, Keys(v[2])[1], v[2][Keys(v[2])[1]])

(* Any result that is not a map of one entry makes the whole call fail.    *)
l_listmap(l, e) ==
  LET seen == Results(Walked(l, e, {"null", "break"}), e)
  IN  IF EndedBy(l, e, {"null", "break"}) = "null" \/ \E i \in DOMAIN seen : ~IsEntry(seen[i]) THEN Null
      ELSE Map(FoldLeft(AddEntry, EmptyMap, seen))

(* The value of the last round; a failing round is only logged.            *)
l_foreach(l, e) ==
  LET seen == Results(Walked(l, e, {"break"}), e)
  IN  IF EndedBy(l, e, {"break"}) = "break" \/ l = <<>> THEN Nil ELSE Last(seen)

(* e of the pair of the value so far and the element; nil and failing      *)
(* rounds keep the value, a break keeps it for good.                       *)
l_reduce_helper(initial, l, e) ==
  LET Round(acc, v) ==
        LET r == e[<<acc[1], v>>]
        IN  IF acc[2] \/ r = Break THEN <<acc[1], TRUE>>
            ELSE IF r = Null \/ isVoid(r) THEN acc ELSE <<r, FALSE>>
  IN  FoldLeft(Round, <<initial, FALSE>>, l)[1]

l_reduce1(l, e) == IF l = <<>> THEN Null ELSE l_reduce_helper(Head(l), Tail(l), e)
l_reduce2(initial, l, e) == l_reduce_helper(initial, l, e)

(* sort(x, y, l, order): a list in which no element comes before one that  *)
(* the order puts first; a failing order counts as false.                  *)
YCPCodeCompare(a, b, order) == order[<<a, b>>] = Boolean(TRUE)
l_sort(l, order) ==
  LET Put(s, v) == LET i == SelectInSeq(s, LAMBDA w : YCPCodeCompare(v, w, order))
                   IN  IF i = 0 THEN Append(s, v) ELSE InsertAt(s, i, v)
  IN  List(FoldLeft(Put, <<>>, l))

-----------------------------------------------------------------------------
(* Lists.                                                                  *)

l_prepend(l, v)     == List(functionalAdd(l, v, TRUE))
l_contains(l, v)    == Boolean(contains(l, v))

(* binary_search: halve the part of the list not less than the value.      *)
RECURSIVE lower_bound(_, _, _, _)
lower_bound(l, first, len, v) ==
  LET half == len \div 2
  IN  IF len = 0 THEN first
      ELSE IF ycp_less(l[first + half], v) THEN lower_bound(l, first + half + 1, len - half - 1, v)
      ELSE lower_bound(l, first, half, v)
l_setcontains(l, v) ==
  LET i == lower_bound(l, 1, Len(l), v) IN Boolean(i <= Len(l) /\ ~ycp_less(v, l[i]))

AddNew(l, v) == IF contains(l, v) THEN l ELSE Append(l, v)
l_unionlist(a, b) == List(FoldLeft(AddNew, <<>>, a \o b))
l_mergelist(a, b) == List(a \o b)

(* The offset and the length are cut to an int.                            *)
l_sublist1(l, offset) ==
  LET i1 == Wrap(offset, IntBits) IN IF i1 \in 0..(Len(l) - 1) THEN List(SubSeq(l, i1 + 1, Len(l))) ELSE Null
l_sublist2(l, offset, length) ==
  LET i1 == Wrap(offset, IntBits)  i2 == Wrap(i1 + length, IntBits)
  IN  IF i1 \in 0..(Len(l) - 1) /\ i2 \in i1..Len(l) THEN List(SubSeq(l, i1 + 1, i2)) ELSE Null

l_flatten(l) ==
  IF \A i \in DOMAIN l : l[i][1] = "list" THEN List(FlattenSeq([i \in DOMAIN l |-> l[i][2]])) ELSE Null

(* std::set keeps the first of the elements that are equal.                *)
l_toset(l) ==
  LET Put(s, v) == IF \E i \in DOMAIN s : ~ycp_less(v, s[i]) /\ ~ycp_less(s[i], v) THEN s ELSE Insert(s, v)
  IN  List(FoldLeft(Put, <<>>, l))
l_sortlist(l)  == List(sortlist(l))

l_add(v, e) == IF v[1] = "list" THEN List(functionalAdd(v[2], e, FALSE)) ELSE Null
l_size(v)   == IF v[1] = "list" THEN Integer(Len(v[2])) ELSE Integer(0)
l_isempty(l) == Boolean(l = <<>>)
l_remove(l, i) == IF i \in 0..(Len(l) - 1) THEN List(removeAt(l, i)) ELSE List(l)
l_select(v, i, def) ==
  IF v[1] = "list" /\ i[1] = "integer" /\ i[2] \in 0..(Len(v[2]) - 1) THEN at(v[2], i[2]) ELSE def
l_swaplist(l, i1, i2) == List(swap(l, Wrap(i1, IntBits), Wrap(i2, IntBits)))
l_tolist(v) == IF v[1] = "list" THEN v ELSE Null

-----------------------------------------------------------------------------
(* Maps.  A loop visits the keys in their order; e is of <<key, value>>.   *)

Entries(m) == LET ks == Keys(m) IN [i \in DOMAIN ks |-> <<ks[i], m[ks[i]]>>]

m_haskey(m, k) == Boolean(k \in DOMAIN m)
m_filter(m, e) ==
  LET ends == Others({"boolean", "void", "return"})
      kept == {k \in DOMAIN m : /\ e[<<k, m[k]>>] = Boolean(TRUE)
                                /\ Contains(Walked(Entries(m), e, ends), <<k, m[k]>>)}
  IN  CASE EndedBy(Entries(m), e, ends) \in {"", "break"} -> Map([k \in kept |-> m[k]])
        [] EndedBy(Entries(m), e, ends) = "null" -> Null
        [] OTHER -> asKind(LastResult(Entries(m), e, ends), "boolean")

(* The first entry of each result; of an empty map there is none to take:  *)
(* undefined behaviour, here Trap.                                         *)
m_mapmap(m, e) ==
  LET ends == Others({"map"})
      seen == Results(Walked(Entries(m), e, ends), e)
  IN  CASE \E i \in DOMAIN seen : seen[i][2] = EmptyMap -> Trap
        [] EndedBy(Entries(m), e, ends) \in {"", "break"} -> Map(FoldLeft(AddEntry, EmptyMap, seen))
        [] EndedBy(Entries(m), e, ends) = "null" -> Null
        [] OTHER -> asKind(LastResult(Entries(m), e, ends), "map")

m_maplist(m, e) == l_maplist(Entries(m), e)
m_unionmap(a, b) == Map([k \in DOMAIN a \cup DOMAIN b |-> IF k \in DOMAIN b THEN b[k] ELSE a[k]])
m_addmap(m, k, v) == IF IsKey(k) THEN Map(mapAdd(m, k, v)) ELSE Null
m_isempty(m) == Boolean(m = EmptyMap)
m_size(v) == IF v[1] = "map" THEN Integer(Cardinality(DOMAIN v[2])) ELSE Integer(0)

(* Unlike the foreach of a list, a failing round ends the loop.            *)
m_foreach(m, e) ==
  LET ends == {"null", "break"}
  IN  CASE EndedBy(Entries(m), e, ends) = "null" -> Null
        [] EndedBy(Entries(m), e, ends) = "break" \/ m = EmptyMap -> Nil
        [] OTHER -> Last(Results(Entries(m), e))

m_tomap(v) == IF v[1] = "map" THEN v ELSE Null
m_remove(m, k) == Map(mapRemove(m, k))

-----------------------------------------------------------------------------
(* multiset:: the std algorithms, which walk two sorted lists in step.     *)

RECURSIVE InStep(_, _, _)
(* take: which sides of a step go to the result: "a" (only in a), "b",     *)
(* "ab" (in both: the element of a), "ba" (in both: the element of b).     *)
InStep(a, b, take) ==
  CASE a = <<>> -> IF "b" \in take THEN b ELSE <<>>
    [] b = <<>> -> IF "a" \in take THEN a ELSE <<>>
    [] OTHER ->
         CASE ycp_less(Head(a), Head(b)) ->
                (IF "a" \in take THEN <<Head(a)>> ELSE <<>>) \o InStep(Tail(a), b, take)
           [] ycp_less(Head(b), Head(a)) ->
                (IF "b" \in take THEN <<Head(b)>> ELSE <<>>) \o InStep(a, Tail(b), take)
           [] OTHER -> (IF "ab" \in take THEN <<Head(a)>> ELSE <<>>) \o
                       (IF "ba" \in take THEN <<Head(b)>> ELSE <<>>) \o InStep(Tail(a), Tail(b), take)

ms_includes(a, b)             == Boolean(InStep(a, b, {"b"}) = <<>>)
ms_difference(a, b)           == List(InStep(a, b, {"a"}))
ms_symmetric_difference(a, b) == List(InStep(a, b, {"a", "b"}))
ms_intersection(a, b)         == List(InStep(a, b, {"ab"}))
ms_union(a, b)                == List(InStep(a, b, {"a", "b", "ab"}))
ms_merge(a, b)                == List(InStep(a, b, {"a", "b", "ab", "ba"}))

-----------------------------------------------------------------------------
(* Terms and paths.                                                        *)

t_size(t) == Integer(Len(t[2]))
t_add(t, v) == Term(t[1], Append(t[2], v))
t_symbolof(t) == Symbol(t[1])
t_argsof(t) == List(t[2])
t_select(v, i, def) ==
  IF v[1] # "term" \/ i[1] # "integer" THEN Null
  ELSE IF i[2] \in 0..(Len(v[2][2]) - 1) THEN at(v[2][2], i[2]) ELSE def
t_toterm1(v) == IF v[1] = "term" THEN v ELSE IF v[1] \in {"string", "symbol"} THEN Term(v[2], <<>>) ELSE Null
t_toterm2(s, l) == Term(s, l)

(* The arguments count from 1 here, from 0 in select.                      *)
t_remove(t, i) == IF i \in 1..Len(t[2]) THEN Term(t[1], removeAt(t[2], i - 1)) ELSE <<"term", t>>

p_size(p) == Integer(Len(p))
p_add(p, s) == Path(appendComponent(p, s))
p_plus(p, q) == Path(p \o q)

-----------------------------------------------------------------------------
(* Booleans: || and && evaluate their operands themselves, from the left,  *)
(* and take nil for false.  Evaluated is the number of operands evaluated. *)

Holds(v) == v = Boolean(TRUE)
IsFalsy(v) == v = Null \/ isVoid(v) \/ v = Boolean(FALSE)
b_lnot(b) == Boolean(~b)
b_or(v1, v2)  == [value |-> Boolean(Holds(v1) \/ Holds(v2)), evaluated |-> IF Holds(v1) THEN 1 ELSE 2]
b_and(v1, v2) == [value |-> Boolean(Holds(v1) /\ Holds(v2)), evaluated |-> IF IsFalsy(v1) THEN 1 ELSE 2]

-----------------------------------------------------------------------------
(* Integers: the arithmetic of a long long, which wraps around.            *)

LL(x) == Integer(WrapLL(x))
Unsigned(x) == x % 2^LongLongBits

(* C++ rounds the quotient to zero and the remainder has the sign of the   *)
(* dividend.                                                               *)
Abs(x) == IF x < 0 THEN -x ELSE x
Quotient(x, y) == Sign(x) * Sign(y) * (Abs(x) \div Abs(y))
Remainder(x, y) == x - y * Quotient(x, y)
Overflows(x, y) == x = -(2^(LongLongBits - 1)) /\ y = -1

i_plus(x, y)  == LL(x + y)
i_minus(x, y) == LL(x - y)
i_mult(x, y)  == LL(x * y)
i_neg(x)      == LL(-x)
i_div(x, y)   == IF y = 0 THEN Null ELSE IF Overflows(x, y) THEN Trap ELSE LL(Quotient(x, y))
i_mod(x, y)   == IF y = 0 \/ Overflows(x, y) THEN Trap ELSE LL(Remainder(x, y))

Bit(x, i) == (Unsigned(x) \div 2^i) % 2
OfBits(f) == LL(SumFunction([i \in DOMAIN f |-> f[i] * 2^i]))
Bitwise2(x, y, Op(_, _)) == OfBits([i \in 0..(LongLongBits - 1) |-> Op(Bit(x, i), Bit(y, i))])
i_and(x, y) == Bitwise2(x, y, LAMBDA a, b : a * b)
i_or(x, y)  == Bitwise2(x, y, LAMBDA a, b : a + b - a * b)
i_xor(x, y) == Bitwise2(x, y, LAMBDA a, b : (a + b) % 2)
i_bnot(x)   == LL(-x - 1)

(* The processor takes the shift count modulo the width.                   *)
i_left(x, n)  == LL(x * 2^(n % LongLongBits))
i_right(x, n) == LL(x \div 2^(n % LongLongBits))

(* Floats are exact here: rounding is not modelled.                        *)
f_plus(x, y)  == Float(x[1] * y[2] + y[1] * x[2], x[2] * y[2])
f_minus(x, y) == Float(x[1] * y[2] - y[1] * x[2], x[2] * y[2])
f_mult(x, y)  == Float(x[1] * y[1], x[2] * y[2])
f_div(x, y)   == IF y[1] = 0 THEN Null ELSE Float(Sign(y[1]) * x[1] * y[2], x[2] * Abs(y[1]))
f_neg(x)      == Float(-x[1], x[2])
f_abs(x)      == Float(Abs(x[1]), x[2])
f_floor(x)    == Float(x[1] \div x[2], 1)
f_ceil(x)     == Float(-((-x[1]) \div x[2]), 1)
f_trunc(x)    == Float(Quotient(x[1], x[2]), 1)
i_tointeger_float(x) == LL(Quotient(x[1], x[2]))

b_tobyteblock(v) == IF v[1] = "byteblock" THEN v ELSE Null
b_size(b)        == Integer(Len(b))
s_tosymbol(s)    == Symbol(s)

=============================================================================
