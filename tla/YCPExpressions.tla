---------------------------- MODULE YCPExpressions ---------------------------
(***************************************************************************)
(* The code that YCP expressions are compiled to (YExpression.cc, YConst   *)
(* and YLocale of YCode.cc): what a piece of code evaluates to, and the    *)
(* type it claims to have.                                                 *)
(*                                                                         *)
(* A piece of code is a tuple that starts with the name of its class.  An  *)
(* entry of a symbol table is [name, type, function, value]: the value a   *)
(* variable holds when the code runs.  cse is the parser's question        *)
(* whether the code is a constant; Null means that it is not.              *)
(***************************************************************************)
EXTENDS YCPStrings, YCPTypes

Ref(e) == <<"reference", e>>

(* The builtins that stand for all the others: nil, noeval and flex are    *)
(* the DECL_ flags, fn the C++ function.                                   *)
Builtin(fn, args) ==
  CASE fn = "i_plus"      -> i_plus(args[1][2], args[2][2])
    [] fn = "i_div"       -> i_div(args[1][2], args[2][2])
    [] fn = "i_neg"       -> i_neg(args[1][2])
    [] fn = "f_plus"      -> f_plus(args[1][2], args[2][2])
    [] fn = "s_plus1"     -> s_plus1(args[1][2], args[2][2])
    [] fn = "s_plus2"     -> s_plus2(args[1][2], args[2][2])
    [] fn = "l_unionlist" -> l_unionlist(args[1][2], args[2][2])
    [] fn = "l_add"       -> l_add(args[1], args[2])
    [] fn = "m_unionmap"  -> m_unionmap(args[1][2], args[2][2])
    [] fn = "b_lnot"      -> b_lnot(args[1][2])
    [] fn = "l_size"      -> l_size(args[1])
    [] fn = "l_sublist1"  -> l_sublist1(args[1][2], args[2][2])
    [] fn = "m_haskey"    -> m_haskey(args[1][2], args[2])
    [] fn = "s_sformat"   -> s_sformat(args[1], args[2])

kind(c) == c[1]
isConstant(c) == kind(c) = "YConst"
Undefined(v) == v = Null \/ isVoid(v)

-----------------------------------------------------------------------------
(* evaluate(c, cse), class by class.                                       *)
RECURSIVE evaluate(_, _)

Evaluated(cs, cse) == [i \in DOMAIN cs |-> evaluate(cs[i], cse)]

YEVariable_evaluate(entry) ==
  IF entry.value # Null THEN entry.value ELSE IF entry.function THEN Ref(entry) ELSE Nil
YEReference_evaluate(entry) == Ref(entry)

YETerm_evaluate(name, args, cse) ==
  LET vs == Evaluated(args, cse) IN IF Null \in Range(vs) THEN Null ELSE Term(name, vs)

(* nil and a failed operand count as the same, and only == and != accept   *)
(* them.                                                                   *)
YECompare_evaluate(left, op, right) ==
  LET vl == evaluate(left, FALSE)  vr == evaluate(right, FALSE)
      order == compare(vl, vr)
  IN  CASE (Undefined(vl) \/ Undefined(vr)) /\ op \notin {"==", "!="} -> Null
        [] Undefined(vl) \/ Undefined(vr) -> Boolean((op = "==") = (Undefined(vl) = Undefined(vr)))
        [] op = "==" -> Boolean(order = 0)
        [] op = "!=" -> Boolean(order # 0)
        [] op = "<"  -> Boolean(order = -1)
        [] op = ">=" -> Boolean(order # -1)
        [] op = "<=" -> Boolean(order <= 0)
        [] op = ">"  -> Boolean(order = 1)

(* dngettext without a catalogue: the singular for one, else the plural.   *)
YELocale_evaluate(singular, plural, count) ==
  LET n == evaluate(count, FALSE)
  IN  IF n[1] # "integer" THEN Null ELSE String(IF n[2] = 1 THEN singular ELSE plural)

(* An element that fails is nil at run time.                               *)
YEList_evaluate(cs, cse) ==
  LET vs == Evaluated(cs, cse)
  IN  IF cse /\ Null \in Range(vs) THEN Null ELSE List([i \in DOMAIN vs |-> IF vs[i] = Null THEN Nil ELSE vs[i]])

(* A value that fails at run time stays in the map as a null pointer; a    *)
(* key that fails is dereferenced.                                         *)
YEMap_evaluate(pairs, cse) ==
  LET Attach(m, p) ==
        LET k == evaluate(p[1], cse)  v == evaluate(p[2], cse)
        IN  CASE m[1] # "map" -> m
              [] k = Null /\ (isConstant(p[1]) \/ cse) -> Null
              [] k = Null /\ ~cse -> Trap
              [] v = Null /\ cse -> Null
              [] OTHER -> Map(mapAdd(m[2], k, v))
  IN  FoldLeft(Attach, Map(EmptyMap), pairs)

RECURSIVE canPropagate(_, _)
canPropagate(v, to) ==
  CASE Undefined(v) \/ to.kind \in {"any", "unspec"} -> TRUE
    [] to.base /\ v[1] = valueType(to) -> TRUE
    [] to.kind = "list" /\ v[1] = "list" ->
         to.args[1].kind \in {"any", "unspec"} \/ \A i \in DOMAIN v[2] : canPropagate(v[2][i], to.args[1])
    [] to.kind = "map" /\ v[1] = "map" ->
         \/ \E k \in {"any", "unspec"} : to.args[1].kind = k /\ to.args[2].kind = k
         \/ \A k \in DOMAIN v[2] : canPropagate(k, to.args[1]) /\ canPropagate(v[2][k], to.args[2])
    [] to.kind = "function" /\ v[1] = "code" -> kind(v[2]) = "YFunction"
    [] OTHER -> FALSE

YEPropagate_evaluate(to, value) ==
  LET v == evaluate(value, FALSE)
  IN  CASE Undefined(v) -> v
        [] to.kind = "float" /\ v[1] = "integer" -> Float(v[2], 1)
        [] to.kind = "integer" /\ v[1] = "float" -> i_tointeger_float(v[2])
        [] v[1] = "reference" /\ match(to, v[2].type) = 0 -> v
        [] canPropagate(v, to) -> v
        [] OTHER -> Null

(* Only a failed operand is refused: b_lnot, i_neg and the others take nil *)
(* for a boolean or a number and read a value that is not there.           *)
YEUnary_evaluate(decl, arg) ==
  LET v == evaluate(arg, FALSE)
  IN  CASE v = Null /\ ~decl.nil -> Null
        [] isVoid(v) -> Trap
        [] OTHER -> Builtin(decl.fn, <<v>>)

(* DECL_NOEVAL: && and || evaluate the code themselves, the right side     *)
(* only when the left one does not decide.                                 *)
YEBinary_evaluate(decl, arg1, arg2) ==
  LET v1 == evaluate(arg1, FALSE)  v2 == evaluate(arg2, FALSE)
  IN  IF decl.noeval THEN (IF decl.fn = "b_or" THEN b_or(v1, v2) ELSE b_and(v1, v2)).value
      ELSE IF ~decl.nil /\ (Undefined(v1) \/ Undefined(v2)) THEN Null
      ELSE Builtin(decl.fn, <<v1, v2>>)

YETriple_evaluate(expr, true, false) ==
  LET v == evaluate(expr, FALSE)
  IN  CASE Undefined(v) -> evaluate(false, FALSE)
        [] v[1] = "boolean" -> evaluate(IF v[2] THEN true ELSE false, FALSE)
        [] OTHER -> Null

RECURSIVE type(_)
YEIs_evaluate(expr, t, cse) ==
  LET v == evaluate(expr, cse)
  IN  CASE v = Null -> Null
        [] v[1] = "code" -> Boolean(match(IF kind(v[2]) = "YFunction" THEN type(v[2]) ELSE BlockType(type(v[2])), t) >= 0)
        [] v[1] = "reference" -> Boolean(match(v[2].type, t) >= 0)
        [] OTHER -> Boolean(matchvalue(t, v))

YEReturn_evaluate(expr) == Code(expr)

(* The element that one index selects.                                     *)
Select1(v, i) ==
  CASE v[1] \in {"list", "term"} ->
         LET l == IF v[1] = "list" THEN v[2] ELSE v[2][2] IN IF i[1] = "integer" THEN at(l, i[2]) ELSE Null
    [] v[1] = "map" -> mapValue(v[2], i)
    [] OTHER -> Null
Selected(v, indices) == FoldLeft(LAMBDA r, i : IF r = Null THEN Null ELSE Select1(r, i), v, indices)
YEBracket_evaluate(var, arg, def, cse) ==
  LET v == evaluate(var, cse)  a == evaluate(arg, cse)
      result == IF a[1] = "list" THEN Selected(v, a[2]) ELSE Null
  IN  CASE cse /\ v = Null -> Null
        [] Undefined(v) -> evaluate(def, cse)
        [] cse /\ a = Null -> Null
        [] result = Null -> evaluate(def, cse)
        [] OTHER -> result

(* The arguments from the wildcard on become one list; the code of a block *)
(* is passed as it is.  A declaration has at most five parameters.         *)
maxargs == 10
YEBuiltin_evaluate(decl, args) ==
  LET vs == [i \in DOMAIN args |-> IF kind(args[i]) = "YBlock" \/ decl.noeval THEN Code(args[i]) ELSE evaluate(args[i], FALSE)]
      ps == parameters(decl.type)
      wild == SelectInSeq(ps, LAMBDA p : p.kind = "wildcard")
      passed == IF wild \in DOMAIN vs THEN Append(SubSeq(vs, 1, wild - 1), List(SubSeq(vs, wild, Len(vs)))) ELSE vs
      missing == [i \in 1..Len(ps) |-> IF i \in DOMAIN passed THEN passed[i] ELSE Null]
  IN  IF Len(args) > maxargs \/ (~decl.nil /\ \E i \in DOMAIN vs : Undefined(vs[i])) THEN Null
      ELSE Builtin(decl.fn, missing)

evaluate(c, cse) ==
  CASE kind(c) = "YConst"      -> c[2]
    [] kind(c) = "YETerm"      -> YETerm_evaluate(c[2], c[3], cse)
    [] kind(c) = "YEList"      -> YEList_evaluate(c[2], cse)
    [] kind(c) = "YEMap"       -> YEMap_evaluate(c[2], cse)
    [] kind(c) = "YEIs"        -> YEIs_evaluate(c[2], c[3], cse)
    [] kind(c) = "YEReturn"    -> YEReturn_evaluate(c[2])
    [] kind(c) = "YEBracket"   -> YEBracket_evaluate(c[2], c[3], c[4], cse)
    [] cse                     -> Null
    [] kind(c) = "YLocale"     -> String(c[2])
    [] kind(c) = "YEVariable"  -> YEVariable_evaluate(c[2])
    [] kind(c) = "YEReference" -> YEReference_evaluate(c[2])
    [] kind(c) = "YECompare"   -> YECompare_evaluate(c[2], c[3], c[4])
    [] kind(c) = "YELocale"    -> YELocale_evaluate(c[2], c[3], c[4])
    [] kind(c) = "YEPropagate" -> YEPropagate_evaluate(c[3], c[4])
    [] kind(c) = "YEUnary"     -> YEUnary_evaluate(c[2], c[3])
    [] kind(c) = "YEBinary"    -> YEBinary_evaluate(c[2], c[3], c[4])
    [] kind(c) = "YETriple"    -> YETriple_evaluate(c[2], c[3], c[4])
    [] kind(c) = "YEBuiltin"   -> YEBuiltin_evaluate(c[2], c[4])

-----------------------------------------------------------------------------
(* type(c).                                                                *)

YConst_type(v) ==
  CASE v[1] = "list" -> ListType(Unspec)
    [] v[1] = "map"  -> MapType(Unspec, Unspec)
    [] v[1] \in {"void", "boolean", "integer", "float", "string", "byteblock", "path", "symbol", "term"} -> AsConst(Base(v[1]))
    [] OTHER -> Unspec
YEReference_type(entry) == AsReference(clone(entry.type))
Common(cs) == FoldLeft(LAMBDA t, c : commontype(t, type(c)), type(Head(cs)), Tail(cs))
YEList_type(cs) == ListType(Common(cs))
YEMap_type(pairs) == MapType(Common([i \in DOMAIN pairs |-> pairs[i][1]]), Common([i \in DOMAIN pairs |-> pairs[i][2]]))

(* "flags && DECL_FLEX": every operator with a flag is taken for flexible. *)
YEBinary_type(decl, arg1, arg2) ==
  LET cft == determineFlexType(FunctionType(Unspec, <<type(arg1), type(arg2)>>), decl.type)
  IN  IF decl.nil \/ decl.noeval \/ decl.flex
        THEN (IF cft = NoType THEN Unspec ELSE cft.args[1])
        ELSE decl.type.args[1]
YEBuiltin_type(decl, t) == IF t.args[1].kind # "unspec" THEN t.args[1] ELSE decl.type.args[1]

type(c) ==
  CASE kind(c) = "YConst"      -> YConst_type(c[2])
    [] kind(c) = "YLocale"     -> Base("locale")
    [] kind(c) = "YEVariable"  -> c[2].type
    [] kind(c) = "YEReference" -> YEReference_type(c[2])
    [] kind(c) = "YETerm"      -> Base("term")
    [] kind(c) \in {"YECompare", "YEIs"} -> Base("boolean")
    [] kind(c) = "YELocale"    -> Base("locale")
    [] kind(c) = "YEList"      -> YEList_type(c[2])
    [] kind(c) = "YEMap"       -> YEMap_type(c[2])
    [] kind(c) = "YEPropagate" -> c[3]
    [] kind(c) = "YEUnary"     -> c[2].type.args[1]
    [] kind(c) = "YEBinary"    -> YEBinary_type(c[2], c[3], c[4])
    [] kind(c) = "YETriple"    -> commontype(type(c[3]), type(c[4]))
    [] kind(c) = "YEReturn"    -> type(c[2])
    [] kind(c) = "YEBracket"   -> c[5]
    [] kind(c) = "YEBuiltin"   -> YEBuiltin_type(c[2], c[3])

-----------------------------------------------------------------------------
(* YSBracket: assignment to an element.  The index of a list or term is    *)
(* cut to an int.  Failed: the variable keeps its value.                   *)
RECURSIVE commit(_, _, _)
commit(current, arg, value) ==
  IF arg = <<>> THEN value
  ELSE IF current = Null THEN Null
  ELSE
    LET i == Head(arg)
        n == IF i[1] = "integer" THEN Wrap(i[2], IntBits) ELSE 0
        Inner(old) == IF Len(arg) = 1 THEN value ELSE commit(old, Tail(arg), value)
        Or(v) == IF v = Null THEN Nil ELSE v
    IN  CASE current[1] = "map" ->
               LET v == Inner(mapValue(current[2], i))
               IN  IF v = Null /\ Len(arg) > 1 THEN Null ELSE m_addmap(current[2], i, Or(v))
          [] current[1] \in {"list", "term"} /\ i[1] = "integer" ->
               LET l == IF current[1] = "list" THEN current[2] ELSE current[2][2]
                   v == Inner(at(l, n))
               IN  CASE v = Null /\ Len(arg) > 1 -> Null
                     [] current[1] = "list" -> List(set(l, n, Or(v)))
                     [] OTHER -> Term(current[2][1], set(l, n, Or(v)))
          [] OTHER -> Null

YSAssign_evaluate(code) == LET v == evaluate(code, FALSE) IN IF v = Null THEN Nil ELSE v
YSBracket_evaluate(entry, arg, code) ==
  LET a == evaluate(arg, FALSE)
      old == IF entry.value = Null THEN Nil ELSE entry.value
      new == IF a[1] = "list" THEN commit(old, a[2], YSAssign_evaluate(code)) ELSE Null
  IN  IF new = Null THEN old ELSE new

=============================================================================
