------------------------------- MODULE YCPLaws -------------------------------
(***************************************************************************)
(* The laws of YCP's values, builtins, types and compiled expressions,     *)
(* checked over bounded inputs.  An initial state chooses a law and an     *)
(* input for it, and the one step there is evaluates the input: a law      *)
(* says which results that step may have.                                  *)
(***************************************************************************)
EXTENDS YCPCompiler

VARIABLES part, x   \* the law, and its input

-----------------------------------------------------------------------------
(* Inputs.  ch is a character outside ASCII; the others are ASCII.         *)

a == 97
b == 98
ch == <<LeadByte, 164>>
Texts(n) == {FlattenSeq(s) : s \in BoundedSeq({<<a>>, <<b>>, <<Dot>>, ch}, n)}

SomeMaps == {EmptyMap, (Integer(1) :> Nil), (Integer(1) :> Integer(0)), (Integer(2) :> Nil),
             (String(<<a>>) :> Nil) @@ (Symbol(<<a>>) :> Nil), (String(<<a>>) :> Nil) @@ (Integer(1) :> Nil)}
SomeLists == {<<>>, <<Nil>>, <<Integer(1)>>, <<Integer(1), Nil>>, <<List(<<Integer(1)>>)>>}

Samples ==
  {Nil, Boolean(TRUE), Boolean(FALSE), Integer(-1), Integer(2), Float(1, 2), Float(2, 3),
   String(<<>>), String(<<a>>), String(<<a, b>>), String(<<b>>), Byteblock(<<b>>), Byteblock(<<a, a>>),
   Path(<<>>), Path(<<<<<<a>>, TRUE>>>>), Path(<<<<<<a>>, TRUE>>, <<<<b>>, TRUE>>>>), Symbol(<<a>>), Symbol(<<b>>)}
  \cup {List(l) : l \in SomeLists} \cup {Term(<<a>>, l) : l \in SomeLists} \cup {Term(<<b>>, <<>>)}
  \cup {Map(m) : m \in SomeMaps}

Elements == {Nil, Integer(1), Integer(2), String(<<a>>)}
Sorted(n) == {sortlist(l) : l \in BoundedSeq(Elements, n)}

(* What an EXPR may give for each element.                                 *)
Exprs == [Elements -> {Boolean(TRUE), Boolean(FALSE), Nil, Null, Break}]

(* Maps over three keys of different kinds, and an EXPR for each entry.    *)
MapKeys == {Integer(1), Integer(2), String(<<a>>)}
ThreeMaps == UNION {[ks -> {Nil, Integer(0)}] : ks \in SUBSET MapKeys}
EntryExprs == [MapKeys -> {Boolean(TRUE), Boolean(FALSE), Nil, Null, Break}]

Fractions == (-4..4) \X (1..3)

LLs == -(2^(LongLongBits - 1))..(2^(LongLongBits - 1) - 1)

(* Values that a program can build from literals and with the builtins     *)
(* tosymbol, topath and path + string.                                     *)
StringBytes == {a, 48, 10, 1, Quote, Backslash, 164}
Built ==
  {Nil, Boolean(TRUE), Byteblock(<<>>), Byteblock(<<0, 255>>), Byteblock([i \in 1..33 |-> i])}
  \cup {Integer(i) : i \in LLs} \cup {String(s) : s \in BoundedSeq(StringBytes, 3)}
  \cup {Symbol(s) : s \in {<<a>>, <<Underscore>>, <<Underscore, a>>, <<48>>, <<a, Space>>}}
  \cup {p_topath(s) : s \in BoundedSeq({a, 48, Dot, Dash, Quote, Backslash}, 3)}
  \cup {Path(appendComponent(YCPPathRep(<<Dot, a>>), s)) : s \in BoundedSeq({a, 48, Dash, 10, Quote, 164}, 2)}
Composed ==
  {List(<<v, w>>) : v \in Samples, w \in Samples} \cup {Term(<<a>>, <<v, w>>) : v \in Samples, w \in Samples}
  \cup {Map((Integer(-1) :> v) @@ (Symbol(<<a>>) :> w)) : v \in Samples, w \in Samples}
NoFloat(v) == v[1] # "float" /\ (v[1] \in {"list", "term"} =>
                LET l == IF v[1] = "list" THEN v[2] ELSE v[2][2] IN \A i \in DOMAIN l : l[i][1] # "float")
              /\ (v[1] = "map" => \A k \in DOMAIN v[2] : v[2][k][1] # "float")

Matches == [compiles : {TRUE}, matches : {TRUE},
            places : UNION {{<<m, s>> : s \in {p \in (0..3) \X (0..3) : p[1] <= p[2]} \cup {<<-1, -1>>}} :
                            m \in {p \in (0..3) \X (0..3) : p[1] <= p[2]}}]
           \cup [compiles : {TRUE}, matches : {FALSE}, places : {<<<<-1, -1>>, <<-1, -1>>>>}]
           \cup [compiles : {FALSE}, matches : {FALSE}, places : {<<<<-1, -1>>>>}]

(* Types: those a variable may be declared with, and those of [] and $[].  *)
Kinds == {AnyType, Void, Base("integer"), Base("string")}
Flat == Kinds \cup {ListType(t) : t \in Kinds} \cup {MapType(k, v) : k \in {AnyType, Base("integer"), Base("string")}, v \in Kinds}
Declarable == Flat \cup {ListType(ListType(t)) : t \in Kinds}
                   \cup {ListType(MapType(k, v)) : k \in {Base("integer"), Base("string")}, v \in Kinds}
TypedValues == {Nil, Integer(1), String(<<a>>), List(<<>>), List(<<Integer(1)>>), List(<<String(<<a>>), Nil>>),
                Map(EmptyMap), Map(Integer(1) :> Integer(1)), Map(String(<<a>>) :> Nil),
                List(<<List(<<Integer(1)>>)>>), List(<<Map(Integer(1) :> Nil)>>)}
Sides == Flat \cup {ListType(Unspec), MapType(Unspec, Unspec)}

(* Signatures of builtins, and the types a call may pass.                  *)
Var(n) == <<"variable", "<", n, ">">>
Flexible ==
  {<<"boolean", "(", "const", "list", "<", "flex", ">", ",", "const", "flex", ")">>,
   <<"list", "<", "flex1", ">", "(">> \o Var("flex2") \o <<",", "const", "list", "<", "flex2", ">", ",",
     "const", "block", "<", "flex1", ">", ")">>,
   <<"map", "<", "flex1", ",", "flex2", ">", "(", "const", "map", "<", "flex1", ",", "flex2", ">", ",",
     "const", "flex1", ",", "const", "flex2", ")">>,
   <<"list", "<", "flex", ">", "(", "const", "list", "<", "list", "<", "flex", ">", ">", ")">>,
   <<"flex", "(", "term", ",", "integer", ",", "const", "flex", ")">>,
   <<"map", "<", "flex1", ",", "flex2", ">", "(">> \o Var("flex3") \o <<",", "const", "list", "<", "flex3", ">", ",",
     "const", "block", "<", "map", "<", "flex1", ",", "flex2", ">", ">", ")">>}
Passed == {Base("integer"), Base("string"), Base("term"), ListType(Unspec), ListType(Base("string")),
           ListType(ListType(Base("integer"))), MapType(Base("string"), Base("integer")), MapType(Unspec, Unspec),
           VariableType(Base("string")), BlockType(Base("integer")), BlockType(MapType(Base("string"), AnyType))}
Overloads ==
  <<FunctionType(Base("integer"), <<AsConst(Base("integer")), AsConst(Base("integer"))>>),
    FunctionType(Base("string"), <<Base("string"), Base("integer")>>),
    FunctionType(Base("string"), <<Base("string"), Base("string")>>),
    FunctionType(Base("string"), <<Base("string"), Base("wildcard")>>),
    FunctionType(ListType(FlexType), <<ListType(FlexType), FlexType>>),
    FunctionType(Void, <<>>)>>
Calls(n) == {FunctionType(Unspec, ps) : ps \in BoundedSeq({Base("integer"), Base("string"), ListType(Unspec), Void}, n)}

(* Programs: variables with the values that they may hold, the expressions *)
(* over them, and the assignments.                                         *)
Entry(n, t, v) == [name |-> n, type |-> t, function |-> FALSE, value |-> v]
IntegerList == ListType(Base("integer"))
StringMap == MapType(Base("string"), Base("integer"))
Variables ==
  {Entry("i", Base("integer"), v) : v \in {Null, Integer(1)}} \cup {Entry("b", Base("boolean"), Boolean(FALSE))}
  \cup {Entry("s", Base("string"), String(<<a>>))}
  \cup {Entry("l", IntegerList, v) : v \in {Null, List(<<Integer(1), Nil>>)}}
  \cup {Entry("m", StringMap, Map(String(<<a>>) :> Integer(0))), Entry("t", Base("term"), Term(<<a>>, <<Integer(2)>>))}
  \cup {Entry("v", AnyType, v) : v \in {Integer(1), String(<<a>>), List(<<String(<<a>>)>>)}}
  \cup {Entry("n", ListType(StringMap), List(<<Map(String(<<a>>) :> Integer(0))>>))}
Literals == {Nil, Boolean(TRUE), Integer(0), Integer(1), String(<<a>>)}
Atoms == {<<"variable", e>> : e \in Variables} \cup {<<"constant", v>> : v \in Literals} \cup {<<"list", <<>>>>, <<"map", <<>>, <<>>>>}
Few == {<<"variable", e>> : e \in {n \in Variables : n.name \in {"i", "l"} /\ n.value # Null}} \cup {<<"constant", Integer(0)>>, <<"constant", Nil>>}
Targets == {Base("integer"), Base("string"), IntegerList, ListType(Base("string")), StringMap, AnyType}
Over(es, fs) ==
       {<<"binary", op, e, f>> : op \in {"+", "/", "||", "&&"}, e \in es, f \in fs}
  \cup {<<"compare", op, e, f>> : op \in {"==", "<"}, e \in es, f \in fs}
  \cup {<<"unary", op, e>> : op \in {"!", "-"}, e \in es}
  \cup {<<"triple", c, e, f>> : c \in {<<"constant", Boolean(TRUE)>>, <<"compare", "==", <<"constant", Nil>>, <<"constant", Nil>>>>},
                                e \in es, f \in fs}
  \cup {<<"list", <<e, f>>>> : e \in es, f \in fs} \cup {<<"map", <<f>>, <<e>>>> : e \in es, f \in fs}
  \cup {<<"bracket", e, <<f>>, d>> : e \in es, f \in fs, d \in {<<"constant", Nil>>, <<"constant", Integer(0)>>}}
  \cup {<<"bracket", e, <<<<"constant", Integer(0)>>, f>>, <<"constant", Nil>>>> : e \in es, f \in fs}
  \cup {<<"lookup", e, f, <<"constant", Integer(1)>>>> : e \in es, f \in fs}
  \cup {<<"select", e, f, <<"constant", String(<<a>>)>>>> : e \in es, f \in fs}
  \cup {<<"cast", t, e>> : t \in Targets, e \in es} \cup {<<"is", e, t>> : e \in es, t \in Targets}
  \cup {<<"quoted", e>> : e \in es} \cup {<<"term", <<a>>, <<e>>>> : e \in es}
  \cup {<<"call", "size", <<e>>>> : e \in es} \cup {<<"call", "sformat", <<e>>>> : e \in es \cap Atoms}
  \cup {<<"call", fn, <<e, f>>>> : fn \in {"sublist", "haskey"}, e \in es, f \in fs}
  \cup {<<"call", "sformat", <<<<"constant", String(s)>>, e>>>> : s \in {<<a>>, <<Percent, 49>>}, e \in es \cap Atoms}
Once == Over(Atoms, Atoms)
Expressions == Atoms \cup Once \cup Over(Over(Few, Few), {<<"constant", Integer(0)>>})
Containers == {e \in Variables : e.type.kind \in {"list", "map", "term"}}
IndexLists == {<<e>> : e \in Atoms \cup {<<"constant", Integer(3)>>}} \cup {<<<<"constant", Integer(0)>>, f>> : f \in Atoms}

Inputs(p) ==
  CASE p = "order"    -> Samples \X Samples \X Samples
    [] p = "sets"     -> BoundedSeq(Elements, 4) \X Elements
    [] p = "multiset" -> Sorted(4) \X Sorted(4)
    [] p = "loops"    -> BoundedSeq(Elements, 3) \X Exprs
    [] p = "slices"   -> BoundedSeq({Nil, Integer(1)}, 4) \X LLs
    [] p = "search"   -> Texts(3) \X Texts(2)
    [] p = "split"    -> Texts(4) \X {<<a>>, <<Dot>>, ch, <<a, Dot>>}
    [] p = "integers" -> LLs \X LLs
    [] p = "text"     -> Built \cup {v \in Composed : NoFloat(v)}
    [] p = "format"   -> BoundedSeq({a, Percent, 49, 50}, 4) \X BoundedSeq({String(<<a>>), Integer(7)}, 2)
    [] p = "match"    -> Declarable \X Declarable \X TypedValues
    [] p = "common"   -> Sides \X Sides
    [] p = "flex"     -> Flexible \X BoundedSeq(Passed, 3)
    [] p = "overload" -> Calls(3)
    [] p = "program"  -> Expressions
    [] p = "assign"   -> Containers \X IndexLists \X (Atoms \cup Over(Few, Few))
    [] p = "maps"     -> ThreeMaps \X EntryExprs
    [] p = "lists"    -> BoundedSeq(Elements, 3) \X (-1..3) \X (-1..3)
    [] p = "chars"    -> Texts(3) \X Texts(2)
    [] p = "paths"    -> BoundedSeq({<<<<a>>, TRUE>>, <<<<b>>, FALSE>>}, 2) \X BoundedSeq({<<<<a>>, FALSE>>, <<<<Dot>>, TRUE>>}, 2)
    [] p = "floats"   -> Fractions \X Fractions
    [] p = "kinds"    -> Samples
    [] p = "variable" -> Variables \X (Atoms \cup Over(Few, Few))
    [] p = "regexp"   -> BoundedSeq({a, b}, 3) \X Matches

Parts == {"order", "sets", "multiset", "loops", "slices", "search", "split", "integers", "text", "format", "regexp",
          "match", "common", "flex", "overload", "program", "assign",
          "maps", "lists", "chars", "paths", "floats", "kinds", "variable"}

LawInit == part \in Parts /\ x \in Inputs(part)
Evaluate == part \in Parts /\ part' = "evaluated" /\ x' = 0

-----------------------------------------------------------------------------
(* Laws.                                                                   *)

(* compare is a total order on data: exactly one of less, equal, greater,  *)
(* transitive, and equal only for the same contents.  sort, toset, the     *)
(* keys of a map and setcontains all rely on it.                           *)
OrderIsTotal ==
  part = "order" =>
    LET u == x[1]  v == x[2]  w == x[3]
    IN  /\ compare(u, v) = -compare(v, u)
        /\ equal(u, v) <=> u = v
        /\ ycp_less(u, v) /\ ycp_less(v, w) => ycp_less(u, w)

Ascending(l) == \A i \in 1..(Len(l) - 1) : ~ycp_less(l[i + 1], l[i])
Count(l, v) == Cardinality({i \in DOMAIN l : l[i] = v})

(* toset gives the elements of a list, each once and in order; sort gives  *)
(* all of them in order; and the binary search of setcontains then finds   *)
(* what the linear search of contains finds.                               *)
SetsAndSorting ==
  part = "sets" =>
    LET l == x[1]  v == x[2]  s == l_toset(l)[2]  r == l_sortlist(l)[2]
    IN  /\ Range(s) = Range(l) /\ \A i \in 1..(Len(s) - 1) : ycp_less(s[i], s[i + 1])
        /\ Ascending(r) /\ \A e \in Elements : Count(r, e) = Count(l, e)
        /\ l_setcontains(s, v) = l_contains(l, v) /\ l_setcontains(r, v) = l_contains(l, v)
        /\ Range(l_unionlist(l, <<v>>)[2]) = Range(l_mergelist(l, <<v>>)[2])

(* multiset:: on sorted lists: how often an element is in a result follows *)
(* from how often it is in the two lists, and the result is sorted.        *)
MultisetCounts ==
  part = "multiset" =>
    LET l == x[1]  r == x[2]
        Counts(result, F(_, _)) ==
          Ascending(result[2]) /\ \A e \in Elements : Count(result[2], e) = F(Count(l, e), Count(r, e))
    IN  /\ Counts(ms_union(l, r), LAMBDA m, n : Max({m, n}))
        /\ Counts(ms_intersection(l, r), LAMBDA m, n : Min({m, n}))
        /\ Counts(ms_difference(l, r), LAMBDA m, n : Max({m - n, 0}))
        /\ Counts(ms_symmetric_difference(l, r), LAMBDA m, n : Abs(m - n))
        /\ Counts(ms_merge(l, r), LAMBDA m, n : m + n)
        /\ ms_includes(l, r) = Boolean(\A e \in Elements : Count(r, e) <= Count(l, e))

(* The loop builtins agree on which rounds count: find gives the first     *)
(* element filter keeps, filter keeps those for which maplist gives true,  *)
(* and filter fails exactly when maplist does; where no round breaks or    *)
(* fails, foreach has the value of maplist's last round.                   *)
LoopsAgree ==
  part = "loops" =>
    LET l == x[1]  e == x[2]  f == l_filter(l, e)  m == l_maplist(l, e)
    IN  /\ f = Null <=> m = Null
        /\ m # Null => /\ f[2] = SelectSeq(SubSeq(l, 1, Len(m[2])), LAMBDA v : e[v] = Boolean(TRUE))
                       /\ f[2] # <<>> => l_find(l, e) = f[2][1]
                       /\ l # <<>> /\ Len(m[2]) = Len(l) => l_foreach(l, e) = Last(m[2])
        /\ l_reduce2(Boolean(FALSE), l, [p \in (Elements \cup {Boolean(TRUE), Boolean(FALSE)}) \X Elements |-> e[p[2]]])
             = LET t == SelectSeq(Walked(l, e, {"break"}), LAMBDA v : e[v][1] = "boolean")
               IN  IF t = <<>> THEN Boolean(FALSE) ELSE e[Last(t)]

(* The loops over a map are the loops over the list of its entries: filter *)
(* keeps the same ones and fails for the same ones, and foreach, which     *)
(* here fails like maplist, has the value of the last round.  mapmap and   *)
(* listmap build the map back from its entries.                            *)
MapLoopsAgree ==
  part = "maps" =>
    LET m == x[1]
        e == [p \in Range(Entries(m)) |-> x[2][p[1]]]
        f == m_filter(m, e)  g == m_maplist(m, e)
        Single(k) == Map(k :> m[k])
    IN  /\ f = Null <=> l_filter(Entries(m), e) = Null
        /\ f # Null => Entries(f[2]) = l_filter(Entries(m), e)[2]
        /\ m_foreach(m, e) = Null <=> g = Null
        /\ m # EmptyMap /\ g # Null /\ Len(g[2]) = m_size(Map(m))[2] => m_foreach(m, e) = Last(g[2])
        /\ m_mapmap(m, [p \in Range(Entries(m)) |-> Single(p[1])]) = Map(m)
        /\ l_listmap(Keys(m), [k \in DOMAIN m |-> Single(k)]) = Map(m)
        /\ \A k \in MapKeys :
             LET rest == m_remove(m, k)[2]
             IN  /\ ~Holds(m_haskey(rest, k)) /\ (rest = m <=> ~Holds(m_haskey(m, k)))
                 /\ k \in DOMAIN m => m_addmap(rest, k, m[k]) = Map(m) /\ m_unionmap(rest, Single(k)[2]) = Map(m)
                 /\ Holds(m_isempty(rest)) <=> m_size(Map(rest)) = Integer(0)

Greater(p) == IF ycp_less(p[1], p[2]) THEN p[2] ELSE p[1]

(* Two swaps, and an element removed from the middle, leave the others     *)
(* where slices and select find them; reduce with the greater of two gives *)
(* the last of the sorted list; and sort with the order of values sorts as *)
(* sort without one.  The arguments of a term are found like the elements  *)
(* of a list, but removed by a number that is one higher.                  *)
ListsAgree ==
  part = "lists" =>
    LET l == x[1]  i == x[2]  j == x[3]  t == <<<<a>>, l>>
        Pairwise(Op(_)) == [p \in Elements \X Elements |-> Op(p)]
        swapped == l_swaplist(l, i, j)[2]
        rest == l_remove(l, i)[2]
    IN  /\ l_swaplist(swapped, i, j) = List(l)
        /\ {i, j} \subseteq 0..(Len(l) - 1) => l_select(List(swapped), Integer(i), Null) = l[j + 1]
        /\ i \in 0..(Len(l) - 1) =>
             /\ l_prepend(rest, l[i + 1])[2] \in {q \in BoundedSeq(Elements, 3) : \A e \in Elements : Count(q, e) = Count(l, e)}
             /\ rest = l_flatten(<<l_sublist2(l, 0, i), List(Tail(l_sublist1(l, i)[2]))>>)[2]
        /\ l # <<>> => l_reduce1(l, Pairwise(Greater)) = Last(l_sortlist(l)[2])
        /\ l_sort(l, Pairwise(LAMBDA p : Boolean(ycp_less(p[1], p[2])))) = l_sortlist(l)
        /\ Holds(l_isempty(l)) <=> l_size(l_tolist(List(l))) = Integer(0)
        /\ t_argsof(t_remove(t, i + 1)[2]) = l_remove(l, i)
        /\ t_select(<<"term", t>>, Integer(i), Nil) = l_select(List(l), Integer(i), Nil)
        /\ t_size(t_add(t, Nil)[2]) = l_size(l_add(List(l), Nil))
        /\ t_toterm2(t_symbolof(t)[2], t_argsof(t)[2]) = t_toterm1(<<"term", t>>)

(* The characters of a string are those filterchars keeps and those        *)
(* removechars keeps; the four find builtins stop at the first or the last *)
(* of one or the other, in characters, also when only one of the strings   *)
(* is ASCII.  (An empty string has findfirstnotof 0.)                      *)
CharactersAgree ==
  part = "chars" =>
    LET s == x[1]  t == x[2]
        in == s_filterchars(s, t)[2]  out == s_removechars(s, t)[2]
        Ahead(p) == s_substring2(s, 0, p[2])[2]
        Behind(p) == s_substring1(s, p[2] + 1)[2]
        firstof == s_findfirstof(s, t)        lastof == s_findlastof(s, t)
        firstnot == s_findfirstnotof(s, t)    lastnot == s_findlastnotof(s, t)
    IN  /\ i_plus(s_size(in)[2], s_size(out)[2]) = s_size(s)
        /\ Holds(s_isempty(s_filterchars(out, t)[2])) /\ Holds(s_isempty(s_removechars(in, t)[2]))
        /\ isVoid(firstof) <=> in = <<>>
        /\ isVoid(lastof) <=> in = <<>>
        /\ s # <<>> => (isVoid(firstnot) <=> out = <<>>) /\ (isVoid(lastnot) <=> out = <<>>)
        /\ in # <<>> => s_filterchars(Ahead(firstof), t) = String(<<>>) /\ s_filterchars(Behind(lastof), t) = String(<<>>)
        /\ out # <<>> => s_removechars(Ahead(firstnot), t) = String(<<>>) /\ s_removechars(Behind(lastnot), t) = String(<<>>)
        /\ s_tolower(s_toupper(s)[2]) = String(s) /\ s_size(s_toupper(s)[2]) = s_size(s)
        /\ s_toascii(s) = String(s) <=> isAscii(s)

(* Paths are compared by the text of their components, not by how these    *)
(* were quoted: both parts of a path that was put together, or grown by a  *)
(* component, are still found in it.                                       *)
PathsJoin ==
  part = "paths" =>
    LET p == x[1]  q == x[2]  r == p_plus(p, q)[2]
    IN  /\ prefix(r, Len(p)) = p /\ postfix(r, Len(p)) = q
        /\ isPrefixOf(p, r) /\ (isPrefixOf(r, p) <=> isRoot(q))
        /\ p_size(r) = i_plus(p_size(p)[2], p_size(q)[2])
        /\ q # <<>> => equal(p_add(p, q[1][1]), p_plus(p, prefix(q, 1)))
        /\ s_plus3(<<a>>, r) = s_plus1(<<a>>, s_tostring(Path(r))[2])
        /\ s_plus4(<<a>>, <<b>>) = s_plus1(<<a>>, s_tosymbol(<<b>>)[2])

Equals(v, w) == compareFloat(v[2], w[2]) = 0
AtMost(v, w) == compareFloat(v[2], w[2]) <= 0

(* Exact arithmetic: subtraction and division undo addition and            *)
(* multiplication, a division by zero fails, and floor, trunc and ceil     *)
(* round down, to zero and up, trunc to the number tointeger gives.        *)
FloatLaws ==
  part = "floats" =>
    LET v == <<"float", x[1]>>  w == <<"float", x[2]>>  zero == Float(0, 1)
        floor == f_floor(v[2])  ceil == f_ceil(v[2])  trunc == f_trunc(v[2])
    IN  /\ Equals(f_minus(f_plus(v[2], w[2])[2], w[2]), v)
        /\ IF Equals(w, zero) THEN f_div(v[2], w[2]) = Null ELSE Equals(f_div(f_mult(v[2], w[2])[2], w[2]), v)
        /\ AtMost(floor, v) /\ AtMost(v, ceil) /\ AtMost(ceil, f_plus(floor[2], <<1, 1>>))
        /\ Equals(floor, ceil) <=> Equals(floor, v)
        /\ trunc = IF AtMost(zero, v) THEN floor ELSE ceil
        /\ i_tointeger_float(v[2]) = Integer(trunc[2][1])
        /\ Equals(f_abs(v[2]), IF AtMost(zero, v) THEN v ELSE f_neg(v[2]))

(* A list cut in two at any place gives the two halves; a place that is    *)
(* not in the list gives nil, as far as the place fits into an int.        *)
SlicesJoin ==
  part = "slices" =>
    LET l == x[1]  i == x[2]
    IN  IF i \in 0..(Len(l) - 1)
          THEN l_mergelist(l_sublist2(l, 0, i)[2], l_sublist1(l, i)[2]) = List(l)
          ELSE Wrap(i, IntBits) = i => l_sublist1(l, i) = Null /\ l_sublist2(l, i, 1) = Null

(* What search finds is there, and nothing before it: cutting the found    *)
(* number of characters out of the string gives the string searched for,   *)
(* whichever of the two strings are ASCII.                                 *)
SearchFinds ==
  part = "search" =>
    LET s == x[1]  t == x[2]  p == s_find(s, t)[2]  n == s_size(t)[2]
        Cut(i) == s_substring2(s, i, n)
    IN  /\ p >= 0 => Cut(p) = String(t)
        /\ \A i \in 0..(s_size(s)[2] - n) : Cut(i) = String(t) => 0 <= p /\ p <= i
        /\ p >= 0 <=> Holds(s_issubstring(s, t))
        /\ n <= s_size(s)[2] => s_plus1(Cut(0)[2], s_substring1(s, n)[2]) = String(s)

(* No piece of a split string holds a delimiter, and merging the pieces    *)
(* with a delimiter of one byte gives the string back.                     *)
SplitThenMerge ==
  part = "split" =>
    LET s == x[1]  d == x[2]  l == l_splitstring(s, d)[2]
    IN  /\ Len(d) = 1 => s_mergestring(l, d) = String(s)
        /\ \A i \in DOMAIN l : Range(l[i][2]) \cap Range(d) = {}
        /\ s # <<>> => Len(l) = 1 + Cardinality({i \in DOMAIN s : s[i] \in Range(d)})

(* The arithmetic of a machine word: quotient and remainder give the       *)
(* dividend back and the remainder is less than the divisor, the bit       *)
(* operators add up, and a shift by one doubles.                           *)
IntegerLaws ==
  part = "integers" =>
    LET m == x[1]  n == x[2]
    IN  /\ n # 0 /\ ~Overflows(m, n) =>
             /\ i_plus(i_mult(n, i_div(m, n)[2])[2], i_mod(m, n)[2]) = Integer(m)
             /\ Abs(i_mod(m, n)[2]) < Abs(n)
        /\ i_minus(i_plus(m, n)[2], n) = Integer(m)
        /\ n \in {1, 5, 85, -2} => /\ i_plus(i_and(m, n)[2], i_or(m, n)[2]) = i_plus(m, n)
                                   /\ i_xor(m, n) = i_minus(i_or(m, n)[2], i_and(m, n)[2])
        /\ i_plus(i_left(i_right(m, 1)[2], 1)[2], i_and(m, 1)[2]) = Integer(m)
        /\ i_left(m, 1) = i_plus(m, m) /\ i_neg(m) = i_plus(i_bnot(m)[2], 1)

Symbolic(s) == SymbolLen(s) = Len(s) /\ s # <<>>
ScannablePath(p) ==
  \A i \in DOMAIN p : p[i][2] \/ (p[i][1] # <<>> /\ p[i][1][1] \in Alpha \cup {Underscore})
Scannable(v) ==
  CASE v[1] = "integer" -> v[2] # -(2^(LongLongBits - 1))
    [] v[1] = "symbol"  -> Symbolic(v[2])
    [] v[1] = "path"    -> ScannablePath(v[2])
    [] OTHER            -> TRUE

(* The text of a value is read back as the same value, which is how        *)
(* components of different processes exchange values; and the text of a    *)
(* path gives the path constructor the same path, which is how bytecode    *)
(* holds paths.                                                            *)
TextRoundTrip ==
  part = "text" =>
    /\ Scannable(x) => parse(toString(x)) = x
    /\ x[1] = "path" => YCPPathRep(PathText(x[2])) = x[2]

Doubled(s) == FlattenSeq([i \in DOMAIN s |-> IF s[i] = Percent THEN <<Percent, Percent>> ELSE <<s[i]>>])

(* sformat shows a text with doubled percent signs as it was, whatever the *)
(* arguments, and puts the text of an argument where its number stands.    *)
FormatShows ==
  part = "format" =>
    LET f == x[1]  argv == x[2]
    IN  /\ s_sformat(String(Doubled(f)), List(argv)) = String(f)
        /\ argv # <<>> => s_sformat(String(Doubled(f) \o <<Percent, 49>>), List(argv))
                            = String(f \o s_tostring(argv[1])[2])

(* What a regular expression matched is what stands at the position that   *)
(* regexppos reports, and \1 in regexpsub is what regexptokenize lists.    *)
RegexpResultsAgree ==
  part = "regexp" =>
    LET s == x[1]  m == x[2]
        fits == \A i \in DOMAIN m.places : m.places[i][2] <= Len(s)
        pos == s_regexppos(s, m)
    IN  fits =>
        /\ m.compiles => s_regexpmatch(s, m) = Boolean(pos # List(<<>>))
        /\ ~m.compiles => pos = Null /\ s_regexpsub(s, m, <<>>) = Null /\ s_regexptokenize(s, m) = Null
        /\ m.matches =>
             /\ SubSeq(s, pos[2][1][2] + 1, pos[2][1][2] + pos[2][2][2])
                  = SubSeq(s, m.places[1][1] + 1, m.places[1][2])
             /\ s_regexpsub(s, m, <<Backslash, 49>>) = s_regexptokenize(s, m)[2][1]

(* What the compiler lets pass is true at run time: a value that is of a   *)
(* type is also of every type that this type matches.  (Integers and       *)
(* floats, which convert into each other, are left out.)                   *)
MatchKeepsValues ==
  part = "match" => (match(x[1], x[2]) = 0 /\ matchvalue(x[1], x[3]) => matchvalue(x[2], x[3]))

(* A value is of the type of its kind, and that type names the kind again; *)
(* the conversions tolist, tomap, toterm and tobyteblock let through what  *)
(* a cast to their type lets through, toterm also names.                   *)
KindsHaveTypes ==
  part = "kinds" =>
    LET t == vt2type(x[1])
        Lets(v, declared) == v # Null <=> matchvalue(declared, x)
    IN  /\ matchvalue(t, x) /\ valueType(t) = x[1]
        /\ ~isVoid(x) => /\ Lets(l_tolist(x), vt2type("list")) /\ Lets(m_tomap(x), vt2type("map"))
                         /\ Lets(b_tobyteblock(x), vt2type("byteblock"))
                         /\ Lets(t_toterm1(x), vt2type("term")) \/ x[1] \in {"string", "symbol"}

RECURSIVE Mentions(_, _)
Mentions(t, kinds) == t.kind \in kinds \/ \E i \in DOMAIN t.args : Mentions(t.args[i], kinds)

(* What a bracket reads with a default is of a type that passes for both   *)
(* the element type and the type of the default, or, where one of them     *)
(* says nothing (nil, any), for the other; and the order does not matter   *)
(* for whether there is one.                                               *)
DetailedTypeFits ==
  part = "common" =>
    LET t == x[1]  u == x[2]  d == detailedtype(t, u)
    IN  ~Mentions(d, {"error"}) => /\ match(d, t) >= 0 \/ match(d, u) >= 0
                                   /\ ~Mentions(t, {"void", "any", "unspec"}) /\ ~Mentions(u, {"void", "any", "unspec"})
                                        => match(d, t) >= 0 /\ match(d, u) >= 0

(* A template leaves no flex open once a call fits it, neither in the      *)
(* returned type nor in the parameters, unless the call passes [] or $[];  *)
(* and the parameter that fixes a flex matches what it became.             *)
TemplatesResolve ==
  part = "flex" =>
    LET d == fromSignature(x[1]).t
        call == FunctionType(Unspec, x[2])
        r == determineFlexType(call, d)
    IN  Len(x[2]) = Len(parameters(d)) /\ findDeclaration(<<d>>, call, FALSE) = 1 =>
          /\ (\A i \in DOMAIN x[2] : ~Mentions(x[2][i], {"unspec"})) => ~Mentions(r, {"flex", "nflex"})
          /\ \A i \in DOMAIN x[2] : isFlex(parameters(d)[i]) /\ (\A j \in 1..(i - 1) : ~Mentions(parameters(d)[j], {"flex", "nflex"}))
               => match(x[2][i], parameters(r)[i]) = 0

(* While the parameters of a call are parsed one by one, the search with   *)
(* the parameters seen so far finds a declaration if the search with all   *)
(* of them does, and never one later in the chain.                         *)
PartialSearchAgrees ==
  part = "overload" =>
    LET full == findDeclaration(Overloads, x, FALSE)
    IN  full # 0 => \A n \in 1..(Len(x.args) - 1) :
          findDeclaration(Overloads, FunctionType(Unspec, SubSeq(parameters(x), 1, n)), TRUE) \in 1..full

(* Whether v is of type t, as far as matchvalue can tell: it knows no code *)
(* and no flex, which nil as a parameter leaves open.  The value of an     *)
(* entry of a map literal may be a null pointer.                           *)
RECURSIVE Fails(_)
Fails(v) ==
  \/ v \in {Null, Trap}
  \/ v[1] = "list" /\ \E i \in DOMAIN v[2] : Fails(v[2][i])
  \/ v[1] = "map" /\ \E k \in DOMAIN v[2] : Fails(v[2][k])
Typed(t, v) == Fails(v) \/ Mentions(t, {"block", "flex"}) \/ matchvalue(t, v)

(* What the compiler accepts has the type it was given: the value of an    *)
(* expression that compiles without an error is of the type the compiler   *)
(* determined for it, if the variables are of theirs, unless the           *)
(* evaluation fails.  (Left out: lists, maps and ?: for which commontype   *)
(* gives a type that does not hold all parts.)                             *)
CompiledTypesHold ==
  part = "program" =>
    LET r == compile(x) IN ~r.errors /\ ~r.narrow => Typed(r.t, evaluate(r.c, FALSE))

(* What the parser folds into a constant is what the code would have given *)
(* at run time: a case label, a list or a map of constants.                *)
Unfolded(e) ==
  CASE e[1] = "list" /\ e[2] # <<>> -> list_elements(CompileAll(e[2])).c
    [] e[1] = "map" /\ e[2] # <<>>  -> <<"YEMap", [i \in DOMAIN e[2] |-> <<compile(e[2][i]).c, compile(e[3][i]).c>>]>>
    [] OTHER                         -> compile(e).c
FoldingAgrees ==
  part = "program" =>
    LET r == compile(x)  c == Unfolded(x)
    IN  ~r.errors /\ ~r.narrow => evaluate(c, TRUE) \in {Null, evaluate(c, FALSE)} /\ evaluate(r.c, FALSE) = evaluate(c, FALSE)

(* An assignment that compiles gives the variable a value of its type,     *)
(* converted where the types only match.                                   *)
AssignedValueFits ==
  part = "variable" =>
    LET r == assignment(x[1], compile(x[2]))
    IN  ~r.errors /\ ~r.narrow => Typed(x[1].type, evaluate(r.c, FALSE))

(* An assignment to an element that compiles leaves the variable with a    *)
(* value of its type, and where it succeeds, the same brackets read what   *)
(* was assigned, and brackets that lead elsewhere what they read before.   *)
AssignedElementIsRead ==
  part = "assign" =>
    LET entry == x[1]
        ix == list_elements(CompileAll(x[2]))
        r == bracket_assignment(entry, ix, compile(x[3]))
        new == YSBracket_evaluate(entry, ix.c, r.c)
        Read(v, args) == evaluate(<<"YEBracket", <<"YEVariable", [entry EXCEPT !.value = v]>>, args, Constant(Null)>>, FALSE)
        where == evaluate(ix.c, FALSE)[2]
        done == commit(IF entry.value = Null THEN Nil ELSE entry.value, where, YSAssign_evaluate(r.c)) # Null
    IN  ~r.errors /\ ~r.narrow /\ ~ix.narrow =>
          /\ Typed(entry.type, new)
          /\ done => Read(new, ix.c) = YSAssign_evaluate(r.c)
          /\ \A other \in {Integer(0), Integer(1), String(<<a>>)} :
               other # where[1] => LET c == <<"YEList", <<Constant(other)>>>>
                                   IN  Read(new, c) \in {Read(entry.value, c), Nil}

-----------------------------------------------------------------------------
(* The builtins of lists, maps, strings and integers (YCPBuiltin*.cc) keep *)
(* the promises they make each other, and the text of a value is read back *)
(* as that value (TextRoundTrip).                                          *)
BuiltinsAgree == [][
  /\ TextRoundTrip
  /\ OrderIsTotal /\ SetsAndSorting /\ MultisetCounts /\ LoopsAgree /\ SlicesJoin
  /\ SearchFinds /\ SplitThenMerge /\ IntegerLaws /\ FormatShows /\ RegexpResultsAgree
  /\ MapLoopsAgree /\ ListsAgree /\ CharactersAgree /\ PathsJoin /\ FloatLaws]_<<part, x>>

(* The type checker is sound.  What Type.cc lets match has the type at run *)
(* time, the type of a bracket with a default fits both sides, templates   *)
(* become types, and the search for a declaration parameter by parameter   *)
(* agrees with the search with all parameters.  What parser.yy compiles keeps its type when       *)
(* YExpression.cc and YStatement.cc evaluate it, folded or not, and an     *)
(* assignment to an element changes that element only.                     *)
TypesAreSound == [][
  /\ MatchKeepsValues /\ DetailedTypeFits /\ TemplatesResolve /\ PartialSearchAgrees /\ KindsHaveTypes
  /\ CompiledTypesHold /\ FoldingAgrees /\ AssignedElementIsRead /\ AssignedValueFits]_<<part, x>>
=============================================================================
