----------------------------- MODULE YCPCompiler -----------------------------
(***************************************************************************)
(* How the parser turns expressions and assignments into code (parser.yy   *)
(* and the finalize functions of YExpression.cc): the type checks, the     *)
(* conversions it inserts, and the constants it folds.                     *)
(*                                                                         *)
(* The source of an expression is a tuple that starts with the name of its *)
(* form.  The result is [c, t, errors, narrow]: code, type (NoType where   *)
(* the parser sets t to 0), whether an error was reported, which makes the *)
(* whole file unusable, and whether a list, map or ?: got a type that one  *)
(* of its parts does not have (see commontype).                            *)
(***************************************************************************)
EXTENDS YCPExpressions

Ok(c, t) == [c |-> c, t |-> t, errors |-> FALSE, narrow |-> FALSE]
Failure == [c |-> <<"none">>, t |-> NoType, errors |-> TRUE, narrow |-> FALSE]

(* The result of a production whose parts are rs: 0 when one of them is 0. *)
Of(rs, r) ==
  IF \E i \in DOMAIN rs : rs[i].t = NoType THEN Failure
  ELSE [r EXCEPT !.errors = @ \/ \E i \in DOMAIN rs : rs[i].errors, !.narrow = @ \/ \E i \in DOMAIN rs : rs[i].narrow]
Constant(v) == <<"YConst", v>>
Propagate(r, to) == <<"YEPropagate", r.t, to, r.c>>
Narrow(t, u) == match(t, commontype(t, u)) # 0 \/ match(u, commontype(t, u)) # 0

-----------------------------------------------------------------------------
(* Operators.                                                              *)

Decl(fn, t, nil, noeval, flex) == [fn |-> fn, type |-> t, nil |-> nil, noeval |-> noeval, flex |-> flex]
Two(t, u, r) == FunctionType(Base(r), <<Base(t), Base(u)>>)
Lists == AsConst(ListType(FlexType))
AnyMap == MapType(AnyType, AnyType)

(* The declarations of an operator or builtin, in the order in which       *)
(* YBuiltin.cc registers them.                                             *)
Declarations ==
  ("+" :> <<Decl("i_plus", Two("integer", "integer", "integer"), FALSE, FALSE, FALSE),
            Decl("f_plus", Two("float", "float", "float"), FALSE, FALSE, FALSE),
            Decl("s_plus1", Two("string", "string", "string"), FALSE, FALSE, FALSE),
            Decl("s_plus2", Two("string", "integer", "string"), FALSE, FALSE, FALSE),
            Decl("l_unionlist", FunctionType(ListType(FlexType), <<Lists, Lists>>), FALSE, FALSE, TRUE),
            Decl("l_add", FunctionType(ListType(FlexType), <<Lists, AsConst(FlexType)>>), FALSE, FALSE, TRUE),
            Decl("l_add", FunctionType(ListType(AnyType), <<AsConst(ListType(AnyType)), AnyType>>), FALSE, FALSE, FALSE),
            Decl("m_unionmap", FunctionType(AnyMap, <<AsConst(AnyMap), AsConst(AnyMap)>>), FALSE, FALSE, FALSE)>>) @@
  ("/" :> <<Decl("i_div", Two("integer", "integer", "integer"), FALSE, FALSE, FALSE)>>) @@
  ("-" :> <<Decl("i_neg", FunctionType(Base("integer"), <<Base("integer")>>), FALSE, FALSE, FALSE)>>) @@
  ("!" :> <<Decl("b_lnot", FunctionType(Base("boolean"), <<Base("boolean")>>), FALSE, FALSE, FALSE)>>) @@
  ("||" :> <<Decl("b_or", Two("boolean", "boolean", "boolean"), FALSE, TRUE, FALSE)>>) @@
  ("&&" :> <<Decl("b_and", Two("boolean", "boolean", "boolean"), FALSE, TRUE, FALSE)>>) @@
  ("size" :> <<Decl("l_size", FunctionType(Base("integer"), <<AsConst(ListType(AnyType))>>), TRUE, FALSE, FALSE)>>) @@
  ("sublist" :> <<Decl("l_sublist1", FunctionType(ListType(FlexType), <<Lists, Base("integer")>>), FALSE, FALSE, TRUE)>>) @@
  ("haskey" :> <<Decl("m_haskey", FunctionType(Base("boolean"), <<AsConst(AnyMap), AsConst(AnyType)>>), FALSE, FALSE, FALSE)>>) @@
  ("sformat" :> <<Decl("s_sformat", FunctionType(Base("string"), <<Base("string"), Base("wildcard")>>), TRUE, FALSE, FALSE)>>)

NoDecl == Decl("", NoType, FALSE, FALSE, FALSE)
Search(op, ts, partial) ==
  LET ds == Declarations[op]
      i == findDeclaration([j \in DOMAIN ds |-> ds[j].type], FunctionType(Unspec, ts), partial)
  IN  IF i = 0 THEN NoDecl ELSE ds[i]

check_unary_op(r, op) ==
  LET decl == Search(op, <<r.t>>, FALSE)
  IN  Of(<<r>>, IF decl = NoDecl THEN Failure ELSE Ok(<<"YEUnary", decl, r.c>>, decl.type.args[1]))

(* Converts one side to the type of the other when each passes for the     *)
(* other and one of the two conversions is the better one.                 *)
Converted(r1, r2) ==
  LET m12 == match(r1.t, r2.t)  m21 == match(r2.t, r1.t)
  IN  CASE m12 > m21 /\ m21 > 0 -> <<[r1 EXCEPT !.c = Propagate(r1, r2.t), !.t = r2.t], r2>>
        [] m21 > m12 /\ m12 > 0 -> <<r1, [r2 EXCEPT !.c = Propagate(r2, r1.t), !.t = r1.t]>>
        [] OTHER -> <<r1, r2>>

check_binary_op(r1, op, r2) ==
  LET plain == Search(op, <<r1.t, r2.t>>, TRUE)
      s == IF plain # NoDecl THEN <<r1, r2>> ELSE Converted(r1, r2)
      decl == IF plain # NoDecl \/ s = <<r1, r2>> THEN plain ELSE Search(op, <<s[1].t, s[2].t>>, FALSE)
      ft == FunctionType(Unspec, <<s[1].t, s[2].t>>)
      cft == IF decl.flex THEN determineFlexType(ft, decl.type) ELSE decl.type
  IN  Of(<<r1, r2>>,
         IF decl = NoDecl \/ cft = NoType THEN Failure
         ELSE IF decl.flex /\ match(TupleType(parameters(ft)), TupleType(parameters(cft))) # 0 THEN Failure
         ELSE Ok(<<"YEBinary", decl, s[1].c, s[2].c>>, cft.args[1]))

check_compare_op(r1, op, r2) ==
  LET s == Converted(r1, r2)
  IN  Of(<<r1, r2>>, IF match(r1.t, r2.t) < 0 /\ match(r2.t, r1.t) < 0 THEN Failure
                     ELSE Ok(<<"YECompare", s[1].c, op, s[2].c>>, Base("boolean")))

(* A constant is negated while parsing; a constant of another kind is an   *)
(* error.                                                                  *)
Negation(op, r) ==
  LET v == r.c[2]
  IN  CASE r.t = NoType -> Failure
        [] ~isConstant(r.c) -> check_unary_op(r, op)
        [] op = "!" /\ v[1] = "boolean" -> Of(<<r>>, Ok(Constant(Boolean(~v[2])), Base("boolean")))
        [] op = "-" /\ v[1] = "integer" -> Of(<<r>>, Ok(Constant(i_neg(v[2])), Base("integer")))
        [] op = "-" /\ v[1] = "float"   -> Of(<<r>>, Ok(Constant(f_neg(v[2])), Base("float")))
        [] OTHER -> Failure

Triple(r1, r2, r3) ==
  LET t == commontype(r2.t, r3.t)
      c == IF r1.c[1] = "YConst" /\ r1.c[2][1] = "boolean" THEN (IF r1.c[2][2] THEN r2.c ELSE r3.c)
           ELSE <<"YETriple", r1.c, r2.c, r3.c>>
  IN  Of(<<r1, r2, r3>>, IF r1.t.kind # "boolean" THEN [Ok(r1.c, t) EXCEPT !.errors = TRUE]
                         ELSE [Ok(c, t) EXCEPT !.narrow = Narrow(r2.t, r3.t)])

-----------------------------------------------------------------------------
(* Lists and maps: a list or map of constants becomes a constant.          *)

CommonOf(rs) ==
  FoldLeft(LAMBDA a, r : [t |-> commontype(a.t, r.t), narrow |-> a.narrow \/ Narrow(a.t, r.t)],
           [t |-> Head(rs).t, narrow |-> FALSE], Tail(rs))
list_elements(rs) ==
  LET n == CommonOf(rs)
  IN  Of(rs, [Ok(<<"YEList", [i \in DOMAIN rs |-> rs[i].c]>>, n.t) EXCEPT !.narrow = n.narrow])
ListExpression(rs) ==
  LET e == list_elements(rs)
      v == evaluate(e.c, TRUE)
  IN  CASE rs = <<>> -> Ok(Constant(List(<<>>)), ListType(Unspec))
        [] e.t = NoType -> Failure
        [] OTHER -> [e EXCEPT !.c = IF v = Null THEN @ ELSE Constant(v), !.t = ListType(@)]

IsKeyType(t) == t.kind \in {"integer", "string", "symbol"}
MapExpression(ks, vs) ==
  LET k == CommonOf(ks)  v == CommonOf(vs)
      c == <<"YEMap", [i \in DOMAIN ks |-> <<ks[i].c, vs[i].c>>]>>
      m == evaluate(c, TRUE)
  IN  CASE ks = <<>> -> Ok(Constant(Map(EmptyMap)), MapType(Unspec, Unspec))
        [] \E i \in DOMAIN ks : ~IsKeyType(ks[i].t) -> Failure
        [] OTHER -> Of(ks \o vs, [Ok(IF m = Null THEN c ELSE Constant(m), MapType(k.t, v.t))
                                    EXCEPT !.narrow = k.narrow \/ v.narrow])

-----------------------------------------------------------------------------
(* Brackets.  The type an element has after the indices, as far as the     *)
(* parser follows it: [cur, index, bad].  match gives -1 or Undef where a  *)
(* type does not fit, but only -1 counts here.                             *)
ParamType(c) == IF type(c).kind = "function" THEN type(c).args[1] ELSE type(c)
RECURSIVE Follow(_, _, _, _)
Follow(cur, params, index, terms) ==
  LET p == ParamType(params[index])
      Go(next) == IF index < Len(params) /\ next.kind \in {"list", "map"}
                    THEN Follow(next, params, index + 1, terms) ELSE [cur |-> next, index |-> index, bad |-> FALSE]
      bad == [cur |-> cur, index |-> index, bad |-> TRUE]
  IN  CASE cur.kind = "list" -> IF p.kind = "integer" THEN Go(cur.args[1]) ELSE bad
        [] cur.kind = "map"  -> IF match(p, cur.args[1]) = -1 THEN bad ELSE Go(cur.args[2])
        [] cur.kind = "term" /\ terms -> IF p.kind = "integer" THEN Go(AnyType) ELSE bad
        [] OTHER -> Go(cur)

(* Code for an element with a default: the default must fit, and where the *)
(* type of the element is not known it becomes that of the default.        *)
WithDefault(parts, var, arg, t, def) ==
  LET c == <<"YEBracket", var, arg, def.c, t>>
      untyped == def.t.kind # "void" /\ t.kind = "any" /\ def.t.kind # "any"
  IN  Of(parts, IF def.t.kind # "void" /\ match(def.t, t) = -1 THEN Failure
                ELSE Ok(IF untyped THEN <<"YEPropagate", AnyType, def.t, c>> ELSE c, detailedtype(t, def.t)))

bracket_expression(r, es, def) ==
  LET f == Follow(r.t, es.c[2], 1, FALSE)
      t == CASE r.t.kind = "term" -> AnyType
             [] f.index < Len(es.c[2]) -> AnyType
             [] OTHER -> f.cur
  IN  CASE \E p \in {r, es, def} : p.t = NoType -> Failure
        [] r.t.kind \notin {"list", "map", "term"} -> Failure
        [] r.t.kind # "term" /\ f.bad -> Failure
        [] OTHER -> WithDefault(<<r, es, def>>, r.c, es.c, t, def)

(* lookup() and select(): a key or index of a wrong type is reported, but  *)
(* the rest is checked all the same.                                       *)
LookupCall(m, k, def) ==
  IF \E p \in {m, k, def} : p.t = NoType \/ m.t.kind # "map" THEN Failure
  ELSE LET r == WithDefault(<<m, k, def>>, m.c, <<"YEList", <<k.c>>>>, m.t.args[2], def)
       IN  [r EXCEPT !.errors = @ \/ match(k.t, m.t.args[1]) = -1]
SelectCall(l, i, def) ==
  IF \E p \in {l, i, def} : p.t = NoType \/ l.t.kind \notin {"list", "term"} THEN Failure
  ELSE LET t == IF l.t.kind = "list" THEN l.t.args[1] ELSE AnyType
           r == WithDefault(<<l, i, def>>, l.c, <<"YEList", <<i.c>>>>, t, def)
       IN  [r EXCEPT !.errors = @ \/ match(i.t, Base("integer")) < 0]

casted_expression(t, r) ==
  CASE r.t = NoType -> Failure
    [] match(r.t, t) = 0 -> [r EXCEPT !.t = t]
    [] canCast(r.t, t) -> [r EXCEPT !.c = Propagate(r, t), !.t = t]
    [] OTHER -> Failure

-----------------------------------------------------------------------------
(* Calls of builtins.                                                      *)

(* The number of different %1 .. %9 in a constant format, or -1 when a %   *)
(* stands before anything else.                                            *)
Selectors(s) ==
  LET Step(a, b) == CASE ~a.open -> [a EXCEPT !.open = (b = Percent)]
                      [] b \in 49..57 -> [a EXCEPT !.open = FALSE, !.seen = @ \cup {b}]
                      [] OTHER -> [a EXCEPT !.open = FALSE, !.bad = @ \/ b # Percent]
      all == FoldLeft(Step, [open |-> FALSE, seen |-> {}, bad |-> FALSE], s)
  IN  IF all.bad \/ all.open THEN -1 ELSE Cardinality(all.seen)

YEBuiltin_finalize(name, rs) ==
  LET ts == [i \in DOMAIN rs |-> rs[i].t]
      ft == FunctionType(Unspec, SelectSeq(ts, LAMBDA t : t.kind # "unspec"))
      decl == Search(name, parameters(ft), FALSE)
      rtype == IF decl.flex THEN determineFlexType(ft, decl.type) ELSE decl.type
      constant == rs # <<>> /\ rs[1].c[1] = "YConst" /\ rs[1].c[2][1] = "string"
  IN  CASE decl = NoDecl \/ rtype = NoType -> Failure
        [] decl.flex /\ match(TupleType(parameters(ft)), TupleType(parameters(rtype))) # 0 -> Failure
        [] name = "sformat" /\ constant /\ Selectors(rs[1].c[2][2]) # Len(rs) - 1 -> Failure
        [] OTHER -> Of(rs, Ok(<<"YEBuiltin", decl, rtype, [i \in DOMAIN rs |-> rs[i].c]>>,
                              YEBuiltin_type(decl, rtype)))

-----------------------------------------------------------------------------
(* Expressions and assignments.                                            *)
RECURSIVE compile(_)
CompileAll(es) == [i \in DOMAIN es |-> compile(es[i])]

compile(e) ==
  CASE e[1] = "constant"  -> Ok(Constant(e[2]), IF e[2][1] = "string" THEN Base("string") ELSE YConst_type(e[2]))
    [] e[1] = "variable"  -> Ok(<<"YEVariable", e[2]>>, e[2].type)
    [] e[1] = "list"      -> ListExpression(CompileAll(e[2]))
    [] e[1] = "map"       -> MapExpression(CompileAll(e[2]), CompileAll(e[3]))
    [] e[1] = "bracket"   -> bracket_expression(compile(e[2]), list_elements(CompileAll(e[3])), compile(e[4]))
    [] e[1] = "lookup"    -> LookupCall(compile(e[2]), compile(e[3]), compile(e[4]))
    [] e[1] = "select"    -> SelectCall(compile(e[2]), compile(e[3]), compile(e[4]))
    [] e[1] = "cast"      -> casted_expression(e[2], compile(e[3]))
    [] e[1] = "is"        -> LET r == compile(e[2]) IN Of(<<r>>, Ok(<<"YEIs", r.c, e[3]>>, Base("boolean")))
    [] e[1] = "quoted"    -> LET r == compile(e[2]) IN Of(<<r>>, Ok(<<"YEReturn", r.c>>, BlockType(r.t)))
    [] e[1] = "unary"     -> Negation(e[2], compile(e[3]))
    [] e[1] = "binary"    -> check_binary_op(compile(e[3]), e[2], compile(e[4]))
    [] e[1] = "compare"   -> check_compare_op(compile(e[3]), e[2], compile(e[4]))
    [] e[1] = "triple"    -> Triple(compile(e[2]), compile(e[3]), compile(e[4]))
    [] e[1] = "term"      -> LET rs == CompileAll(e[3])
                             IN  Of(rs, Ok(<<"YETerm", e[2], [i \in DOMAIN rs |-> rs[i].c]>>, Base("term")))
    [] e[1] = "call"      -> YEBuiltin_finalize(e[2], CompileAll(e[3]))

(* variable = expression, and type variable = expression: the code that    *)
(* gives the value to assign.                                              *)
assignment(entry, r) ==
  CASE r.t = NoType \/ entry.type.const \/ match(r.t, entry.type) < 0 -> Failure
    [] match(r.t, entry.type) > 0 -> [r EXCEPT !.c = Propagate(r, entry.type)]
    [] OTHER -> r

(* variable[indices] = expression.  A value that does not fit is reported. *)
bracket_assignment(entry, es, r) ==
  LET f == Follow(entry.type, es.c[2], 1, TRUE)
      m == match(r.t, f.cur)
  IN  CASE es.t = NoType \/ r.t = NoType \/ entry.type.kind \notin {"list", "map", "term"} -> Failure
        [] entry.type.const \/ f.bad -> Failure
        [] OTHER -> Of(<<es, r>>, [r EXCEPT !.c = IF m > 0 THEN Propagate(r, f.cur) ELSE @, !.errors = @ \/ m < 0])

=============================================================================
