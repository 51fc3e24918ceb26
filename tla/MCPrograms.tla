----------------------------- MODULE MCPrograms -----------------------------
(***************************************************************************)
(* Compiled programs for Bytecode: two modules and two clients, with every *)
(* kind of code that is written to a file.                                 *)
(***************************************************************************)
EXTENDS Integers, Sequences

V(ns, n) == <<"YEVariable", [ns |-> ns, name |-> n]>>
K(x) == <<"YConst", x>>
Sym(n, g, f, t) == [name |-> n, global |-> g, function |-> f, type |-> t]

(* Module A: global x, global function f(p) with a local block, a local    *)
(* function g; in its second version x has another type.                   *)
A(t) == LET a == <<"A", 1>>  p == <<"A", 2>>  q == <<"A", 5>> IN
  <<"YBlock", a, "module", <<Sym("x", TRUE, FALSE, t), Sym("f", TRUE, TRUE, "f"), Sym("g", FALSE, TRUE, "g")>>,
    <<[name |-> "x", decl |-> <<>>], [name |-> "f", decl |-> <<"YBlock", p, "definition", <<Sym("p", FALSE, FALSE, "i")>>, <<>>, <<>>>>]>>,
    <<<<"YSVariable", 1, [ns |-> a, name |-> "x"], K(1)>>,
      <<"YSFunction", 2, [ns |-> a, name |-> "f"], <<"YBlock", p, "definition", <<Sym("p", FALSE, FALSE, "i")>>, <<>>, <<>>>>,
         <<"YBlock", <<"A", 3>>, "definition", <<>>, <<>>, <<<<"YSReturn", 3, <<"YEBinary", "+", V(p, "p"), V(a, "x")>>>>>>>>>>,
      <<"YSFunction", 4, [ns |-> a, name |-> "g"], <<"YBlock", <<"A", 4>>, "definition", <<Sym("y", FALSE, FALSE, "i")>>, <<>>, <<>>>>,
         <<"YBlock", q, "definition", <<Sym("z", FALSE, FALSE, "i")>>, <<>>,
           <<<<"YSAssign", 5, [ns |-> q, name |-> "z"], V(<<"A", 4>>, "y")>>,
             <<"YSReturn", 6, <<"YEFunction", [ns |-> a, name |-> "f"], <<V(q, "z")>>>>>>>>>>>>>>>>

(* Module B refers to A::f and A::x.                                       *)
B == <<"YBlock", <<"B", 1>>, "module", <<Sym("b", TRUE, FALSE, "i")>>, <<[name |-> "b", decl |-> <<>>]>>,
        <<<<"YSImport", 1, "A", <<[name |-> "f", type |-> "f"], [name |-> "x", type |-> "i"]>>>>,
          <<"YSVariable", 2, [ns |-> <<"B", 1>>, name |-> "b"], V(<<"A", 0>>, "x")>>>>>>

(* Client C imports B and, in an inner block, A; client D is on its own.   *)
C(t) == LET c == <<"C", 1>>  d == <<"C", 2>> IN
  <<"YBlock", c, "file", <<Sym("v", FALSE, FALSE, "i")>>, <<>>,
    <<<<"YSImport", 1, "B", <<[name |-> "b", type |-> "i"]>>>>,
      <<"YSVariable", 2, [ns |-> c, name |-> "v"], V(<<"B", 0>>, "b")>>,
      <<"YSBlock", 3, <<"YBlock", d, "statement", <<Sym("w", FALSE, FALSE, "i")>>, <<>>,
         <<<<"YSImport", 4, "A", <<[name |-> "f", type |-> "f"], [name |-> "x", type |-> "i"]>>>>,
           <<"YSAssign", 5, [ns |-> d, name |-> "w"], V(<<"A", 0>>, "x")>>,
           <<"YSExpression", 6, <<"YEFunction", [ns |-> <<"A", 0>>, name |-> "f"], <<<<"YEBracket", V(d, "w"), K(0), V(c, "v"), t>>>>>>>>>>>>>>,
      <<"YSReturn", 7, V(c, "v")>>>>>>
D(t) == LET c == <<"D", 1>>  l == <<"D", 2>> IN
  <<"YBlock", c, "file", <<Sym("v", FALSE, FALSE, "i"), Sym("u", FALSE, FALSE, "i"), Sym("h", FALSE, TRUE, "h")>>, <<>>,
    <<<<"YSFilename", 0, "d">>, <<"YSTextdomain", 1, "dom">>, <<"YSTypedef", 1, "t", "i">>, <<"YSInclude", 1, "inc", TRUE>>,
      <<"YSVariable", 2, [ns |-> c, name |-> "v"],
        <<"YEBuiltin", t, "foreach", <<"YBlock", l, "definition", <<Sym("e", FALSE, FALSE, "i")>>, <<>>, <<>>>>,
          <<<<"YEList", <<K(1), K(2)>>>>, <<"YEReturn", <<"YECompare", V(l, "e"), "<", V(c, "v")>>>>>>>>>>,
      <<"YSFunction", 3, [ns |-> c, name |-> "h"], <<>>, <<"YBlock", <<"D", 3>>, "definition", <<>>, <<>>, <<<<"YSReturn", 3, <<>>>>>>>>>>,
      <<"YSIf", 4, <<"YEIs", "i", V(c, "u")>>, <<"YSBreak", 4>>, <<>>>>,
      <<"YSWhile", 5, <<"YEUnary", "!", V(c, "u")>>, <<"YSContinue", 5>>>>,
      <<"YSRepeat", 6, <<"YSBracket", 6, [ns |-> c, name |-> "u"], <<"YEMap", <<<<K(1), V(c, "v")>>>>>>, <<"YETerm", "t", <<V(c, "u")>>>>>>,
        <<"YETriple", K(TRUE), <<"YELocale", "s", "p", V(c, "v"), "dom">>, <<"YLocale", "s", "dom">>>>>>,
      <<"YSDo", 7, <<>>, <<"YEPropagate", "i", "f", <<"YEReference", [ns |-> c, name |-> "u"]>>>>>>,
      <<"YSSwitch", 8, V(c, "u"), <<<<1, 0>>>>, -1, <<"YBlock", <<"D", 4>>, "statement", <<>>, <<>>,
        <<<<"YSExpression", 9, <<"YEFunctionPointer", [ns |-> c, name |-> "u"], <<>>>>>>>>>>>>,
      <<"YSReturn", 10, <<"YEFunction", [ns |-> c, name |-> "h"], <<>>>>>>>>>>

Both(w, r) == [written |-> w, reads |-> r]
MCPrograms == [f \in {"A", "B", "C", "D"} |->
  CASE f = "A" -> <<Both(A("i"), A("i")), Both(A("s"), A("s"))>>
    [] f = "B" -> <<Both(B, B)>>
    [] f = "C" -> <<Both(C("i"), C("void"))>>
    [] f = "D" -> <<Both(D("i"), D("void"))>>]
=============================================================================
