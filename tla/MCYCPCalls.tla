----------------------------- MODULE MCYCPCalls -----------------------------
(***************************************************************************)
(* Small YCP programs for TLC.  Both have a toplevel block "file" and       *)
(* functions that can call themselves or one another.                      *)
(***************************************************************************)
EXTENDS YCPCalls

\* integer g;
\* void h (integer & q);
\* void f (integer & p) {
\*   integer x;
\*   { integer y; f (...); }
\*   foreach (integer e, ..., { pointer (...); });
\*   h (...);
\* }
\* with h declared and not defined, and pointer a function pointer to f or h.
RecFunctions == {"f", "h"}
RecBlocks == {"file", "fbody", "inner"}
RecBody == [f \in RecFunctions |-> "fbody"]
RecInner == {<<"fbody", "inner">>, <<"fbody", "foreach">>}
RecNodes == {"call_f0", "call_f", "call_h", "pointer"}
RecAt == [n \in RecNodes |-> CASE n = "call_f0" -> "file" [] n = "call_f" -> "inner"
                                [] n = "call_h" -> "fbody" [] n = "pointer" -> "foreach"]
RecCallee == [n \in RecNodes |-> CASE n = "call_h" -> {"h"} [] n = "pointer" -> {"f", "h"} [] OTHER -> {"f"}]
RecVars == {"g", "p", "x", "y", "e", "q"}
RecScope == [v \in RecVars |-> CASE v = "g" -> "file" [] v = "p" -> "f" [] v = "x" -> "fbody" [] v = "y" -> "inner"
                                 [] v = "e" -> "foreach" [] OTHER -> "h"]

\* void a (integer p) { pointer (a (...)); }   void b () {}
\* where pointer is a function pointer to a or b.
FpFunctions == {"a", "b"}
FpBlocks == {"file", "abody", "bbody"}
FpBody == [f \in FpFunctions |-> IF f = "a" THEN "abody" ELSE "bbody"]
FpNodes == {"start", "pointer", "again"}
FpAt == [n \in FpNodes |-> CASE n = "start" -> "file" [] n = "pointer" -> "abody" [] OTHER -> "pointer"]
FpCallee == [n \in FpNodes |-> IF n = "pointer" THEN {"a", "b"} ELSE {"a"}]
FpVars == {"p"}
FpScope == [v \in FpVars |-> "a"]
=============================================================================
