-------------------------- MODULE MCYCPStatements --------------------------
(***************************************************************************)
(* A program with every kind of statement inside every other that can be   *)
(* told apart: loops, a switch and a foreach nested in one another, around *)
(* if statements that break, continue or return.                           *)
(***************************************************************************)
EXTENDS YCPStatements, TLC

\* name :> <<kind, kids>>
Program ==
  "file" :> <<"block", <<"plain", "call", "empty_while", "while", "plain">>>>
  @@ "plain" :> <<"plain", <<>>>>
  @@ "break" :> <<"break", <<>>>>
  @@ "continue" :> <<"continue", <<>>>>
  @@ "return" :> <<"return", <<>>>>
  @@ "return_value" :> <<"return_value", <<>>>>
  @@ "jump" :> <<"if", <<"break", "jump_2">>>>
  @@ "jump_2" :> <<"if", <<"continue", "jump_3">>>>
  @@ "jump_3" :> <<"if", <<"return", "jump_4">>>>
  @@ "jump_4" :> <<"if", <<"return_value", "plain">>>>
  @@ "call" :> <<"call", <<"function">>>>
  @@ "function" :> <<"block", <<"repeat", "jump_or_block", "plain">>>>
  @@ "jump_or_block" :> <<"if", <<"return", "plain_block">>>>
  @@ "plain_block" :> <<"block", <<"plain">>>>
  @@ "empty_while" :> <<"while", <<>>>>
  @@ "empty_do" :> <<"do", <<>>>>
  @@ "while" :> <<"while", <<"while_body">>>>
  @@ "while_body" :> <<"block", <<"jump", "foreach", "switch", "plain_block", "plain">>>>
  @@ "foreach" :> <<"builtin", <<"foreach_body">>>>
  @@ "foreach_body" :> <<"block", <<"do", "jump", "empty_do">>>>
  @@ "do" :> <<"do", <<"do_body">>>>
  @@ "do_body" :> <<"block", <<"jump", "switch", "plain">>>>
  @@ "repeat" :> <<"repeat", <<"repeat_body">>>>
  @@ "repeat_body" :> <<"block", <<"while", "jump", "plain">>>>
  @@ "switch" :> <<"switch", <<"switch_body">>>>
  @@ "switch_body" :> <<"block", <<"jump", "jump_block", "plain">>>>
  @@ "jump_block" :> <<"block", <<"jump", "plain">>>>

MCNodes == DOMAIN Program
MCKind == [n \in MCNodes |-> Program[n][1]]
MCKids == [n \in MCNodes |-> Program[n][2]]
MCCases == [n \in MCNodes |-> IF n = "switch" THEN {0, 1, 2} ELSE {}]
=============================================================================
