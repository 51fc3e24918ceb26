------------------------- MODULE MCScriptingAgent --------------------------
(***************************************************************************)
(* An agent at .1, one below it at .1.1, and one at .2 in a file that has  *)
(* the name of another path.                                               *)
(***************************************************************************)
EXTENDS ScriptingAgent

MCPaths == {<<>>, <<1>>, <<1, 1>>, <<1, 2>>}
MCFiles == <<"1", "1_1", "1_2">>
MCFilePath == [f \in FileSet |-> CASE f = "1" -> <<1>> [] f = "1_1" -> <<1, 1>> [] f = "1_2" -> <<2>>]
MCBasename == [f \in FileSet |-> f]
MCGuess(p) ==
  CASE p = <<1>> -> "1" [] p = <<1, 1>> -> "1_1" [] p = <<1, 2>> -> "1_2" [] OTHER -> "none"
=============================================================================
