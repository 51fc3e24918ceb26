--------------------------- MODULE MCProcessAgent ---------------------------
(* A child that writes more to stderr than the pipe holds.                 *)
EXTENDS ProcessAgent

StderrOnly == [s \in Streams |-> IF s = "err" THEN 2 ELSE 0]
=============================================================================
