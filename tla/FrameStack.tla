----------------------------- MODULE FrameStack -----------------------------
(***************************************************************************)
(* What a YCP program may rely on when functions and blocks recurse: every *)
(* activation of a scope (a block, the parameters of a function, the       *)
(* variables of a builtin such as foreach) has its own instances of the    *)
(* scope's variables, the newest instance is the one that is read and      *)
(* written, and the older ones come back unchanged when it is left.        *)
(***************************************************************************)
EXTENDS Sequences, Integers

CONSTANTS Vars, Scopes, Scope, Value

VARIABLE env   \* env[v]: the values of the live instances of v, oldest first

Init == env = [v \in Vars |-> <<>>]

Front(q) == SubSeq(q, 1, Len(q) - 1)

Enter(s) ==
  /\ env' \in [Vars -> Seq(Value)]
  /\ \A v \in Vars : IF Scope[v] = s THEN env'[v] # <<>> /\ Front(env'[v]) = env[v]
                                    ELSE env'[v] = env[v]

Leave(s) ==
  /\ env' \in [Vars -> Seq(Value)]
  /\ \A v \in Vars : IF Scope[v] = s THEN env[v] # <<>> /\ env'[v] = Front(env[v])
                                    ELSE env'[v] = env[v]

Set(v) ==
  /\ env' \in [Vars -> Seq(Value)]
  /\ env[v] # <<>> /\ env'[v] # <<>> /\ Front(env'[v]) = Front(env[v])
  /\ \A w \in Vars \ {v} : env'[w] = env[w]

Next ==
  \/ \E s \in Scopes : Enter(s) \/ Leave(s)
  \/ \E v \in Vars : Set(v)

Spec == Init /\ [][Next]_env
=============================================================================
