---------------------------- MODULE MCFileSamples ----------------------------
(***************************************************************************)
(* Descriptions and contents of files for the agents of configuration      *)
(* files, and trees for the system agent.                                  *)
(***************************************************************************)
EXTENDS Integers, Sequences, SequencesExt, TLC

(* IniAgent: one file with nested sections, sections that must be ended,   *)
(* and a directory of files.                                               *)
Rule(end) == [begin |-> "ok", end |-> end]
Bare == [options |-> {"global_values"}, sections |-> <<Rule("none")>>, params |-> <<[match |-> "ok", multiline |-> "ok"]>>,
         rewrites |-> <<>>, multiple_files |-> FALSE, file |-> "fa"]
Ended == [Bare EXCEPT !.sections = <<Rule("ok")>>]
Multi == [Bare EXCEPT !.multiple_files = TRUE, !.rewrites = <<("a" :> "fa") @@ ("k" :> "fk")>>]
F0 == <<<<"comment", 1>>, <<"begin", "a", 0>>, <<"line", "k", <<"z">>, 0>>>>
F1 == <<<<"line", "k", <<"z">>, 0>>>>
F2 == <<<<"line", "k", <<"z">>, 0>>, <<"begin", "a", 0>>, <<"comment", 1>>, <<"line", "a", <<"z">>, 0>>, <<"comment", 1>>, <<"end", "a", 0>>,
        <<"comment", 1>>, <<"begin", "k", 0>>, <<"line", "k", <<"x">>, 0>>, <<"end", "k", 0>>, <<"comment", 1>>>>
Understood == {<<Bare, F0>>, <<Bare, F1>>, <<Ended, F2>>}

(* ModulesAgent.                                                           *)
Comment(c) == [key |-> "#", arg |-> <<>>, text |-> c]
Line(k, arg) == [key |-> k, arg |-> arg, text |-> ""]
ModulesFiles ==
  {<<Comment("c"), Line("alias.a", "" :> "1"), Line("options.a", "o" :> "1"), Comment("c")>>,
   <<Line("include.local", "" :> "1"), Line("alias.a", "" :> "2"), Comment("c"), Line("options.a", <<>>)>>,
   <<>>}

(* AnyAgent: a file like hosts, one like passwd, and the output of a       *)
(* program.                                                                *)
NL == "\n"
Syn(t, args, text) == [t |-> t, args |-> args, text |-> text]
Lit(text) == Syn("string", <<>>, text)
Named(n, s) == Syn("name", <<s>>, <<n>>)
hosts ==
  Syn("List", <<Syn("Tuple", <<Named("i", Syn("Ip4Number", <<>>, <<>>)), Syn("Separator", <<>>, <<" ">>),
    Named("h", Syn("List", <<Syn("Hostname", <<>>, <<>>), Syn("Separator", <<>>, <<" ">>)>>, <<>>))>>, <<>>), Lit(<<NL>>)>>, <<>>)
passwd ==
  Syn("List", <<Syn("Or",
    <<Syn("Tuple", <<Named("u", Syn("String", <<>>, <<"+">>)), Lit(<<":">>), Named("p", Syn("String", <<>>, <<>>))>>, <<>>),
      Syn("Tuple", <<Named("u", Syn("Username", <<>>, <<>>)), Lit(<<":">>),
                     Named("p", Syn("Or", <<Syn("String", <<>>, <<"^", ":", NL>>), Lit(<<>>)>>, <<>>))>>, <<>>)>>, <<>>), Lit(<<NL>>)>>, <<>>)
output ==
  Syn("Tuple", <<Syn("Choice", <<Syn("c", <<Syn("Username", <<>>, <<>>),
    Syn("Var", <<Syn("Name", <<Syn("Match", <<>>, <<>>)>>, <<>>), Lit(<<":">>), Syn("Value", <<Syn("Number", <<>>, <<>>)>>, <<>>)>>, <<>>)>>, <<>>)>>, <<>>),
    Syn("Continue", <<Lit(<<NL>>)>>, <<>>)>>, <<>>)
fstab ==
  Syn("List", <<Syn("Tuple", <<Named("s", Syn("String", <<>>, <<"^", " ", NL>>)), Syn("Optional", <<Syn("Separator", <<>>, <<" ">>)>>, <<>>),
    Syn("Optional", <<Named("f", Syn("Number", <<>>, <<>>))>>, <<>>)>>, <<>>), Lit(<<NL>>)>>, <<>>)
Described(s, program, paths) ==
  [syntax |-> s, comment |-> <<"#", NL>>, fillup |-> FALSE, readonly |-> FALSE, program |-> program, paths |-> paths]
AnyDescriptions ==
  {Described(hosts, FALSE, {<<<<"number", 0>>, <<"key", <<"i">>>>>>}), Described(fstab, FALSE, {}),
   Described(passwd, FALSE, {}), Described(output, TRUE, {})}
FirstLine(s) ==
  CASE s = hosts  -> <<"1", ".", "0", ".", "0", ".", "2", " ", "a", " ", "b", ".", "a", NL>>
    [] s = fstab  -> <<"a", " ", "1", NL>>
    [] s = passwd -> <<"a", "1", ":", "b", NL>>
    [] s = output -> <<"a", ":", "1", NL>>
OtherLines(s) ==
  CASE s = hosts  -> {<<"1", ".", "2", " ", "a", NL>>, <<"#", NL>>}
    [] s = fstab  -> {<<"#", "a", NL>>, <<"b">>}
    [] s = passwd -> {<<"+", ":", NL>>, <<"b", ":", NL>>}
    [] s = output -> {<<"b", ":", "1", "2", NL>>, <<"b", NL>>}
AnyEdits == [s \in {hosts, fstab, passwd, output} |-> OtherLines(s) \cup {<<>>, FirstLine(s)}]
AnyTexts == [s \in {hosts, fstab, passwd, output} |-> AnyEdits[s] \cup {FirstLine(s) \o t : t \in OtherLines(s)}]

(* SystemAgent: trees with a link out of the temporary directory, nested   *)
(* directories, and a temporary directory that is a link.                  *)
Node(type, data, to) == [type |-> type, data |-> data, to |-> to]
Dir == Node("dir", <<>>, <<>>)
Link(to) == Node("link", <<>>, to)
File == Node("file", <<"string", 1>>, <<>>)
T == <<"t">>
A == <<"a">>
Base == (T :> Dir) @@ (A :> Dir)
MCTrees ==
  {Base, (<<"t", "a">> :> Link(A)) @@ (<<"t", "t">> :> Link(<<"a", "a">>)) @@ (<<"a", "a">> :> File) @@ Base,
   (<<"t", "a">> :> Dir) @@ (<<"t", "a", "t">> :> File) @@ Base, (T :> Link(A)) @@ Base}

(* ResolverAgent: a file with two servers, an unknown key and a comment,   *)
(* and one with an info header whose last line has no newline; and values, *)
(* some of a type that a key does not take.                                *)
ResolverLine(k, w) == [k |-> k, w |-> w]
ResolverFiles ==
  {[lines |-> <<>>, nl |-> FALSE],
   [lines |-> <<ResolverLine("search", <<"a", "b">>), ResolverLine("nameserver", <<"a">>), ResolverLine("#", <<>>),
                ResolverLine("nameserver", <<"b">>), ResolverLine("other", <<"a">>)>>, nl |-> TRUE],
   [lines |-> <<ResolverLine("BEGIN", <<>>), ResolverLine("modified", <<"a">>), ResolverLine("#", <<>>),
                ResolverLine("info", <<"b">>), ResolverLine("END", <<>>), ResolverLine("domain", <<"a">>),
                ResolverLine("options", <<"a">>)>>, nl |-> FALSE]}
ResolverValues == {[t |-> "list", v |-> <<"a", "nil">>], [t |-> "list", v |-> <<>>], [t |-> "string", v |-> <<"b">>]}
=============================================================================
