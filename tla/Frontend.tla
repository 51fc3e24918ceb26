------------------------------ MODULE Frontend ------------------------------
(***************************************************************************)
(* main of a YaST2 program, genericfrontend.cc: the command line, the      *)
(* search lists of YCPPathSearch, the order in which the server and the    *)
(* client are made, used and deleted, and the exit code.                   *)
(*                                                                         *)
(* A command line is described by what its author means, line; argv is its *)
(* words in the order print_help gives.  A word in parentheses is "(v)"    *)
(* for a value v.  What is in files and on stdin, whether components are   *)
(* found and what the client returns is up to the environment.             *)
(***************************************************************************)
EXTENDS Integers, Sequences, SequencesExt

CONSTANTS
  Lines,       \* [log, exceptions, debugger, inc, mod, client, copts, server, sopts, rest], the options of the
               \* client and of the server as [words, means], means the list of values
  Y2DIR,       \* the values of the environment variable, split at colons
  Files,       \* Files[f]: the YCP values in file f
  Stdin,       \* the list on stdin
  Results      \* what clients return: [type, value]

VARIABLES
  line, y2dir,
  arg, at,         \* the next word, and where main is
  opts,            \* what main has read from the words
  searchList,      \* of YCPPathSearch
  server, client,  \* "none", "made", "finished" when the server has the result, "deleted"
  sent,            \* what the server was told to evaluate
  given,           \* the arguments the client got
  returned, exit

frontendVars == <<line, y2dir, arg, at, opts, searchList, server, client, sent, given, returned, exit>>

(* Y2PathSearch::getPaths, YCPPathSearch::addPath and initialize; a path   *)
(* stands for its directory of each kind.                                  *)
getPaths(dirs) == <<"/y2update">> \o SelectSeq(dirs, LAMBDA d : d # "YAST2DIR") \o <<"HOME", "YAST2DIR">>
addPath(list, path) == IF Contains(list, path) THEN list ELSE <<path>> \o list
addPaths(list, paths) == FoldLeft(addPath, list, paths)
initialize(dirs) == addPaths(<<>>, Reverse(getPaths(dirs)))

(* The words of the command line                                           *)
Each(option, values) == FoldLeft(LAMBDA words, v : words \o <<option, v>>, <<>>, values)
argv ==
  line.log \o Each("-n", line.exceptions) \o line.debugger \o Each("-I", line.inc) \o Each("-M", line.mod)
    \o <<line.client>> \o line.copts.words \o <<line.server>> \o line.sopts.words \o line.rest
argc == Len(argv) + 1
Word == IF arg < argc THEN argv[arg] ELSE "NULL"
IsLog(word) == word \in {"-l", "--logfile"}
IsConf(word) == word \in {"-c", "--logconf"}

(* has_parens, and what is between them                                    *)
Inside == [w \in {"(1)", "(2)", "(3)"} |-> CASE w = "(1)" -> "1" [] w = "(2)" -> "2" [] w = "(3)" -> "3"]
has_parens(word) == word \in DOMAIN Inside
Parsed(values) == [i \in DOMAIN values |-> [ycp |-> TRUE, v |-> values[i]]]
IsServerName(word) == ~(IsLog(word) \/ IsConf(word) \/ word \in {"-S", "-s", "-f"} \/ has_parens(word))

Init ==
  /\ line \in Lines /\ y2dir \in Y2DIR /\ returned \in Results
  /\ arg = 1 /\ at = "log" /\ exit = -1
  /\ opts = [exceptions |-> <<>>, debugger |-> FALSE, incpaths |-> <<>>, modpaths |-> <<>>, client_name |-> "",
             arglist |-> <<>>, args_are_ycp |-> TRUE, server_name |-> "", preload |-> <<>>]
  /\ searchList = [kind \in {"Include", "Module"} |-> initialize(y2dir)]
  /\ server = "none" /\ client = "none" /\ sent = <<>> /\ given = <<>>

Exit(code) ==
  /\ exit' = code /\ at' = "exit"
  /\ UNCHANGED <<line, y2dir, arg, opts, searchList, server, client, sent, given, returned>>

-----------------------------------------------------------------------------
(* Takes n words, changes what is read, and goes to the next kind          *)
Take(n, o, next) ==
  /\ arg' = arg + n /\ opts' = o /\ at' = next
  /\ UNCHANGED <<line, y2dir, server, client, sent, given, returned, exit>>
Reads(n, o, next) == Take(n, o, next) /\ UNCHANGED searchList

(* -l, -c and once more -l: the log is set up already                      *)
LogOptions ==
  /\ at = "log"
  /\ LET Skip(n, is(_)) == n + IF is(argv[n]) THEN 2 ELSE 0
     IN Reads(Skip(Skip(Skip(arg, IsLog), IsConf), IsLog) - arg, opts, "namespaces")
Namespaces ==
  /\ at = "namespaces"
  /\ IF Word = "-n" THEN Reads(2, [opts EXCEPT !.exceptions = Append(@, argv[arg + 1])], at) ELSE Reads(0, opts, "debugger")
DebuggerOptions ==
  /\ at = "debugger"
  /\ LET local == IF Word = "--debugger" THEN 1 ELSE 0
         remote == IF argv[arg + local] = "--debugger-remote" THEN 1 ELSE 0
     IN Reads(local + remote, [opts EXCEPT !.debugger = local + remote > 0], "include")
IncludePaths ==
  /\ at = "include"
  /\ IF Word = "-I" THEN Reads(2, [opts EXCEPT !.incpaths = <<argv[arg + 1]>> \o @], at) ELSE Reads(0, opts, "module")
ModulePaths ==
  /\ at = "module"
  /\ IF Word = "-M" THEN Reads(2, [opts EXCEPT !.modpaths = <<argv[arg + 1]>> \o @], at) ELSE Reads(0, opts, "paths")
(* MUTANT: the paths are pushed as they were given.                        *)
PushInArgumentOrder ==
  /\ at = "paths" /\ Take(0, opts, "client")
  /\ searchList' = [Include |-> addPaths(searchList["Include"], Reverse(opts.incpaths)),
                    Module |-> addPaths(searchList["Module"], Reverse(opts.modpaths))]
PushPaths ==
  /\ at = "paths" /\ Take(0, opts, "client")
  /\ searchList' = [Include |-> addPaths(searchList["Include"], opts.incpaths),
                    Module |-> addPaths(searchList["Module"], opts.modpaths)]

(* The values of the file that is the next word; none is an error.         *)
FromFile(Reading(_)) ==
  IF arg + 1 < argc /\ argv[arg + 1] \in DOMAIN Files /\ Files[argv[arg + 1]] # <<>>
  THEN Reading(Parsed(Files[argv[arg + 1]])) ELSE Exit(5)

(* parse_client_and_options                                                *)
ClientName == at = "client" /\ Reads(1, [opts EXCEPT !.client_name = Word], "copts")
ClientOption ==
  /\ at = "copts"
  /\ \/ (IsLog(Word) \/ IsConf(Word)) /\ Reads(2, opts, at)
     \/ Word = "-S" /\ Reads(1, [opts EXCEPT !.args_are_ycp = FALSE], at)
     \/ Word = "-s" /\ (Reads(1, [opts EXCEPT !.arglist = Parsed(Stdin)], at) \/ Exit(5))
     \/ Word = "-f" /\ FromFile(LAMBDA values : Reads(2, [opts EXCEPT !.arglist = @ \o values], at))
     \/ /\ has_parens(Word)
        /\ \/ Reads(1, [opts EXCEPT !.arglist = Append(@, [ycp |-> opts.args_are_ycp, v |-> Inside[Word]])], at)
           \/ opts.args_are_ycp /\ Exit(5)
EndOfClientOptions ==
  /\ at = "copts" /\ IsServerName(Word)
  /\ Reads(0, [opts EXCEPT !.arglist = IF opts.debugger THEN Append(@, [ycp |-> TRUE, v |-> "debugger"]) ELSE @], "server")

(* parse_server_and_options; other words are for the server itself.        *)
ServerName ==
  /\ at = "server"
  /\ IF arg >= argc THEN Exit(5) ELSE Reads(1, [opts EXCEPT !.server_name = Word], "sopts")
ServerOption ==
  /\ at = "sopts"
  /\ \/ IsLog(Word) /\ Reads(2, opts, at)
     \/ Word = "-p" /\ FromFile(LAMBDA values : Reads(2, [opts EXCEPT !.preload = @ \o values], at))
     \/ has_parens(Word) /\ (Reads(1, [opts EXCEPT !.preload = @ \o Parsed(<<Inside[Word]>>)], at) \/ Exit(5))
EndOfOptions ==
  /\ at = "sopts" /\ ~(IsLog(Word) \/ Word = "-p" \/ has_parens(Word))
  /\ Reads(0, opts, "create server")

-----------------------------------------------------------------------------
(* The rest of main                                                        *)
Goes(next) == at' = next /\ UNCHANGED <<line, y2dir, arg, opts, searchList, returned, exit>>

CreateServer ==
  /\ at = "create server"
  /\ \/ server' = "made" /\ Goes("preload") /\ UNCHANGED <<client, sent, given>>
     \/ Exit(5)
Preload ==
  /\ at = "preload"
  /\ IF Len(sent) < Len(opts.preload)
     THEN sent' = Append(sent, opts.preload[Len(sent) + 1]) /\ Goes(at)
     ELSE Goes("create client") /\ UNCHANGED sent
  /\ UNCHANGED <<server, client, given>>
CreateClient ==
  /\ at = "create client"
  /\ \/ client' = "made" /\ Goes("work") /\ UNCHANGED <<server, sent, given>>
     \/ Exit(5)
Work == at = "work" /\ given' = opts.arglist /\ Goes("result") /\ UNCHANGED <<server, client, sent>>
SendResult == at = "result" /\ server' = "finished" /\ Goes("delete server") /\ UNCHANGED <<client, sent, given>>
DeleteServer == at = "delete server" /\ server' = "deleted" /\ Goes("delete client") /\ UNCHANGED <<client, sent, given>>
DeleteClient == at = "delete client" /\ client' = "deleted" /\ Goes("finish") /\ UNCHANGED <<server, sent, given>>

(* YAST_OK is 0, YAST_CLIENTRESULT 16; exit keeps eight bits.              *)
ExitCode(r) ==
  CASE r.type = "boolean" -> IF r.value THEN 0 ELSE 16
    [] r.type = "integer" -> (16 + r.value) % 256
    [] r.type = "symbol" -> IF r.value \in {"abort", "cancel"} THEN 16 ELSE 0
    [] OTHER -> 0
Finish == at = "finish" /\ Exit(ExitCode(returned))

Next ==
  \/ LogOptions \/ Namespaces \/ DebuggerOptions \/ IncludePaths \/ ModulePaths \/ PushPaths
  \/ ClientName \/ ClientOption \/ EndOfClientOptions \/ ServerName \/ ServerOption \/ EndOfOptions
  \/ CreateServer \/ Preload \/ CreateClient \/ Work \/ SendResult \/ DeleteServer \/ DeleteClient \/ Finish

-----------------------------------------------------------------------------
(* The words mean what their author wrote: the client and the server that  *)
(* are named get the values that are written for each, in their order, and *)
(* no word is taken for another's; the specific options of the server are  *)
(* the words left.                                                         *)
WordsMeanWhatTheySay ==
  at = "create server" =>
    /\ opts.client_name = line.client /\ opts.server_name = line.server
    /\ opts.exceptions = line.exceptions /\ opts.debugger = (line.debugger # <<>>)
    /\ opts.arglist = line.copts.means \o Parsed(IF line.debugger = <<>> THEN <<>> ELSE <<"debugger">>)
    /\ opts.preload = line.sopts.means
    /\ SubSeq(argv, arg, Len(argv)) = line.rest

(* -I and -M paths are searched in the order of the arguments, before all  *)
(* others ("so that the argument order is kept"), and no path is searched  *)
(* twice.                                                                  *)
ArgumentOrderIsKept ==
  at = "client" =>
    \A kind \in {"Include", "Module"} :
      LET given1 == IF kind = "Include" THEN line.inc ELSE line.mod
          new == SelectSeq(given1, LAMBDA p : ~Contains(initialize(y2dir), p))
      IN /\ IsInjective(searchList[kind])
         /\ IsInjective(given1) => searchList[kind] = new \o initialize(y2dir)

(* The client begins when the server has evaluated all its preloaded       *)
(* values, the server gets the result before it is deleted, and a failure  *)
(* is never reported as the success of a client.                           *)
EndsInOrder ==
  /\ client # "none" => sent = opts.preload
  /\ client = "deleted" => server = "deleted" /\ given = opts.arglist
  /\ exit = 0 => client = "deleted"
  /\ at = "exit" => (exit = 5 \/ client = "deleted")
StartsAsTold == WordsMeanWhatTheySay /\ ArgumentOrderIsKept /\ EndsInOrder
=============================================================================
