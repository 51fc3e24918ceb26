------------------------------- MODULE AnyAgent -------------------------------
(***************************************************************************)
(* The agent that reads and writes files by a description of their syntax  *)
(* (agent-any/src): the interpreter of descriptions in both directions,    *)
(* and the lines and the time of the file that the agent keeps.            *)
(*                                                                         *)
(* A text is a sequence of characters.  A syntax is a record: the name of  *)
(* the term, its arguments, and a text for strings, sets of characters and *)
(* the keys of a tuple.  Floats are left out.                              *)
(***************************************************************************)
EXTENDS Integers, Sequences, FiniteSets, SequencesExt, TLC

CONSTANTS
  Digits, Letters,   \* the characters that are digits and letters
  Descriptions,      \* descriptions: syntax, comment, fillup, readonly, names of files
  Files,             \* names of files
  Texts,             \* what may be in the file of a description
  Edits,             \* what other programs write to it
  MaxOps             \* how many writes and changes there are

VARIABLES
  d,          \* the description
  disk,       \* text and time of every file
  clock,      \* the time in seconds
  agent,      \* mtime, alldata, cache, cchanged
  got,        \* got_anything of getLine, which outlives a Read
  answer,     \* the last command and its answer
  ops

vars == <<d, disk, clock, agent, got, answer, ops>>

(* otherCommand: the output of a program is not written.                   *)
Description(scr) == [scr EXCEPT !.readonly = @ \/ scr.program]

Syn(t, args, text) == [t |-> t, args |-> args, text |-> text]
Lit(text) == Syn("string", <<>>, text)
Null == <<"null">>
Void == <<"nil">>
Str(text) == <<"string", text>>
Num(n) == <<"integer", n>>
Kind(v) == v[1]

-----------------------------------------------------------------------------
(* AnyAgentBasic.cc.  Each parser gives the value and how many characters  *)
(* it takes.                                                               *)
Took(v, n) == [v |-> v, n |-> n]
(* How many characters from the first on fulfil In.                        *)
Span(text, In(_)) ==
  LET stops == {i \in 1..Len(text) : ~In(text[i])}
  IN  IF stops = {} THEN Len(text) ELSE (CHOOSE i \in stops : \A j \in stops : i <= j) - 1
StartsWith(text, In(_)) == text # <<>> /\ In(text[1])
DigitValue(c) == CHOOSE n \in 0..9 : ToString(n) = c
Numeral(text) == FoldLeft(LAMBDA n, c : 10 * n + DigitValue(c), 0, text)
IsDigit(c) == c \in Digits
IsAlpha(c) == c \in Letters

parseNumber(text) ==
  LET n == Span(text, IsDigit)
  IN  IF n = 0 THEN Took(Null, 0) ELSE Took(Num(Numeral(SubSeq(text, 1, n))), n)
parseBoolean(text) ==
  CASE IsPrefix(<<"y", "e", "s">>, text) -> Took(<<"boolean", TRUE>>, 3)
    [] IsPrefix(<<"n", "o">>, text) -> Took(<<"boolean", FALSE>>, 2)
    [] OTHER -> Took(Null, 0)
(* 0x in front is skipped, also when no digit follows.                     *)
HexDigits == [c \in Digits \cup {"a", "b"} |-> CASE c = "a" -> 10 [] c = "b" -> 11 [] OTHER -> DigitValue(c)]
parseHexval(text) ==
  LET skip == IF Len(text) > 1 /\ text[1] = "0" /\ text[2] = "x" THEN 2 ELSE 0
      rest == SubSeq(text, skip + 1, Len(text))
      n == Span(rest, LAMBDA c : c \in DOMAIN HexDigits)
      num == FoldLeft(LAMBDA a, c : 16 * a + HexDigits[c], 0, SubSeq(rest, 1, n))
  IN  IF ~StartsWith(text, LAMBDA c : c \in DOMAIN HexDigits) THEN Took(Null, 0) ELSE Took(Num(num), skip + n)
(* Four numbers; an address that breaks off is nil and what was read of it *)
(* is taken.                                                               *)
RECURSIVE Ip4(_, _, _, _)
Ip4(text, pos, num, dots) ==
  LET rest == SubSeq(text, pos + 1, Len(text))
      n == Span(rest, IsDigit)
      i == Numeral(SubSeq(rest, 1, n))
  IN  CASE n = 0 \/ i > 255 -> Took(Void, pos)
        [] n > 0 /\ i <= 255 /\ dots = 3 -> Took(Num(256 * num + i), pos + n)
        [] n > 0 /\ i <= 255 /\ dots < 3 /\ ~(n < Len(rest) /\ rest[n + 1] = ".") -> Took(Void, pos + n)
        [] OTHER -> Ip4(text, pos + n + 1, 256 * num + i, dots + 1)
parseIp4Number(text) == Ip4(text, 0, 0, 0)
(* A set of characters that begins with ^ is the set of the others.        *)
InSet(set, c) == IF set # <<>> /\ set[1] = "^" THEN c \notin ToSet(Tail(set)) ELSE c \in ToSet(set)
NoSet(set) == set = <<>> \/ set = <<"^">>
parseString(text, set, stripped) ==
  LET n == Span(text, LAMBDA c : InSet(set, c))
      kept == {i \in 1..n : text[i] \notin ToSet(stripped)}
      from == IF kept = {} THEN n + 1 ELSE CHOOSE i \in kept : \A j \in kept : i <= j
      to == IF kept = {} THEN n ELSE CHOOSE i \in kept : \A j \in kept : j <= i
  IN  IF n = 0 /\ ~NoSet(set) THEN Took(Null, 0) ELSE Took(Str(SubSeq(text, from, to)), n)
IsAlnum(c) == IsDigit(c) \/ IsAlpha(c)
Username(text) == IF StartsWith(text, IsAlpha) THEN Span(text, IsAlnum) ELSE 0
(* A dot belongs to a name if a letter follows.                            *)
Hostname(text) ==
  LET Belongs(i) == \/ IsAlnum(text[i]) \/ text[i] = "_"
                    \/ text[i] = "." /\ i < Len(text) /\ IsAlpha(text[i + 1])
      stops == {i \in 1..Len(text) : ~Belongs(i)}
  IN  IF ~StartsWith(text, IsAlpha) THEN 0
      ELSE IF stops = {} THEN Len(text) ELSE (CHOOSE i \in stops : \A j \in stops : i <= j) - 1
parseHostname(text) ==
  LET n == Hostname(text) IN IF n = 0 THEN Took(Null, 0) ELSE Took(Str(SubSeq(text, 1, n)), n)
parseUsername(text) ==
  LET n == Username(text) IN IF n = 0 THEN Took(Null, 0) ELSE Took(Str(SubSeq(text, 1, n)), n)
parseVerbose(text, match, optional) ==
  IF IsPrefix(match, text) THEN Took(Str(match), Len(match)) ELSE Took(IF optional THEN Void ELSE Null, 0)
parseSeparator(text, match, optional) ==
  LET n == Span(text, LAMBDA c : c \in ToSet(match))
  IN  IF optional \/ n > 0 THEN Took(Str(SubSeq(text, 1, n)), n) ELSE Took(Null, 0)

RECURSIVE Decimal(_)
Decimal(n) == IF n < 10 THEN <<ToString(n)>> ELSE Append(Decimal(n \div 10), ToString(n % 10))
unparseNumber(v) == IF Kind(v) = "integer" THEN Decimal(v[2]) ELSE <<>>
unparseBoolean(v) == IF Kind(v) # "boolean" THEN <<>> ELSE IF v[2] THEN <<"y", "e", "s">> ELSE <<"n", "o">>
unparseIp4Number(v) ==
  LET Octet(k) == unparseNumber(Num((v[2] \div k) % 256))
  IN  IF Kind(v) # "integer" THEN <<>>
      ELSE Octet(16777216) \o <<".">> \o Octet(65536) \o <<".">> \o Octet(256) \o <<".">> \o Octet(1)
(* What is behind the first character that does not fit is not written,    *)
(* and nothing is stripped.                                                *)
unparseString(v, set) ==
  IF Kind(v) # "string" THEN <<>> ELSE SubSeq(v[2], 1, Span(v[2], LAMBDA c : InSet(set, c)))
unparseHostname(v) == IF Kind(v) # "string" THEN <<>> ELSE SubSeq(v[2], 1, Hostname(v[2]))
unparseUsername(v) == IF Kind(v) # "string" THEN <<>> ELSE SubSeq(v[2], 1, Username(v[2]))
unparseSeparator(text) == IF text = <<>> THEN <<>> ELSE <<text[1]>>

-----------------------------------------------------------------------------
(* AnyAgentComplex.cc, reading.  The state of a parse: the rest of the     *)
(* line (eof: there is no line), the number of the line, got_anything,     *)
(* tupleContinue, the stack of the tuples with the name and value that     *)
(* were read last, currentMatch, and the value that the last parser gave.  *)
getLineStart == [line |-> <<>>, eof |-> FALSE, n |-> 0, got |-> got, cont |-> FALSE,
                 tuples |-> <<>>, match |-> Null, v |-> Null]
RECURSIVE getLine(_, _)
getLine(lines, s) ==
  LET n == s.n + 1
      line == lines[n]
  IN  CASE n > Len(lines) -> [s EXCEPT !.n = n, !.line = <<>>, !.got = ~@, !.eof = s.got]
        [] n <= Len(lines) /\ (line = <<>> \/ (line[1] \in ToSet(d.comment) /\ ~d.fillup)) ->
             getLine(lines, [s EXCEPT !.n = n])
        [] OTHER -> [s EXCEPT !.n = n, !.line = line, !.got = TRUE, !.eof = FALSE]

Gives(s, v) == [s EXCEPT !.v = v]
Basic(s, r) == [s EXCEPT !.line = SubSeq(@, r.n + 1, Len(@)), !.v = r.v]
(* A local variable had the place in the line: it is as before.            *)
Back(s, t) == [t EXCEPT !.line = s.line, !.eof = s.eof]
Top(s) == s.tuples[1]
InTuple(s, name, v) == [s EXCEPT !.tuples = <<[name |-> name, v |-> v]>> \o Tail(@)]
NameOf(v) == IF Kind(v) = "string" THEN v[2] ELSE unparseNumber(v)
NoTuple == [name |-> <<>>, v |-> Null]

(* The terms without terms in them; an unknown one is nil.                 *)
parseLeaf(s, syn, optional) ==
  CASE syn.t = "Separator" -> Basic(s, parseSeparator(s.line, syn.text, optional))
    [] syn.t = "String" -> Basic(s, parseString(s.line, syn.text, IF syn.args = <<>> THEN <<>> ELSE syn.args[1].text))
    [] syn.t = "Number" -> Basic(s, parseNumber(s.line))
    [] syn.t = "Hexval" -> Basic(s, parseHexval(s.line))
    [] syn.t = "Boolean" -> Basic(s, parseBoolean(s.line))
    [] syn.t = "Ip4Number" -> Basic(s, parseIp4Number(s.line))
    [] syn.t = "Hostname" -> Basic(s, parseHostname(s.line))
    [] syn.t = "Username" -> Basic(s, parseUsername(s.line))
    [] OTHER -> Gives(s, Void)

RECURSIVE parseData(_, _, _, _), parseChoice(_, _, _, _), parseSequence(_, _, _, _, _), parseList(_, _, _, _, _),
          parseTuple(_, _, _, _, _, _), parseVar(_, _, _, _), parseOr(_, _, _, _), Fillup(_, _, _)
parseChoice(a, s, choices, optional) ==
  LET t == parseData(a, s, choices[1].args[1], FALSE)
      matched == [t EXCEPT !.match = t.v]
  IN  CASE choices = <<>> -> Gives(s, Null)
        [] choices # <<>> /\ t.v = Null -> parseChoice(a, Back(s, matched), Tail(choices), optional)
        [] OTHER -> IF Len(choices[1].args) > 1 THEN parseData(a, matched, choices[1].args[2], optional) ELSE matched
(* The result is the text from the start, which is in the first line.      *)
parseSequence(a, s, syns, optional, start) ==
  LET t == parseData(a, s, syns[1], optional)
  IN  CASE syns = <<>> -> Gives(s, Str(SubSeq(start, 1, Len(start) - Len(s.line))))
        [] syns # <<>> /\ t.v = Null -> t
        [] OTHER -> parseSequence(a, t, Tail(syns), optional, start)
parseList(a, s, syns, optional, list) ==
  LET t == parseData(a, s, syns[1], optional)
      new == IF t.v = Void THEN list ELSE Append(list, t.v)
      u == parseData(a, t, syns[2], FALSE)
  IN  CASE t.v = Null -> Gives(t, <<"list", list>>)
        [] t.v # Null /\ u.v = Null -> Gives(u, <<"list", new>>)
        [] OTHER -> parseList(a, u, syns, FALSE, new)
(* When the last element is read and a Continue was met, all begins anew,  *)
(* and is optional from now on.                                            *)
parseTuple(a, s, syns, i, optional, map) ==
  LET t == parseData(a, s, syns[i], optional)
      adds == t.tuples # <<>> /\ Top(t).name # <<>> /\ Top(t).v \notin {Null, Void}
      new == IF adds THEN (Top(t).name :> Top(t).v) @@ map ELSE map
      u == IF adds THEN InTuple(t, <<>>, Null) ELSE t
  IN  CASE i > Len(syns) -> Gives(s, <<"map", map>>)
        [] i <= Len(syns) /\ t.v = Null -> IF optional THEN Gives(t, <<"map", map>>) ELSE t
        [] i <= Len(syns) /\ t.v # Null /\ i = Len(syns) /\ u.cont ->
             parseTuple(a, [u EXCEPT !.cont = FALSE], syns, 1, TRUE, new)
        [] OTHER -> parseTuple(a, u, syns, i + 1, optional, new)
parseVar(a, s, syns, optional) ==
  LET t == parseData(a, s, syns[1], optional)
  IN  IF syns = <<>> THEN Gives(s, Void) ELSE IF t.v = Null THEN Gives(t, Void) ELSE parseVar(a, t, Tail(syns), optional)
(* What an alternative took before it failed is not given back to the next *)
(* one.                                                                    *)
parseOr(a, s, syns, optional) ==
  LET t == parseData(a, s, syns[1], optional /\ Len(syns) = 1)
  IN  IF syns = <<>> THEN Gives(s, Null) ELSE IF t.v # Null THEN t ELSE parseOr(a, t, Tail(syns), optional)
Fillup(a, s, text) ==
  IF ~s.eof /\ s.line # <<>> /\ s.line[1] \in ToSet(d.comment) THEN Fillup(a, getLine(a, s), text \o s.line)
  ELSE Gives(InTuple(s, <<"FILLUP">>, Str(text)), Str(text))

parseData(a, before, syn, optional) ==
  LET s == IF before.eof \/ before.line = <<>> THEN getLine(a, before) ELSE before
      Arg(k, opt) == parseData(a, s, syn.args[k], opt)
      pushed == [s EXCEPT !.tuples = <<NoTuple>> \o @, !.cont = FALSE]
      tuple == parseTuple(a, pushed, syn.args, 1, optional, <<>>)
      tried == parseOr(a, s, syn.args, optional)
  IN  IF s.eof THEN Gives(s, Null)
      ELSE CASE syn.t = "string" -> Basic(s, parseVerbose(s.line, syn.text, optional))
        [] syn.t = "Optional" -> LET t == Arg(1, TRUE) IN IF t.v = Null THEN Gives(t, Void) ELSE t
        [] syn.t = "Continue" -> LET t == Arg(1, FALSE) IN [t EXCEPT !.cont = @ \/ t.v # Null]
        [] syn.t = "Choice" -> parseChoice(a, s, syn.args, optional)
        [] syn.t = "Sequence" -> parseSequence(a, s, syn.args, optional, s.line)
        [] syn.t = "List" -> parseList(a, s, syn.args, optional, <<>>)
        [] syn.t = "Tuple" -> [tuple EXCEPT !.tuples = Tail(@)]
        [] syn.t = "Var" -> parseVar(a, s, syn.args, optional)
        [] syn.t = "Name" ->
             LET t == Arg(1, FALSE)
             IN  IF ~d.readonly THEN Gives(s, Null)
                 ELSE IF t.v # Null /\ t.tuples # <<>> THEN InTuple(t, NameOf(t.v), Top(t).v) ELSE t
        [] syn.t = "Value" ->
             LET t == Arg(1, FALSE) IN IF t.v # Null /\ t.tuples # <<>> THEN InTuple(t, Top(t).name, t.v) ELSE t
        [] syn.t = "name" /\ s.tuples # <<>> ->
             LET t == parseData(a, InTuple(s, syn.text, Top(s).v), syn.args[1], optional) IN InTuple(t, Top(t).name, t.v)
        [] syn.t = "Fillup" /\ d.fillup /\ s.tuples # <<>> -> Fillup(a, s, <<>>)
        [] syn.t = "Skip" -> Gives(s, Void)
        [] syn.t = "Match" -> Gives(s, s.match)
        [] syn.t = "Or" -> IF tried.v = Null THEN Gives(Back(s, tried), Void) ELSE tried
        [] OTHER -> parseLeaf(s, syn, optional)

-----------------------------------------------------------------------------
(* AnyAgentComplex.cc, writing.  The empty text stands for failure.        *)
WritesNothing(syn) == syn.t \in {"Skip", "Fillup"}
unparseLeaf(syn, v) ==
  CASE syn.t = "Separator" -> unparseSeparator(syn.text)
    [] syn.t = "String" -> unparseString(v, syn.text)
    [] syn.t = "Number" -> unparseNumber(v)
    [] syn.t = "Boolean" -> unparseBoolean(v)
    [] syn.t = "Ip4Number" -> unparseIp4Number(v)
    [] syn.t = "Hostname" -> unparseHostname(v)
    [] syn.t = "Username" -> unparseUsername(v)
    [] OTHER -> <<>>
RECURSIVE unparseData(_, _), unparseList(_, _, _), unparseTuple(_, _, _)
unparseList(syns, list, i) ==
  LET data == unparseData(syns[1], list[i])
      last == i = Len(list)
      cont == IF last THEN <<>> ELSE unparseData(syns[2], Null)
  IN  IF i > Len(list) \/ data = <<>> \/ (~last /\ cont = <<>> /\ ~WritesNothing(syns[2])) THEN <<>>
      ELSE data \o cont \o unparseList(syns, list, i + 1)
unparseTuple(syns, v, i) ==
  LET data == unparseData(syns[i], v)
  IN  IF i > Len(syns) \/ (data = <<>> /\ ~WritesNothing(syns[i])) THEN <<>>
      ELSE data \o unparseTuple(syns, v, i + 1)
FillupOf(v) == IF d.fillup /\ <<"FILLUP">> \in DOMAIN v[2] THEN v[2][<<"FILLUP">>][2] ELSE <<>>
unparseData(syn, v) ==
  CASE syn.t = "string" -> syn.text
    [] syn.t \in {"Optional", "Value"} -> unparseData(syn.args[1], v)
    [] syn.t = "List" -> IF Kind(v) = "list" THEN unparseList(syn.args, v[2], 1) ELSE <<>>
    [] syn.t = "Tuple" -> IF Kind(v) = "map" THEN FillupOf(v) \o unparseTuple(syn.args, v, 1) ELSE <<>>
    [] syn.t = "name" ->
         IF Kind(v) = "map" /\ syn.text \in DOMAIN v[2] THEN unparseData(syn.args[1], v[2][syn.text]) ELSE <<>>
    [] syn.t = "Or" /\ Len(syn.args) = 2 ->
         LET first == unparseData(syn.args[1], v) IN IF first # <<>> THEN first ELSE unparseData(syn.args[2], v)
    [] OTHER -> unparseLeaf(syn, v)

-----------------------------------------------------------------------------
(* AnyAgent.cc.  The element of a path is a number or a key.               *)
RECURSIVE readValueByPath(_, _), findSyntax(_, _)
readValueByPath(v, path) ==
  LET p == path[1]
  IN  CASE path = <<>> -> v
        [] path # <<>> /\ p[1] = "number" /\ Kind(v) = "list" ->
             IF p[2] > Len(v[2]) THEN Void ELSE IF p[2] = Len(v[2]) THEN Null ELSE readValueByPath(v[2][p[2] + 1], Tail(path))
        [] path # <<>> /\ p[1] = "key" /\ Kind(v) = "map" ->
             IF p[2] \in DOMAIN v[2] THEN readValueByPath(v[2][p[2]], Tail(path)) ELSE Null
        [] OTHER -> Void
Elements(syn) == SelectSeq(syn.args, LAMBDA e : e.t = "name")
NoSyntax == Syn("none", <<>>, <<>>)
findSyntax(syn, path) ==
  LET p == path[1]
      named == SelectSeq(Elements(syn), LAMBDA e : e.text = p[2])
      next == CASE syn.t = "string" -> syn
                [] syn.t = "Tuple" /\ p[1] = "number" ->
                     IF p[2] < Len(Elements(syn)) THEN Elements(syn)[p[2] + 1].args[1] ELSE syn
                [] syn.t = "Tuple" /\ p[1] = "key" -> IF named # <<>> THEN named[1].args[1] ELSE syn
                [] syn.t = "List" /\ p[1] = "number" -> syn.args[1]
                [] OTHER -> NoSyntax
  IN  IF path = <<>> \/ syn = NoSyntax THEN syn ELSE findSyntax(next, Tail(path))

(* get_line: the file in lines that end with a newline.                    *)
RECURSIVE LinesOf(_)
LinesOf(text) ==
  LET n == Span(text, LAMBDA c : c # "\n")
      end == IF n < Len(text) THEN n + 1 ELSE n
  IN  IF text = <<>> THEN <<>> ELSE <<SubSeq(text, 1, end)>> \o LinesOf(SubSeq(text, end + 1, Len(text)))
Parse(lines, g) == parseData(lines, [getLineStart EXCEPT !.got = g], d.syntax, FALSE)

Init ==
  /\ d \in {Description(scr) : scr \in Descriptions}
  /\ \E t \in Texts[d.syntax] : disk = [f \in Files |-> [text |-> t, time |-> 1]]
  /\ clock = 1 /\ got = FALSE /\ ops = 0
  /\ agent = [mtime |-> 0, alldata |-> <<>>, cache |-> Null, cchanged |-> TRUE]
  /\ answer = [op |-> "none", file |-> "", path |-> <<>>, v |-> Null, stale |-> FALSE]

(* readFile and validateCache.  A program is run for every Read.           *)
ReadOnce(f) ==   \* mutant: the time of the file is not compared
  IF ~d.program /\ agent.mtime # 0 THEN agent
  ELSE [agent EXCEPT !.mtime = IF d.program THEN 0 ELSE disk[f].time, !.alldata = LinesOf(disk[f].text)]
readFile(f) ==
  IF ~d.program /\ disk[f].time = agent.mtime THEN agent
  ELSE [agent EXCEPT !.mtime = IF d.program THEN 0 ELSE disk[f].time, !.alldata = LinesOf(disk[f].text)]
validateCache(ag) ==
  LET r == Parse(ag.alldata, got)
  IN  /\ agent' = IF r.v = Null THEN [ag EXCEPT !.cchanged = TRUE] ELSE [ag EXCEPT !.cache = r.v, !.cchanged = FALSE]
      /\ got' = r.got
Answer(op, f, path, v) == answer' = [op |-> op, file |-> f, path |-> path, v |-> v, stale |-> FALSE]

Read(f, path) ==
  LET ag == readFile(f)
      v == Parse(ag.alldata, got).v
  IN  /\ validateCache(ag)
      /\ answer' = [op |-> "read", file |-> f, path |-> path, v |-> IF v = Null THEN Null ELSE readValueByPath(v, path),
                    stale |-> agent.mtime = disk[f].time /\ ag.alldata # LinesOf(disk[f].text)]
      /\ UNCHANGED <<d, disk, clock, ops>>

(* The text of the value becomes the file, also when the path names only a *)
(* part of it.                                                             *)
Tick == clock' \in {clock, clock + 1}
Write(f, path, v) ==
  LET text == unparseData(findSyntax(d.syntax, path), v)
      opens == ~d.readonly /\ text # <<>>
  IN  /\ ops < MaxOps /\ ops' = ops + 1 /\ Tick
      /\ \/ /\ opens
            /\ disk' = [disk EXCEPT ![f] = [text |-> Append(text, "\n"), time |-> clock']]
            /\ Answer("wrote", f, path, v)
         \/ UNCHANGED disk /\ Answer("failed", f, path, v)
      /\ UNCHANGED <<d, agent, got>>
(* ._: the lines, which are not written to the file.                       *)
WriteLines(lines) ==
  /\ ~d.readonly /\ ops < MaxOps /\ ops' = ops + 1
  /\ IF agent.cchanged THEN validateCache([agent EXCEPT !.alldata = lines]) ELSE UNCHANGED <<agent, got>>
  /\ Answer("lines", "", <<>>, Null)
  /\ UNCHANGED <<d, disk, clock>>
Edit(f) ==
  /\ ops < MaxOps /\ ops' = ops + 1 /\ Tick
  /\ \E t \in Edits[d.syntax] : disk' = [disk EXCEPT ![f] = [text |-> t, time |-> clock']]
  /\ Answer("edit", f, <<>>, Null)
  /\ UNCHANGED <<d, agent, got>>

ValuesOf == {Parse(LinesOf(t), FALSE).v : t \in Texts[d.syntax]} \ {Null}
Next ==
  \/ \E f \in Files :
       \/ \E path \in {<<>>} \cup d.paths : Read(f, path)
       \/ \E v \in ValuesOf : \/ Write(f, <<>>, v)
                             \/ \E path \in d.paths : Write(f, path, readValueByPath(v, path))
       \/ Edit(f)
  \/ \E t \in Edits[d.syntax] : WriteLines(LinesOf(t))
Spec == Init /\ [][Next]_vars

-----------------------------------------------------------------------------
(* What Read gives is what the syntax says about the file as it is now,    *)
(* whatever was read or written before: if the change of the file can be   *)
(* seen from its time, and the file has a line that is no comment.         *)
HasLines(f) == \E i \in DOMAIN LinesOf(disk[f].text) : LinesOf(disk[f].text)[i][1] \notin ToSet(d.comment)
ReadIsCurrent ==
  answer.op = "read" /\ answer.path = <<>> /\ ~answer.stale /\ HasLines(answer.file) =>
    answer.v = Parse(LinesOf(disk[answer.file].text), FALSE).v

(* A value that was read and then written as a whole is read again from    *)
(* the file that was written, if no tuple of it lacks an element: with one *)
(* that does unparseData ends the line and the list there.                 *)
RECURSIVE Fits(_, _)
Fits(syn, v) ==
  CASE syn.t = "List" -> v[2] # <<>> /\ \A i \in DOMAIN v[2] : Fits(syn.args[1], v[2][i])
    [] syn.t = "Tuple" -> \A i \in DOMAIN syn.args : Fits(syn.args[i], v)
    [] syn.t = "name" -> syn.text \in DOMAIN v[2] /\ Fits(syn.args[1], v[2][syn.text])
    [] syn.t = "Or" -> \E i \in DOMAIN syn.args : Fits(syn.args[i], v)
    [] OTHER -> TRUE
WrittenIsRead ==
  answer.op = "wrote" /\ answer.path = <<>> /\ Fits(d.syntax, answer.v) => Parse(LinesOf(disk[answer.file].text), FALSE).v = answer.v
=============================================================================
