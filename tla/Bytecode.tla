------------------------------- MODULE Bytecode ------------------------------
(***************************************************************************)
(* Compiled files (Bytecode.cc and the stream constructors and toStream    *)
(* functions of YCode, YExpression, YStatement, YBlock and YSymbolEntry):  *)
(* what is written for a program, and how a process that loads clients,    *)
(* with the modules they import, reads it back.                            *)
(*                                                                         *)
(* Code is a tuple that starts with the name of its class; a variable or   *)
(* function in it is an entry [ns, name] of a block or an imported module. *)
(* In a file an entry is the place of its namespace on a stack and its     *)
(* place in the namespace, so what is read depends on that static stack.   *)
(***************************************************************************)
EXTENDS Integers, Sequences, SequencesExt, FiniteSets

CONSTANTS
  Programs,     \* [names of files -> what may be on disk: <<written code, what it reads as>>]
  Clients,      \* the files that are run; the others are modules
  MaxLoads      \* bound: clients loaded

VARIABLES
  disk,         \* the version of each file, 0 if there is none
  stack,        \* m_namespace_nesting_array
  tare,         \* m_namespace_tare_level
  active,       \* Import's active modules with what they export, and
  cache,        \* the modules that readModule has read
  xrefs,        \* the open lists of references into each module
  loads         \* the clients loaded and what was read

vars == <<disk, stack, tare, active, cache, xrefs, loads>>

Null == <<"null">>
Freed == <<"freed", 0>>
NoEntry == [ns |-> Freed, name |-> "none"]
Module == DOMAIN Programs \ Clients

-----------------------------------------------------------------------------
(* What the classes write, field by field, and what they read.  A field is *)
(* something written as it is ("leaf"), code, a list of code, code that    *)
(* may be missing, an entry, or ("dropped") a type that is read but not    *)
(* kept.                                                                   *)
Leaf(x) == <<"leaf", x>>
Code(c) == <<"code", c>>
Codes(cs) == <<"codes", cs>>
Opt(c) == <<"opt", c>>
Entry(x) == <<"entry", x>>

YConst_toStream(c) == <<Leaf(c[2])>>
YConst_stream == <<"leaf">>
YLocale_toStream(c) == <<Leaf(c[2]), Leaf(c[3])>>
YLocale_stream == <<"leaf", "leaf">>
YEVariable_toStream(c) == <<Entry(c[2])>>
YEVariable_stream == <<"entry">>
YEReference_toStream(c) == <<Entry(c[2])>>
YEReference_stream == <<"entry">>
YETerm_toStream(c) == <<Leaf(c[2]), Codes(c[3])>>
YETerm_stream == <<"leaf", "codes">>
YECompare_toStream(c) == <<Code(c[2]), Leaf(c[3]), Code(c[4])>>
YECompare_stream == <<"code", "leaf", "code">>
YELocale_toStream(c) == <<Leaf(c[2]), Leaf(c[3]), Code(c[4]), Leaf(c[5])>>
YELocale_stream == <<"leaf", "leaf", "code", "leaf">>
YEList_toStream(c) == <<Codes(c[2])>>
YEList_stream == <<"codes">>
YEMap_toStream(c) == <<<<"pairs", c[2]>>>>
YEMap_stream == <<"pairs">>
YEPropagate_toStream(c) == <<Leaf(c[2]), Leaf(c[3]), Code(c[4])>>
YEPropagate_stream == <<"leaf", "leaf", "code">>
YEUnary_toStream(c) == <<Leaf(c[2]), Code(c[3])>>
YEUnary_stream == <<"leaf", "code">>
YEBinary_toStream(c) == <<Leaf(c[2]), Code(c[3]), Code(c[4])>>
YEBinary_stream == <<"leaf", "code", "code">>
YETriple_toStream(c) == <<Code(c[2]), Code(c[3]), Code(c[4])>>
YETriple_stream == <<"code", "code", "code">>
YEIs_toStream(c) == <<Leaf(c[2]), Code(c[3])>>
YEIs_stream == <<"leaf", "code">>
YEReturn_toStream(c) == <<Code(c[2])>>
YEReturn_stream == <<"code">>
YEBracket_toStream(c) == <<Code(c[2]), Code(c[3]), Code(c[4]), Leaf(c[5])>>
YEBracket_stream == <<"code", "code", "code", "dropped">>
YECall_toStream(c) == <<Entry(c[2]), Codes(c[3])>>
YECall_stream == <<"entry", "codes">>

(* Statements: the line comes first.                                       *)
YStatement_toStream(c) == <<Leaf(c[2])>>
YStatement_stream == <<"leaf">>
YSExpression_toStream(c) == <<Code(c[3])>>
YSExpression_stream == <<"code">>
YSBlock_toStream(c) == <<Code(c[3])>>
YSBlock_stream == <<"code">>
YSReturn_toStream(c) == <<Opt(c[3])>>
YSReturn_stream == <<"opt">>
YSTypedef_toStream(c) == <<Leaf(c[3]), Leaf(c[4])>>
YSTypedef_stream == <<"leaf", "leaf">>
YSAssign_toStream(c) == <<Entry(c[3]), Code(c[4])>>
YSAssign_stream == <<"entry", "code">>
YSBracket_toStream(c) == <<Entry(c[3]), Code(c[4]), Code(c[5])>>
YSBracket_stream == <<"entry", "code", "code">>
YSIf_toStream(c) == <<Code(c[3]), Opt(c[4]), Opt(c[5])>>
YSIf_stream == <<"code", "opt", "opt">>
YSWhile_toStream(c) == <<Code(c[3]), Opt(c[4])>>
YSWhile_stream == <<"code", "opt">>
YSRepeat_toStream(c) == <<Opt(c[3]), Code(c[4])>>
YSRepeat_stream == <<"opt", "code">>
YSDo_toStream(c) == <<Opt(c[3]), Code(c[4])>>
YSDo_stream == <<"opt", "code">>
YSTextdomain_toStream(c) == <<Leaf(c[3])>>
YSTextdomain_stream == <<"leaf">>
YSInclude_toStream(c) == <<Leaf(c[3]), Leaf(c[4])>>
YSInclude_stream == <<"leaf", "leaf">>
YSFilename_toStream(c) == <<Leaf(c[3])>>
YSFilename_stream == <<"leaf">>
YSSwitch_toStream(c) == <<Code(c[3]), Leaf(c[4]), Leaf(c[5]), Code(c[6])>>
YSSwitch_stream == <<"code", "leaf", "leaf", "code">>

Written(c) ==
  CASE c[1] = "YConst" -> YConst_toStream(c)            [] c[1] = "YLocale" -> YLocale_toStream(c)
    [] c[1] = "YEVariable" -> YEVariable_toStream(c)    [] c[1] = "YEReference" -> YEReference_toStream(c)
    [] c[1] = "YETerm" -> YETerm_toStream(c)            [] c[1] = "YECompare" -> YECompare_toStream(c)
    [] c[1] = "YELocale" -> YELocale_toStream(c)        [] c[1] = "YEList" -> YEList_toStream(c)
    [] c[1] = "YEMap" -> YEMap_toStream(c)              [] c[1] = "YEPropagate" -> YEPropagate_toStream(c)
    [] c[1] = "YEUnary" -> YEUnary_toStream(c)          [] c[1] = "YEBinary" -> YEBinary_toStream(c)
    [] c[1] = "YETriple" -> YETriple_toStream(c)        [] c[1] = "YEIs" -> YEIs_toStream(c)
    [] c[1] = "YEReturn" -> YEReturn_toStream(c)        [] c[1] = "YEBracket" -> YEBracket_toStream(c)
    [] c[1] \in {"YEFunction", "YEFunctionPointer"} -> YECall_toStream(c)
    [] OTHER -> YStatement_toStream(c) \o
         CASE c[1] = "YSExpression" -> YSExpression_toStream(c)  [] c[1] = "YSBlock" -> YSBlock_toStream(c)
           [] c[1] = "YSReturn" -> YSReturn_toStream(c)          [] c[1] = "YSTypedef" -> YSTypedef_toStream(c)
           [] c[1] \in {"YSAssign", "YSVariable"} -> YSAssign_toStream(c)
           [] c[1] = "YSBracket" -> YSBracket_toStream(c)        [] c[1] = "YSIf" -> YSIf_toStream(c)
           [] c[1] = "YSWhile" -> YSWhile_toStream(c)            [] c[1] = "YSRepeat" -> YSRepeat_toStream(c)
           [] c[1] = "YSDo" -> YSDo_toStream(c)                  [] c[1] = "YSTextdomain" -> YSTextdomain_toStream(c)
           [] c[1] = "YSInclude" -> YSInclude_toStream(c)        [] c[1] = "YSFilename" -> YSFilename_toStream(c)
           [] c[1] = "YSSwitch" -> YSSwitch_toStream(c)          [] c[1] \in {"YSBreak", "YSContinue"} -> <<>>
Format(k) ==
  CASE k = "YConst" -> YConst_stream            [] k = "YLocale" -> YLocale_stream
    [] k = "YEVariable" -> YEVariable_stream    [] k = "YEReference" -> YEReference_stream
    [] k = "YETerm" -> YETerm_stream            [] k = "YECompare" -> YECompare_stream
    [] k = "YELocale" -> YELocale_stream        [] k = "YEList" -> YEList_stream
    [] k = "YEMap" -> YEMap_stream              [] k = "YEPropagate" -> YEPropagate_stream
    [] k = "YEUnary" -> YEUnary_stream          [] k = "YEBinary" -> YEBinary_stream
    [] k = "YETriple" -> YETriple_stream        [] k = "YEIs" -> YEIs_stream
    [] k = "YEReturn" -> YEReturn_stream        [] k = "YEBracket" -> YEBracket_stream
    [] k \in {"YEFunction", "YEFunctionPointer"} -> YECall_stream
    [] OTHER -> YStatement_stream \o
         CASE k = "YSExpression" -> YSExpression_stream  [] k = "YSBlock" -> YSBlock_stream
           [] k = "YSReturn" -> YSReturn_stream          [] k = "YSTypedef" -> YSTypedef_stream
           [] k \in {"YSAssign", "YSVariable"} -> YSAssign_stream
           [] k = "YSBracket" -> YSBracket_stream        [] k = "YSIf" -> YSIf_stream
           [] k = "YSWhile" -> YSWhile_stream            [] k = "YSRepeat" -> YSRepeat_stream
           [] k = "YSDo" -> YSDo_stream                  [] k = "YSTextdomain" -> YSTextdomain_stream
           [] k = "YSInclude" -> YSInclude_stream        [] k = "YSFilename" -> YSFilename_stream
           [] k = "YSSwitch" -> YSSwitch_stream          [] k \in {"YSBreak", "YSContinue"} -> <<>>

-----------------------------------------------------------------------------
(* Writing.  st holds the open namespaces, [ns, names, module], the first  *)
(* one outermost.  A block is <<"YBlock", ns, kind, symbols, table,        *)
(* statements>>: its symbols are [name, global, function, type], table has  *)
(* a row [name, decl] for every global symbol, decl the parameter block of *)
(* a function or <<>>.  The namespace of an imported module m is <<m, 0>>. *)

NameSpace(b) == [ns |-> b[2], names |-> [i \in DOMAIN b[4] |-> b[4][i].name], module |-> FALSE]

writeEntry(x, st) ==
  LET id == SelectInSeq(st, LAMBDA n : n.ns = x.ns)
      place == SelectInSeq(st[id].names, LAMBDA n : n = x.name) - 1
  IN  <<id - 1, IF st[id].module THEN -place - 1 ELSE place>>

RECURSIVE toStream(_, _)
writeYCodelist(cs, st) == <<Len(cs)>> \o FlattenSeq([i \in DOMAIN cs |-> toStream(cs[i], st)])
Maybe(c, st) == IF c = <<>> THEN <<FALSE>> ELSE <<TRUE>> \o toStream(c, st)
Put(f, st) ==
  CASE f[1] = "leaf"  -> <<f[2]>>
    [] f[1] = "code"  -> toStream(f[2], st)
    [] f[1] = "codes" -> writeYCodelist(f[2], st)
    [] f[1] = "pairs" -> <<Len(f[2])>> \o FlattenSeq([i \in DOMAIN f[2] |-> toStream(f[2][i][1], st) \o toStream(f[2][i][2], st)])
    [] f[1] = "opt"   -> Maybe(f[2], st)
    [] f[1] = "entry" -> writeEntry(f[2], st)

HasParameters(decl) == decl # <<>> /\ decl[4] # <<>>
YFunction_toStream(decl, st) == <<"YFunction">> \o Maybe(IF HasParameters(decl) THEN decl ELSE <<>>, st)
YFunction_toStreamDefinition(decl, def, st) ==
  Maybe(def, IF HasParameters(decl) THEN Append(st, NameSpace(decl)) ELSE st)
YSFunction_toStream(c, global, st) ==
  <<"YSFunction", c[2]>> \o writeEntry(c[3], st) \o (IF global THEN <<>> ELSE YFunction_toStream(c[4], st))
    \o YFunction_toStreamDefinition(c[4], c[5], st)

(* foreach and the like: the block of the symbols is open while the        *)
(* parameters are written.                                                 *)
YEBuiltin_toStream(c, st) ==
  <<"YEBuiltin", c[2], c[3]>> \o Maybe(c[4], st)
    \o writeYCodelist(c[5], IF c[4] = <<>> THEN st ELSE Append(st, NameSpace(c[4])))

TableEntry_toStream(row, functions, ns, st) ==
  writeEntry([ns |-> ns, name |-> row.name], st) \o (IF row.name \in functions THEN YFunction_toStream(row.decl, st) ELSE <<>>)

(* writeUsage: the names that the file uses of the module.                 *)
YSImport_toStream(c) == <<"YSImport", c[2], c[3], Len(c[4])>> \o FlattenSeq([i \in DOMAIN c[4] |-> <<c[4][i].name, c[4][i].type>>])

YBlock_toStream(b, st) ==
  LET own == Append(st, NameSpace(b))
      Having(P(_)) == {b[4][i].name : i \in {j \in DOMAIN b[4] : P(b[4][j])}}
      global == Having(LAMBDA s : s.global)  functions == Having(LAMBDA s : s.function)
      symbols == FlattenSeq([i \in DOMAIN b[4] |-> <<b[4][i].name, b[4][i].global, b[4][i].function, b[4][i].type>>])
      table == <<Len(b[5])>> \o FlattenSeq([i \in DOMAIN b[5] |-> TableEntry_toStream(b[5][i], functions, b[2], own)])
      Statement(a, s) ==
        CASE s[1] = "YSImport" -> [out |-> a.out \o YSImport_toStream(s),
                                   st |-> Append(a.st, [ns |-> <<s[3], 0>>, module |-> TRUE, names |-> [i \in DOMAIN s[4] |-> s[4][i].name]])]
          [] s[1] = "YSFunction" -> [a EXCEPT !.out = @ \o YSFunction_toStream(s, s[3].name \in global, a.st)]
          [] OTHER -> [a EXCEPT !.out = @ \o toStream(s, a.st)]
  IN  <<"YBlock", b[3], Len(b[4])>> \o symbols \o (IF b[3] = "module" /\ b[4] # <<>> THEN table ELSE <<>>)
        \o <<Len(b[6])>> \o FoldLeft(Statement, [out |-> <<>>, st |-> own], b[6]).out

toStream(c, st) ==
  CASE c[1] = "YBlock" -> YBlock_toStream(c, st)
    [] c[1] = "YEBuiltin" -> YEBuiltin_toStream(c, st)
    [] OTHER -> <<c[1]>> \o LET fs == Written(c) IN FlattenSeq([i \in DOMAIN fs |-> Put(fs[i], st)])
writeFile(c) == toStream(c, <<>>)

-----------------------------------------------------------------------------
(* Reading.  r is the state of the reading process: in, what is left of    *)
(* the file; file and n, from which the blocks read get their names; st,   *)
(* tare, active, cache and xrefs; names, the symbols of the namespaces;    *)
(* protos, the parameter blocks of the global functions.  bad is "invalid" *)
(* once Bytecode::Invalid is thrown, and "undefined" when the code goes on *)
(* with a null pointer or in the middle of a field.                        *)

Fail(r, how) == [r EXCEPT !.bad = how]
Give(v, r) == [v |-> v, r |-> r]
Next1(r) == Head(r.in)
Skip(r) == [r EXCEPT !.in = Tail(@)]

pushNamespace(r, ns, module) ==
  [r EXCEPT !.st = Append(@, [ns |-> ns, module |-> module]), !.xrefs[ns] = IF module THEN Append(@, <<>>) ELSE @]
Popped(r) ==
  LET top == Last(r.st) IN [r EXCEPT !.st = Front(@), !.xrefs[top.ns] = IF top.module THEN Front(@) ELSE @]
popNamespace(r, ns) == IF Len(r.st) > r.tare /\ Last(r.st).ns = ns THEN Popped(r) ELSE r
RECURSIVE popUptoNamespace(_, _)
PopTop(r, ns) == IF Len(r.st) <= r.tare THEN r ELSE Popped(r)   \* mutant: what was imported stays
popUptoNamespace(r, ns) ==
  IF Len(r.st) <= r.tare THEN r ELSE IF Last(r.st).ns = ns THEN Popped(r) ELSE popUptoNamespace(Popped(r), ns)

tareStack(r) == [r EXCEPT !.tare = Len(r.st)]
untareStack(r, tare_id) == [r EXCEPT !.tare = @ - tare_id]

namespacePtr(r, id) == IF id >= 0 /\ r.tare + id + 1 \in DOMAIN r.st THEN <<r.st[r.tare + id + 1]>> ELSE <<>>
References(r, ns) == IF r.xrefs[ns] = <<>> THEN <<>> ELSE Last(r.xrefs[ns])
EntryAt(ns, k, list) == IF k \in DOMAIN list THEN [ns |-> ns, name |-> list[k]] ELSE NoEntry
EntryIn(found, place, r) ==
  CASE found = <<>> -> Give(NoEntry, r)
    [] found # <<>> /\ found[1].ns = Freed -> Give(NoEntry, Fail(r, "undefined"))
    [] OTHER -> Give(IF place < 0 THEN EntryAt(found[1].ns, -place, References(r, found[1].ns))
                                  ELSE EntryAt(found[1].ns, place + 1, r.names[found[1].ns]), r)
readEntry(r) == EntryIn(namespacePtr(r, r.in[1]), r.in[2], [r EXCEPT !.in = SubSeq(@, 3, Len(@))])

RECURSIVE readCode(_)
RECURSIVE ReadCodes(_, _, _)
ReadCodes(n, r, cs) ==
  IF n = 0 \/ r.bad # "no" THEN Give(cs, r) ELSE LET c == readCode(r) IN ReadCodes(n - 1, c.r, Append(cs, c.v))
readYCodelist(r) == ReadCodes(Next1(r), Skip(r), <<>>)
ReadMaybe(r) == IF Next1(r) THEN readCode(Skip(r)) ELSE Give(<<>>, Skip(r))
Pairs(l) == Give([i \in 1..(Len(l.v) \div 2) |-> <<l.v[2 * i - 1], l.v[2 * i]>>], l.r)
Get(f, r) ==
  CASE f = "leaf"    -> Give(Next1(r), Skip(r))
    [] f = "dropped" -> Give("void", Skip(r))
    [] f = "code"    -> readCode(r)
    [] f = "codes"   -> readYCodelist(r)
    [] f = "pairs"   -> Pairs(ReadCodes(2 * Next1(r), Skip(r), <<>>))
    [] f = "opt"     -> ReadMaybe(r)
    [] f = "entry"   -> readEntry(r)
With(a, g) == Give(Append(a.v, g.v), g.r)
ReadFields(fs, r0) ==
  FoldLeft(LAMBDA a, f : IF a.r.bad # "no" THEN a ELSE With(a, Get(f, a.r)), r0, fs)
YECall_checked(all) ==
  IF all.v[1] = "YEFunction" /\ all.r.bad = "no" /\ all.v[2] = NoEntry THEN Give(Null, Fail(all.r, "undefined")) ELSE all

Opened(r, b) == IF b = <<>> THEN r ELSE pushNamespace(r, b[2], FALSE)
Closed(r, b) == IF b = <<>> THEN r ELSE popNamespace(r, b[2])

BuiltinArgs(name, block, cs) == Give(<<"YEBuiltin", "void", name, block, cs.v>>, Closed(cs.r, block))
BuiltinOver(name, block) ==
  IF block.r.bad # "no" THEN block ELSE BuiltinArgs(name, block.v, readYCodelist(Opened(block.r, block.v)))
YEBuiltin_stream(r) == BuiltinOver(r.in[2], ReadMaybe(Skip(Skip(r))))

YFunction_stream(r) == ReadMaybe(Skip(r))
Defined(decl, def) == IF def.r.bad # "no" THEN def ELSE Give(def.v, Closed(def.r, decl))
YFunction_setDefinition(decl, r) == Defined(decl, ReadMaybe(Opened(r, decl)))
FunctionAs(line, x, decl, def) == Give(<<"YSFunction", line, x, decl, def.v>>, def.r)
FunctionWith(line, x, decl) ==
  IF decl.r.bad # "no" THEN decl ELSE FunctionAs(line, x, decl.v, YFunction_setDefinition(decl.v, decl.r))
FunctionOf(line, x) ==
  IF x.v = NoEntry THEN Give(Null, Fail(x.r, "undefined"))
  ELSE FunctionWith(line, x.v, IF x.v \in DOMAIN x.r.protos THEN Give(x.r.protos[x.v], x.r) ELSE YFunction_stream(x.r))
YSFunction_stream(r) == FunctionOf(r.in[1], readEntry(Skip(r)))

(* The names a file uses of a module must be there, with their types.      *)
RECURSIVE readModule(_, _)
import(m, r) == IF m \in DOMAIN r.active THEN Give(TRUE, r) ELSE readModule(m, r)
Filled(m, r, uses) == [r EXCEPT !.xrefs[<<m, 0>>] = Append(Front(@), [i \in DOMAIN uses |-> uses[i].name])]
Usage(line, m, r, uses, wrong) ==
  IF wrong = 0 THEN Give(<<"YSImport", line, m, uses>>, Filled(m, r, uses))
  ELSE Give(Null, Fail(Filled(m, r, SubSeq(uses, 1, wrong - 1)), "invalid"))
ReadUsage(line, m, r, uses) ==
  Usage(line, m, r, uses,
        SelectInSeq(uses, LAMBDA u : ~(u.name \in DOMAIN r.active[m] /\ r.active[m][u.name] = u.type)))
Imported(line, m, n, done) ==
  IF ~done.v THEN Give(Null, IF done.r.bad = "no" THEN Fail(done.r, "invalid") ELSE done.r)
  ELSE ReadUsage(line, m, pushNamespace([done.r EXCEPT !.in = SubSeq(@, 2 * n + 2, Len(@))], <<m, 0>>, TRUE),
                 [i \in 1..n |-> [name |-> done.r.in[2 * i], type |-> done.r.in[2 * i + 1]]])
YSImport_stream(r) == LET done == import(r.in[2], Skip(Skip(r))) IN Imported(r.in[1], r.in[2], Next1(done.r), done)

Row(a, x, f) == Give(Append(a.v, [name |-> x.name, decl |-> f.v]), f.r)
Prototype(x, f) == Give(f.v, [f.r EXCEPT !.protos = [y \in DOMAIN @ \cup {x} |-> IF y = x THEN f.v ELSE @[y]]])
RowOf(a, x) == Row(a, x.v, IF x.v \in x.r.functions THEN Prototype(x.v, YFunction_stream(x.r)) ELSE Give(<<>>, x.r))
TableEntry_stream(a, k) == RowOf(a, readEntry(a.r))

Statement(a, s) == IF s.v = Null /\ s.r.bad = "no" THEN Give(a.v, Fail(s.r, "invalid")) ELSE With(a, s)
RECURSIVE Statements(_, _)
Statements(n, a) == IF n = 0 \/ a.r.bad # "no" THEN a ELSE Statements(n - 1, Statement(a, readCode(a.r)))
BlockOf(ns, kind, symbols, table, body) ==
  IF body.r.bad # "no" THEN body
  ELSE Give(<<"YBlock", ns, kind, symbols, table, body.v>>, popUptoNamespace(body.r, ns))
BlockBody(ns, kind, symbols, table) ==
  IF table.r.bad # "no" THEN table
  ELSE BlockOf(ns, kind, symbols, table.v, Statements(Next1(table.r), Give(<<>>, Skip(table.r))))
BlockTable(ns, kind, symbols, r) ==
  BlockBody(ns, kind, symbols,
            IF kind = "module" /\ symbols # <<>>
              THEN FoldLeft(TableEntry_stream, Give(<<>>, Skip(r)), [k \in 1..Next1(r) |-> k])
              ELSE Give(<<>>, r))
BlockSymbols(ns, symbols, r) ==
  [r EXCEPT !.n = @ + 1, !.in = SubSeq(@, 4 * Len(symbols) + 3, Len(@)),
            !.functions = @ \cup {[ns |-> ns, name |-> s.name] : s \in {t \in Range(symbols) : t.function}},
            !.names[ns] = [i \in DOMAIN symbols |-> symbols[i].name]]
BlockWith(ns, symbols, r) == BlockTable(ns, r.in[1], symbols, pushNamespace(BlockSymbols(ns, symbols, r), ns, FALSE))
YBlock_stream(r) ==
  BlockWith(<<r.file, r.n + 1>>,
            [i \in 1..r.in[2] |-> [name |-> r.in[4 * i - 1], global |-> r.in[4 * i], function |-> r.in[4 * i + 1],
                                     type |-> r.in[4 * i + 2]]], r)

CodeOf(k, r) ==
  CASE k = "YBlock"     -> YBlock_stream(r)
    [] k = "YEBuiltin"  -> YEBuiltin_stream(r)
    [] k = "YSFunction" -> YSFunction_stream(r)
    [] k = "YSImport"   -> YSImport_stream(r)
    [] OTHER            -> YECall_checked(ReadFields(Format(k), Give(<<k>>, r)))
readCode(r) == CodeOf(Next1(r), Skip(r))

(* A file that is not there, or whose reading throws Invalid, gives Null;  *)
(* the namespaces that were open stay on the stack, though the blocks are  *)
(* destroyed.                                                              *)
Unwound(st, from) == [i \in DOMAIN st |-> IF i > from /\ ~st[i].module THEN [st[i] EXCEPT !.ns = Freed] ELSE st[i]]
Back(r, s) == [s EXCEPT !.in = r.in, !.file = r.file, !.n = r.n]
FileRead(r, all) ==
  IF all.r.bad = "invalid" THEN Give(Null, [Back(r, all.r) EXCEPT !.bad = "no", !.st = Unwound(@, Len(r.st))])
  ELSE Give(all.v, Back(r, all.r))
readFile(f, r) ==
  IF disk[f] = 0 THEN Give(Null, r)
  ELSE FileRead(r, readCode([r EXCEPT !.in = writeFile(Programs[f][disk[f]].written), !.file = f, !.n = 0]))

Exports(b) ==
  LET rows == {b[5][i].name : i \in DOMAIN b[5]}
  IN  [n \in rows |-> LET i == CHOOSE j \in DOMAIN b[4] : b[4][j].name = n IN b[4][i].type]

(* The stack is tared, and untared unless reading failed.  Gives whether   *)
(* the module is there.                                                    *)
WithModule(f, m, v) == [x \in DOMAIN f \cup {m} |-> IF x = m THEN v ELSE f[x]]
Kept(m, block, r) ==
  [r EXCEPT !.cache = WithModule(@, m, block), !.active = WithModule(@, m, Exports(block)), !.names[<<m, 0>>] = NameSpace(block).names]
ModuleRead(m, tare_id, read) ==
  IF read.r.bad # "no" \/ read.v = Null THEN Give(FALSE, read.r)
  ELSE Give(TRUE, Kept(m, read.v, untareStack(read.r, tare_id)))
readModule(m, r) ==
  CASE disk[m] = 0 -> Give(FALSE, r)
    [] disk[m] # 0 /\ m \in DOMAIN r.cache -> Give(TRUE, [r EXCEPT !.active = WithModule(@, m, Exports(r.cache[m]))])
    [] OTHER -> ModuleRead(m, Len(r.st) - r.tare, readFile(m, tareStack(r)))

-----------------------------------------------------------------------------
Spaces == ((DOMAIN Programs) \X (0..9)) \cup {Freed}
NoFunction == [x \in {} |-> x]
Reader ==
  [in |-> <<>>, file |-> "none", n |-> 0, st |-> stack, tare |-> tare, active |-> active, cache |-> cache, xrefs |-> xrefs,
   names |-> [s \in Spaces |-> IF s[2] = 0 /\ s[1] \in DOMAIN cache THEN NameSpace(cache[s[1]]).names ELSE <<>>],
   functions |-> {}, protos |-> NoFunction, bad |-> "no"]

Init ==
  /\ disk = [f \in DOMAIN Programs |-> 1] /\ stack = <<>> /\ tare = 0
  /\ active = NoFunction /\ cache = NoFunction /\ xrefs = [s \in Spaces |-> <<>>] /\ loads = <<>>

Dead == loads # <<>> /\ Last(loads).bad

(* A client is run: Y2CCWFM::createInLevel reads its file.                 *)
Loaded(f, read) ==
  /\ stack' = read.r.st /\ tare' = read.r.tare /\ active' = read.r.active /\ cache' = read.r.cache
  /\ xrefs' = read.r.xrefs
  /\ loads' = Append(loads, [client |-> f, version |-> disk[f], code |-> read.v, bad |-> read.r.bad = "undefined"])
  /\ UNCHANGED disk
LoadClient(f) == ~Dead /\ Len(loads) < MaxLoads /\ Loaded(f, readFile(f, Reader))

(* A module or a client is compiled anew or removed while the process runs. *)
Install(f, v) ==
  /\ ~Dead /\ v # disk[f] /\ v \in 0..Len(Programs[f])
  /\ disk' = [disk EXCEPT ![f] = v] /\ UNCHANGED <<stack, tare, active, cache, xrefs, loads>>

Next == (\E f \in Clients : LoadClient(f)) \/ (\E f \in DOMAIN Programs, v \in 0..2 : Install(f, v))
Spec == Init /\ [][Next]_vars

-----------------------------------------------------------------------------
AsWritten(l) == l.code = Programs[l.client][l.version].reads

(* While no load has failed, a client that is loaded is the program that   *)
(* was compiled: every entry is the symbol it was, across nested blocks,   *)
(* functions and modules that import each other's modules.                 *)
ClientsReadAsWritten ==
  (\A i \in DOMAIN loads : loads[i].code # Null) => \A i \in DOMAIN loads : AsWritten(loads[i]) /\ ~loads[i].bad

(* The same for modules, even after failed loads: readModule counts from   *)
(* the top of the stack.                                                   *)
ModulesReadAsWritten ==
  \A m \in DOMAIN cache : \E v \in DOMAIN Programs[m] : cache[m] = Programs[m][v].reads

(* "see YBlock::YBlock(str) for popUptoNamespace()": what reading a file   *)
(* opened is closed when it is read.                                       *)
NamespacesArePopped == stack = <<>> /\ tare = 0 /\ \A s \in Spaces : xrefs[s] = <<>>

(* As long as every load succeeds, nothing stays open.                     *)
SuccessLeavesNothingOpen == (\A i \in DOMAIN loads : loads[i].code # Null) => NamespacesArePopped

=============================================================================
