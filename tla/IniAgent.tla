------------------------------ MODULE IniAgent -------------------------------
(***************************************************************************)
(* The .ini agent (agent-ini/src): configuration files of sections and     *)
(* values that a client reads and changes in memory, that other programs   *)
(* edit on disk meanwhile, and that the agent merges and writes back.      *)
(*                                                                         *)
(* A file is a sequence of lines and each line is what the regular         *)
(* expressions of the agent's description see in it:                       *)
(*   <<"comment", c>>        a comment; c = 0 is an empty line             *)
(*   <<"begin", n, rule>>    a section header,  <<"end", n, rule>> its end *)
(*   <<"line", k, v, rule>>  a value                                       *)
(*   <<"multi", k, v, rule>> the first line of a value of two lines, whose *)
(*                           second line is <<"rest", v>>                  *)
(* rule is the place, from 0, of the rule that matches.  A value is a      *)
(* sequence of pieces joined by "nl" or "sp".                              *)
(***************************************************************************)
EXTENDS Integers, Sequences, FiniteSets, SequencesExt, TLC

CONSTANTS
  Descriptions,  \* the descriptions an agent may be mounted with
  SysConfigs,    \* files that may be mounted as sysconfig files
  Files,         \* file names; with rewrites, the file of a section is its name
  Edits,         \* contents other programs leave in a file
  Samples,       \* pairs of a description and a file it understands
  Names,         \* names of sections and values
  Values,        \* values that clients write
  Misfit,        \* a value that is not of the type asked for
  Void,          \* nil
  MaxClock,      \* seconds that may pass
  MaxOps         \* writes of the client, and edits of other programs

VARIABLES
  disk,      \* what is on disk: a function from the existing files to [lines, mtime]
  clock,     \* the time in seconds
  agent,     \* the state of the agent
  ops,       \* how many writes and edits were done
  written,   \* what the client wrote, or deleted (Void), since the last flush
  saved      \* what the flush just done was asked to write

vars == <<disk, clock, agent, ops, written, saved>>

-----------------------------------------------------------------------------
(* initMachine: what a description means.  A rule whose regular expression *)
(* does not compile is left out, except that a value rule without a valid  *)
(* multiline pattern keeps its match.                                      *)

Options(scr) == IF scr.multiple_files THEN scr.options \ {"ignore_case"} ELSE scr.options
SectionRules(scr) ==
  LET rules == SelectSeq(scr.sections, LAMBDA s : s.begin = "ok" /\ s.end # "bad")
  IN  [i \in DOMAIN rules |-> rules[i].end = "ok"]
ParamRules(scr) ==
  LET rules == SelectSeq(scr.params, LAMBDA p : p.match = "ok")
  IN  [i \in DOMAIN rules |-> rules[i].multiline = "ok"]
initMachine(scr) ==
  [options |-> Options(scr), sections |-> SectionRules(scr), params |-> ParamRules(scr),
   rewrites |-> scr.rewrites, multiple_files |-> scr.multiple_files]

(* generateSysConfigTemplate: the description of sysconfig files.          *)
SysConfigFile(file) ==
  [options |-> {"flat", "line_can_continue", "global_values", "join_multiline", "comments_last"},
   sections |-> <<>>, rewrites |-> <<>>, multiple_files |-> FALSE, file |-> file,
   params |-> <<[match |-> "ok", multiline |-> "ok"], [match |-> "ok", multiline |-> "ok"],
                [match |-> "ok", multiline |-> "none"]>>]

LowerCase == "A" :> "a"
changeCase(m, k) == IF "ignore_case" \in m.options /\ k \in DOMAIN LowerCase THEN LowerCase[k] ELSE k
repeatNames(m) == "repeat_names" \in m.options
isFlat(m) == "flat" \in m.options
sectionNeedsEnd(m, rule) == rule + 1 \in DOMAIN m.sections /\ m.sections[rule + 1]

-----------------------------------------------------------------------------
(* IniEntry and IniSection.  What is dirty was set by the client; the init *)
(* functions, which the parser uses, leave it alone.                       *)

IniEntry(k) == [type |-> "value", name |-> k, comment |-> <<>>, read_by |-> 0, dirty |-> FALSE, val |-> <<>>]
IniSection(k, rb, wb, dirty) ==
  [type |-> "section", name |-> k, comment |-> <<>>, read_by |-> rb, dirty |-> dirty, rewrite_by |-> wb,
   private |-> FALSE, end_comment |-> <<>>, container |-> <<>>]

InitAlways(e, k, c, rb, v) == [e EXCEPT !.name = k, !.comment = c, !.read_by = rb, !.val = v]   \* mutant: the parser overwrites what the client set
initEntry(e, k, c, rb, v) ==
  IF e.dirty THEN e ELSE [e EXCEPT !.name = k, !.comment = c, !.read_by = rb, !.val = v]

(* equal_range of the index: the places of the elements named k, in order. *)
equal_range(s, type, k) ==
  SelectSeq([i \in DOMAIN s.container |-> i], LAMBDA i : s.container[i].type = type /\ s.container[i].name = k)

(* A name that is there already is moved to the end, unless names repeat.  *)
Known(m, s, type, k) == IF repeatNames(m) THEN <<>> ELSE equal_range(s, type, k)
FirstOr(s, r, new) == IF r = <<>> THEN new ELSE s.container[r[1]]
MoveLast(s, r, e) == [s EXCEPT !.container = Append(IF r = <<>> THEN @ ELSE RemoveAt(@, r[1]), e)]

InitValueAt(s, r, k, v, comment, rb) == MoveLast(s, r, initEntry(FirstOr(s, r, IniEntry("")), k, comment, rb, v))
initValue(m, s, key, v, comment, rb) ==
  InitValueAt(s, Known(m, s, "value", changeCase(m, key)), changeCase(m, key), v, comment, rb)

Unchanged == -2
initOldSection(old, k, comment, rb, wb) ==
  IF old.dirty THEN old
  ELSE [old EXCEPT !.comment = comment, !.read_by = rb, !.name = k, !.rewrite_by = IF wb # Unchanged THEN wb ELSE @]
InitSectionAt(s, r, k, comment, rb, wb) ==
  MoveLast(s, r, initOldSection(FirstOr(s, r, IniSection("", -1, -1, FALSE)), k, comment, rb, wb))
initSection(m, s, name, comment, rb, wb) ==
  InitSectionAt(s, Known(m, s, "section", changeCase(m, name)), changeCase(m, name), comment, rb, wb)

setEndComment(s, c) ==
  IF s.comment = <<>> /\ s.container = <<>> THEN [s EXCEPT !.comment = c] ELSE [s EXCEPT !.end_comment = c]

RECURSIVE isDirty(_)
isDirty(s) == s.dirty \/ \E i \in DOMAIN s.container : s.container[i].type = "section" /\ isDirty(s.container[i])

RECURSIVE clean(_)
clean(s) ==
  IF s.type = "value" THEN [s EXCEPT !.dirty = FALSE]
  ELSE [s EXCEPT !.dirty = FALSE, !.container = [i \in DOMAIN @ |-> clean(@[i])]]

(* The section at a place: a sequence of positions from the outermost on.  *)
RECURSIVE SectionAt(_, _), WithSection(_, _, _)
SectionAt(s, place) == IF place = <<>> THEN s ELSE SectionAt(s.container[Head(place)], Tail(place))
WithSection(s, place, new) ==
  IF place = <<>> THEN new
  ELSE [s EXCEPT !.container[Head(place)] = WithSection(@, Tail(place), new)]

-----------------------------------------------------------------------------
(* parse_helper.  p.open is the place of the innermost open section: the   *)
(* list open_sections always goes from it out to the toplevel one.         *)

Scan(ini) == [ini |-> ini, open |-> <<>>, comment |-> <<>>, key |-> "", val |-> <<>>, rule |-> 0, multi |-> FALSE]

AddValue(m, p, k, v, rb) ==
  [p EXCEPT !.comment = <<>>,
     !.ini = IF p.open = <<>> /\ "global_values" \notin m.options THEN @
             ELSE WithSection(@, p.open, initValue(m, SectionAt(@, p.open), k, v, p.comment, rb))]

(* A new section closes the innermost one if that has no end line, or if   *)
(* sections may not nest.  A nested section that is not allowed is not     *)
(* entered: its values go to the section around it.                        *)
Closes(m, p) ==
  p.open # <<>> /\ (~sectionNeedsEnd(m, SectionAt(p.ini, p.open).read_by) \/ "no_nested_sections" \in m.options)
EnterSection(p, around, s) ==
  [p EXCEPT !.comment = <<>>, !.open = Append(around, Len(s.container)), !.ini = WithSection(@, around, s)]
BeginSectionIn(m, p, n, rule, around) ==
  IF around # <<>> /\ "no_nested_sections" \in m.options THEN [p EXCEPT !.comment = <<>>, !.open = around]
  ELSE EnterSection(p, around, initSection(m, SectionAt(p.ini, around), n, p.comment, rule, Unchanged))
BeginSection(m, p, n, rule) == BeginSectionIn(m, p, n, rule, IF Closes(m, p) THEN Front(p.open) ELSE p.open)

(* An end closes the section of its name, else the innermost one begun by  *)
(* the same rule, else the innermost one; and all sections inside it.      *)
Commented(p) ==
  IF p.comment = <<>> THEN p
  ELSE [p EXCEPT !.comment = <<>>, !.ini = WithSection(@, p.open, setEndComment(SectionAt(@, p.open), p.comment))]
Open(p, i) == SectionAt(p.ini, SubSeq(p.open, 1, i))
Ended(p, named, alike) ==
  IF p.open = <<>> THEN p
  ELSE [p EXCEPT !.open = SubSeq(@, 1, (IF named # {} THEN Max(named) ELSE IF alike # {} THEN Max(alike) ELSE Len(@)) - 1)]
CloseSection(p, n, rule) ==
  Ended(p, {i \in DOMAIN p.open : n # "" /\ Open(p, i).name = n}, {i \in DOMAIN p.open : Open(p, i).read_by = rule})
EndSection(m, p, n, rule) == CloseSection(Commented(p), n, rule)

Joint(m) == IF "join_multiline" \in m.options THEN "sp" ELSE "nl"

Line(m, p, l) ==
  CASE l[1] = "comment" -> [p EXCEPT !.comment = Append(@, l[2])]
    [] p.multi /\ l[1] = "rest" ->
         [AddValue(m, p, p.key, p.val \o <<Joint(m)>> \o l[2], p.rule) EXCEPT !.multi = FALSE]
    [] p.multi /\ l[1] # "rest" -> [p EXCEPT !.val = @ \o <<Joint(m), "line">>]
    [] l[1] = "begin" /\ l[3] < Len(m.sections) -> BeginSection(m, p, l[2], l[3])
    [] l[1] = "end" /\ sectionNeedsEnd(m, l[3]) -> EndSection(m, p, l[2], l[3])
    [] l[1] = "line" /\ l[4] < Len(m.params) -> AddValue(m, p, l[2], l[3], l[4])
    [] l[1] = "multi" /\ l[4] < Len(m.params) /\ m.params[l[4] + 1] ->
         [p EXCEPT !.multi = TRUE, !.key = l[2], !.val = l[3], !.rule = l[4]]
    [] OTHER -> p

RECURSIVE WithoutFinalBlanks(_)
WithoutFinalBlanks(c) == IF c # <<>> /\ Last(c) = 0 THEN WithoutFinalBlanks(Front(c)) ELSE c

FinalComment(m, p) ==
  IF p.comment = <<>> THEN p.ini
  ELSE setEndComment(p.ini, IF "no_finalcomment_kill" \in m.options THEN p.comment ELSE WithoutFinalBlanks(p.comment))
parse_helper(m, ini, lines) == FinalComment(m, FoldLeft(LAMBDA q, l : Line(m, q, l), Scan(ini), lines))

-----------------------------------------------------------------------------
(* Finding one's way: reading takes the first section of a name, writing   *)
(* and deleting take the last one; writing creates what is missing.        *)

Nowhere == <<0>>
RECURSIVE Find(_, _, _, _), Created(_, _, _)
Find(m, s, names, first) ==
  IF names = <<>> THEN <<>>
  ELSE LET r == equal_range(s, "section", changeCase(m, Head(names)))
           i == IF first THEN r[1] ELSE Last(r)
           rest == IF r = <<>> THEN Nowhere ELSE Find(m, s.container[i], Tail(names), first)
       IN  IF rest = Nowhere THEN Nowhere ELSE <<i>> \o rest
Created(m, s, names) ==
  IF names = <<>> THEN s
  ELSE LET k == changeCase(m, Head(names))
           r == equal_range(s, "section", k)
       IN  IF r = <<>>
           THEN [s EXCEPT !.container = Append(@, Created(m, IniSection(k, 0, 0, TRUE), Tail(names)))]
           ELSE [s EXCEPT !.container[Last(r)] = Created(m, @, Tail(names))]

(* What a read answers: Void where the code returns -1.  what says which   *)
(* attribute of the element is read.                                       *)
Answer(m, s, r, what) ==
  LET Get(i) == s.container[r[i]][what]
  IN  IF repeatNames(m) THEN [i \in DOMAIN r |-> Get(i)]
      ELSE IF r # <<>> THEN Get(Len(r)) ELSE Void

getMyValue(m, s, k, what) == Answer(m, s, equal_range(s, "value", changeCase(m, k)), what)
getValue(m, s, names, what) ==
  LET at == Find(m, s, Front(names), TRUE)
  IN  IF at = Nowhere THEN Void ELSE getMyValue(m, SectionAt(s, at), Last(names), what)
getSectionProp(m, s, names, what) ==
  LET at == Find(m, s, Front(names), FALSE)
      sec == SectionAt(s, at)
  IN  IF at = Nowhere THEN Void ELSE Answer(m, sec, equal_range(sec, "section", changeCase(m, Last(names))), what)

RECURSIVE getAllDoIt(_)
getAllDoIt(e) ==
  IF e.type = "value"
  THEN [kind |-> "value", name |-> e.name, type |-> e.read_by, comment |-> e.comment, value |-> e.val]
  ELSE [kind |-> "section", name |-> e.name, type |-> e.read_by, comment |-> e.comment, file |-> e.rewrite_by,
        value |-> [i \in DOMAIN e.container |-> getAllDoIt(e.container[i])]]
getAll(m, s, names) ==
  LET at == Find(m, s, names, TRUE) IN IF at = Nowhere THEN Void ELSE getAllDoIt(SectionAt(s, at))

getValueFlat(m, s, names) ==
  IF names = <<>> THEN Void
  ELSE getMyValue(m, s, names[1], IF Len(names) > 1 /\ names[2] = "comment" THEN "comment" ELSE "val")

ValueKinds == ("v" :> "val") @@ ("vc" :> "comment") @@ ("vt" :> "read_by")
SectionKinds(m) == ("sc" :> "comment") @@ ("st" :> IF m.rewrites # <<>> THEN "rewrite_by" ELSE "read_by")

ReadIni(m, s, path) ==
  CASE isFlat(m) -> getValueFlat(m, s, path)
    [] ~isFlat(m) /\ Len(path) >= 1 /\ path[1] = "all" -> getAll(m, s, Tail(path))
    [] ~isFlat(m) /\ Len(path) >= 2 /\ path[1] \in DOMAIN ValueKinds ->
         getValue(m, s, Tail(path), ValueKinds[path[1]])
    [] ~isFlat(m) /\ Len(path) >= 2 /\ path[1] \in DOMAIN SectionKinds(m) ->
         getSectionProp(m, s, Tail(path), SectionKinds(m)[path[1]])
    [] OTHER -> Void

myDir(s, type) ==
  LET r == SelectSeq(s.container, LAMBDA e : e.type = type) IN [i \in DOMAIN r |-> r[i].name]
dirHelper(m, s, names, type) ==
  LET at == Find(m, s, names, FALSE) IN IF at = Nowhere THEN Void ELSE myDir(SectionAt(s, at), type)
DirIni(m, s, path) ==
  CASE isFlat(m) -> IF path = <<>> THEN myDir(s, "value") ELSE <<>>
    [] ~isFlat(m) /\ path = <<>> -> <<"section", "value">>
    [] ~isFlat(m) /\ Len(path) >= 1 /\ path[1] = "v" -> dirHelper(m, s, Tail(path), "value")
    [] ~isFlat(m) /\ Len(path) >= 1 /\ path[1] = "s" -> dirHelper(m, s, Tail(path), "section")
    [] OTHER -> Void

-----------------------------------------------------------------------------
(* Changing the tree.  A result is [ret, s]; a list of properties is given *)
(* to the elements of the name in turn, with new ones for the properties   *)
(* left over, and elements left over are deleted.  A property of the wrong *)
(* type, Misfit, ends the loop where it stands.                            *)

Result(ret, s) == [ret |-> ret, s |-> s]
MinOf(a, b) == IF a < b THEN a ELSE b
Without(s, places) ==
  LET kept == SelectSeq([i \in DOMAIN s.container |-> i], LAMBDA i : i \notin places)
  IN  [s EXCEPT !.container = [i \in DOMAIN kept |-> s.container[kept[i]]],
                !.dirty = @ \/ places # {}]
SetAttribute(e, what, v) == [e EXCEPT ![what] = v, !.dirty = TRUE]

setMyValue(m, s, key, props, what) ==
  LET k == changeCase(m, key)
      r == equal_range(s, "value", k)
      stops == {i \in DOMAIN props : what # "val" /\ (props[i] = Misfit \/ i > Len(r))}
      n == IF stops = {} THEN Len(props) ELSE Min(stops) - 1
      Place(i) == {j \in 1..MinOf(n, Len(r)) : r[j] = i}
      set == [i \in DOMAIN s.container |->
                IF Place(i) = {} THEN s.container[i]
                ELSE SetAttribute(s.container[i], what, props[CHOOSE j \in Place(i) : TRUE])]
      new == [i \in 1..(IF n > Len(r) THEN n - Len(r) ELSE 0) |->
                [IniEntry(k) EXCEPT !.dirty = TRUE, !.val = props[Len(r) + i]]]
      t == [s EXCEPT !.container = set \o new]
  IN  IF stops # {} THEN Result(-1, t)
      ELSE Result(0, [Without(t, {r[j] : j \in (n + 1)..Len(r)}) EXCEPT !.dirty = TRUE])

setValue(m, s, names, props, what) ==
  LET t  == Created(m, s, Front(names))
      at == Find(m, t, Front(names), FALSE)
      res == setMyValue(m, SectionAt(t, at), Last(names), props, what)
  IN  Result(res.ret, WithSection(t, at, res.s))

(* A section that is created stays also when its property does not fit;    *)
(* making a section private does not mark it as changed.                   *)
setMySectionProp(m, s, key, props, what) ==
  LET k == changeCase(m, key)
      r == equal_range(s, "section", k)
      stops == {i \in DOMAIN props : props[i] = Misfit}
      n == IF stops = {} THEN Len(props) ELSE Min(stops)
      Given(e, i) == CASE props[i] = Misfit -> e
                       [] props[i] # Misfit /\ what = "private" -> [e EXCEPT !.private = props[i]]
                       [] OTHER -> SetAttribute(e, what, props[i])
      Place(i) == {j \in 1..MinOf(n, Len(r)) : r[j] = i}
      set == [i \in DOMAIN s.container |->
                IF Place(i) = {} THEN s.container[i] ELSE Given(s.container[i], CHOOSE j \in Place(i) : TRUE)]
      new == [i \in 1..(IF n > Len(r) THEN n - Len(r) ELSE 0) |-> Given(IniSection(k, 0, 0, TRUE), Len(r) + i)]
      t == [s EXCEPT !.container = set \o new]
  IN  IF stops # {} THEN Result(-1, t) ELSE Result(0, Without(t, {r[j] : j \in (n + 1)..Len(r)}))

setSectionProp(m, s, names, props, what) ==
  LET t  == Created(m, s, Front(names))
      at == Find(m, t, Front(names), FALSE)
      res == setMySectionProp(m, SectionAt(t, at), Last(names), props, what)
  IN  Result(res.ret, WithSection(t, at, res.s))

delMyValue(m, s, k) == Without(s, ToSet(equal_range(s, "value", changeCase(m, k))))
DeleteIn(m, s, names, type) ==
  LET at == Find(m, s, Front(names), FALSE)
      sec == SectionAt(s, at)
  IN  IF at = Nowhere THEN Result(-1, s)
      ELSE Result(0, WithSection(s, at, Without(sec, ToSet(equal_range(sec, type, changeCase(m, Last(names)))))))
delValue(m, s, names) == DeleteIn(m, s, names, "value")
delSection(m, s, names) == DeleteIn(m, s, names, "section")

(* Write (.all): the tree is replaced by the map of the client.  An item   *)
(* whose value is nil says that the file of that section is to go.  A bad  *)
(* item ends the work with the old data gone; a value is taken even if its *)
(* map is not complete, because the result of IniEntry's own setAllDoIt is *)
(* not looked at.                                                          *)
Missing == "?"
getFileName(m, sec, rb) == IF rb # -1 /\ rb < Len(m.rewrites) THEN m.rewrites[rb + 1][sec] ELSE sec
setAllBase(e, in) ==
  IF in.name = Missing THEN [e EXCEPT !.dirty = TRUE]
  ELSE [e EXCEPT !.dirty = TRUE, !.name = in.name, !.read_by = in.type, !.comment = in.comment]

RECURSIVE setAllDoIt(_, _, _), setAllItems(_, _, _, _)
setAllDoIt(m, s, in) ==
  LET t == setAllBase(s, in)
  IN  IF in.name = Missing \/ in.kind # "section" THEN [ret |-> -1, s |-> t, deleted |-> {}]
      ELSE IF in.value = Misfit THEN [ret |-> -1, s |-> [t EXCEPT !.rewrite_by = in.file], deleted |-> {}]
      ELSE setAllItems(m, [t EXCEPT !.rewrite_by = in.file, !.container = <<>>], in.value, {})
setAllItems(m, s, items, deleted) ==
  LET item == Head(items)
      Stop == [ret |-> -1, s |-> s, deleted |-> deleted]
      sub == setAllDoIt(m, IniSection("", -1, -1, FALSE), item)
      entry == IF item.name = Missing \/ item.value \in {Void, Misfit} THEN setAllBase(IniEntry(""), item)
               ELSE [setAllBase(IniEntry(""), item) EXCEPT !.val = item.value]
  IN  CASE items = <<>> -> [ret |-> 0, s |-> s, deleted |-> deleted]
        [] items # <<>> /\ item = Misfit -> Stop
        [] items # <<>> /\ item # Misfit /\ item.kind = "value" ->
             setAllItems(m, [s EXCEPT !.container = Append(@, entry)], Tail(items), deleted)
        [] items # <<>> /\ item # Misfit /\ item.kind = "section" /\ item.value = Void ->
             IF item.name = Missing THEN Stop
             ELSE setAllItems(m, s, Tail(items), deleted \cup {getFileName(m, item.name, item.file)})
        [] items # <<>> /\ item # Misfit /\ item.kind = "section" /\ item.value # Void ->
             IF sub.ret # 0 THEN [Stop EXCEPT !.deleted = @ \cup sub.deleted]
             ELSE setAllItems(m, [s EXCEPT !.container = Append(@, sub.s)], Tail(items), deleted \cup sub.deleted)
        [] OTHER -> Stop

setAll(m, s, names, in) ==
  LET at == Find(m, s, names, TRUE)
      res == setAllDoIt(m, SectionAt(s, at), in)
  IN  IF at = Nowhere THEN [ret |-> -1, s |-> s, deleted |-> {}]
      ELSE [res EXCEPT !.s = WithSection(s, at, res.s)]

setValueFlat(m, s, names, props) ==
  IF names = <<>> THEN Result(-1, s)
  ELSE setMyValue(m, s, names[1], props, IF Len(names) > 1 /\ names[2] = "comment" THEN "comment" ELSE "val")

SectionProps(m) ==
  SectionKinds(m) @@ ("s" :> "comment") @@ ("section_private" :> "private")

WriteIni(m, s, path, props) ==
  CASE isFlat(m) -> setValueFlat(m, s, path, props)
    [] ~isFlat(m) /\ Len(path) >= 2 /\ path[1] \in DOMAIN ValueKinds ->
         setValue(m, s, Tail(path), props, ValueKinds[path[1]])
    [] ~isFlat(m) /\ Len(path) >= 2 /\ path[1] \in DOMAIN SectionProps(m) ->
         setSectionProp(m, s, Tail(path), props, SectionProps(m)[path[1]])
    [] OTHER -> Result(-1, s)

DeleteIni(m, s, path) ==
  CASE isFlat(m) -> IF path = <<>> THEN Result(-1, s) ELSE Result(0, delMyValue(m, s, path[1]))
    [] ~isFlat(m) /\ Len(path) >= 2 /\ path[1] = "v" -> delValue(m, s, Tail(path))
    [] ~isFlat(m) /\ Len(path) >= 2 /\ path[1] = "s" -> delSection(m, s, Tail(path))
    [] OTHER -> Result(-1, s)

getSubSectionRewriteBy(s, k) ==
  LET r == equal_range(s, "section", k) IN IF r = <<>> THEN -1 ELSE s.container[Last(r)].rewrite_by

-----------------------------------------------------------------------------
(* The parser and the files.  An agent that is not mounted has no machine. *)

NoAgent == [started |-> FALSE, machine |-> <<>>, file |-> "", ini |-> IniSection("", -1, -1, FALSE),
            timestamp |-> 0, multi_files |-> <<>>, deleted |-> {}]

getTimeStamp(d, f) == IF f \in DOMAIN d THEN d[f].mtime ELSE 0

(* With several files each one is a toplevel section, named after the file *)
(* or after what the first rewrite rule that matches makes of it; only new *)
(* and changed files are read.                                             *)
SectionOfFile(m, f) ==
  LET fits == {j \in DOMAIN m.rewrites : \E n \in DOMAIN m.rewrites[j] : m.rewrites[j][n] = f}
  IN  IF fits = {} THEN <<f, -1>>
      ELSE LET j == Min(fits) IN <<CHOOSE n \in DOMAIN m.rewrites[j] : m.rewrites[j][n] = f, j - 1>>

InitFileSection(m, s, sec) == initSection(m, s, sec[1], <<>>, -1, sec[2])
ParseInto(m, s, lines) == [s EXCEPT !.container[Len(s.container)] = parse_helper(m, @, lines)]
ParseFile(a, d, f) ==
  IF f \in DOMAIN a.multi_files /\ a.multi_files[f] = d[f].mtime THEN a
  ELSE [a EXCEPT !.multi_files = (f :> d[f].mtime) @@ @,
                 !.ini = ParseInto(a.machine, InitFileSection(a.machine, @, SectionOfFile(a.machine, f)), d[f].lines)]

parse(a, d) ==
  IF a.machine.multiple_files
  THEN FoldLeft(LAMBDA b, f : ParseFile(b, d, f), a, SetToSeq(Files \cap DOMAIN d))
  ELSE IF a.file \notin DOMAIN d THEN a
  ELSE [a EXCEPT !.ini = parse_helper(a.machine, @, d[a.file].lines), !.timestamp = getTimeStamp(d, a.file)]

UpdateIfModif(a, d) ==
  IF \/ {"read_only", "repeat_names"} \cap a.machine.options # {}
     \/ ~a.machine.multiple_files /\ a.timestamp = getTimeStamp(d, a.file)
  THEN a ELSE parse(a, d)

(* write_helper: the lines of a section.  A value whose text has a line    *)
(* break becomes two lines.                                                *)
CommentLines(c) == [i \in DOMAIN c |-> <<"comment", c[i]>>]
EntryLines(m, e) ==
  LET n == SelectInSeq(e.val, LAMBDA x : x = "nl")
      text == IF e.read_by \notin 0..(Len(m.params) - 1) THEN <<>>
              ELSE IF n = 0 THEN <<<<"line", e.name, e.val, e.read_by>>>>
              ELSE <<<<"multi", e.name, SubSeq(e.val, 1, n - 1), e.read_by>>,
                     <<"rest", SubSeq(e.val, n + 1, Len(e.val))>>>>
  IN  CommentLines(e.comment) \o text

RECURSIVE write_helper(_, _)
write_helper(m, s) ==
  LET header == s.read_by \in 0..(Len(m.sections) - 1)
      Body(i) == IF s.container[i].type = "section" THEN write_helper(m, s.container[i])
                 ELSE EntryLines(m, s.container[i])
  IN  CommentLines(s.comment)
      \o (IF header THEN <<<<"begin", s.name, s.read_by>>>> ELSE <<>>)
      \o FlattenSeq([i \in DOMAIN s.container |-> Body(i)])
      \o CommentLines(s.end_comment)
      \o (IF header /\ m.sections[s.read_by + 1] THEN <<<<"end", s.name, s.read_by>>>> ELSE <<>>)

(* write: bad are the files that cannot be opened for writing.  With       *)
(* several files the changed sections are written and the files of deleted *)
(* sections removed.                                                       *)

WriteSections(a, d, bad) ==
  LET m == a.machine
      top == a.ini.container
      File(i) == getFileName(m, top[i].name, top[i].rewrite_by)
      todo == {i \in DOMAIN top : top[i].type = "section" /\ isDirty(top[i])}
      done == {i \in todo : File(i) \notin bad}
      Ready(i) == [top[i] EXCEPT !.read_by = -1]
      deleted == a.deleted \ {File(i) : i \in {j \in DOMAIN top : top[j].type = "section"}}
      gone == deleted \cap DOMAIN a.multi_files
      now == {File(i) : i \in done}
  IN  [ret |-> IF done = todo THEN 0 ELSE -1,
       agent |-> [a EXCEPT !.deleted = deleted,
                    !.ini.container = [i \in DOMAIN top |->
                      IF i \in done THEN clean(Ready(i)) ELSE IF i \in todo THEN Ready(i) ELSE top[i]]],
       disk |-> [f \in (DOMAIN d \cup now) \ gone |->
                   IF f \in now
                   THEN [lines |-> write_helper(m, Ready(Max({i \in done : File(i) = f}))), mtime |-> clock]
                   ELSE d[f]]]

WriteSingle(a, d, bad) ==
  IF a.file \in bad
  THEN [ret |-> -1, agent |-> [a EXCEPT !.timestamp = getTimeStamp(d, a.file)], disk |-> d]
  ELSE [ret |-> 0, agent |-> [a EXCEPT !.ini = clean(@), !.timestamp = clock],
        disk |-> (a.file :> [lines |-> write_helper(a.machine, a.ini), mtime |-> clock]) @@ d]

WriteUpdated(a, d, bad) == IF a.machine.multiple_files THEN WriteSections(a, d, bad) ELSE WriteSingle(a, d, bad)
write(a, d, bad) ==
  IF ~isDirty(a.ini) \/ "read_only" \in a.machine.options THEN [ret |-> 0, agent |-> a, disk |-> d]
  ELSE WriteUpdated(UpdateIfModif(a, d), d, bad)

-----------------------------------------------------------------------------
(* The agent's commands.                                                   *)

(* Bound: all files are alike at first.                                    *)
Init ==
  /\ \E lines \in Edits : disk = [f \in Files |-> [lines |-> lines, mtime |-> 0]]
  /\ clock = 1
  /\ agent = NoAgent
  /\ ops = 0
  /\ written = <<>>
  /\ saved = <<>>

(* otherCommand: IniAgent (files, description).  Bound: an agent is        *)
(* mounted before the first write or edit only; what a later one would     *)
(* find is Fresh, below.                                                   *)
Mount(scr) ==
  /\ ~agent.started /\ ops = 0
  /\ agent' = parse([NoAgent EXCEPT !.started = TRUE, !.machine = initMachine(scr), !.file = scr.file], disk)
  /\ saved' = <<>>
  /\ UNCHANGED <<disk, clock, ops, written>>

(* Read and Dir merge what changed on disk before they answer.             *)
Read ==
  /\ agent.started
  /\ agent' = UpdateIfModif(agent, disk)
  /\ saved' = <<>>
  /\ UNCHANGED <<disk, clock, ops, written>>

NamesOf(path) == IF isFlat(agent.machine) THEN path ELSE Tail(path)
IsValue(path) == isFlat(agent.machine) \/ path[1] = "v"
Note(path, v) == (NamesOf(path) :> v) @@ written

ValueWritten(path, props, res) ==
  /\ agent' = [agent EXCEPT !.ini = res.s]
  /\ written' = IF res.ret = 0 /\ IsValue(path) /\ Len(props) = 1 THEN Note(path, props[1]) ELSE written
WriteValue(path, props) ==
  /\ agent.started
  /\ repeatNames(agent.machine) \/ Len(props) = 1
  /\ ValueWritten(path, props, WriteIni(agent.machine, agent.ini, path, props))
  /\ saved' = <<>>
  /\ UNCHANGED <<disk, clock>>

(* All values that this write leaves are the client's.                     *)
ValuesIn(m, s) ==
  [q \in {r \in Names \X Names : getValue(m, s, r, "val") # Void} |-> getValue(m, s, q, "val")]
AllWritten(res) ==
  /\ agent' = [agent EXCEPT !.ini = res.s, !.deleted = @ \cup res.deleted]
  /\ written' = ValuesIn(agent.machine, res.s)
WriteAll(in) ==
  /\ agent.started /\ ~isFlat(agent.machine)
  /\ AllWritten(setAll(agent.machine, agent.ini, <<>>, in))
  /\ saved' = <<>>
  /\ UNCHANGED <<disk, clock>>

(* Writing nil deletes; the file of a deleted toplevel section is to go.   *)
FileOf(name) == getFileName(agent.machine, name, getSubSectionRewriteBy(agent.ini, name))
Deleted(path, section, res) ==
  /\ agent' = [agent EXCEPT !.ini = res.s, !.deleted = IF res.ret = 0 /\ section THEN @ \cup {FileOf(path[2])} ELSE @]
  /\ written' = CASE res.ret # 0 -> written
                  [] res.ret = 0 /\ IsValue(path) -> Note(path, Void)
                  [] OTHER -> [q \in {r \in DOMAIN written : r[1] # path[2]} |-> written[q]]
Delete(path) ==
  /\ agent.started
  /\ Deleted(path, ~isFlat(agent.machine) /\ path[1] = "s" /\ Len(path) = 2, DeleteIni(agent.machine, agent.ini, path))
  /\ saved' = <<>>
  /\ UNCHANGED <<disk, clock>>

(* What the client has written and a flush could not save.                 *)
Unsaved(ret, how, bad) ==
  CASE ret = 0 \/ how = "unmount" -> {}
    [] ret # 0 /\ how # "unmount" /\ ~agent.machine.multiple_files -> DOMAIN written
    [] OTHER -> {q \in DOMAIN written : FileOf(q[1]) \in bad}

(* Write (., v), and the destructor, which writes without an answer.       *)
Marked(how) ==
  CASE how = "force" -> [agent EXCEPT !.ini.dirty = TRUE]
    [] how = "clean" -> [agent EXCEPT !.ini = clean(@)]
    [] OTHER -> agent
Flushed(how, bad, dirty, res) ==
  /\ agent' = IF how = "unmount" THEN NoAgent ELSE res.agent
  /\ disk' = res.disk
  /\ written' = [q \in Unsaved(res.ret, how, bad) |-> written[q]]
  /\ saved' = IF res.ret = 0 /\ how # "clean" /\ dirty THEN written ELSE <<>>
  /\ UNCHANGED <<clock, ops>>
Flush(how, bad) == agent.started /\ Flushed(how, bad, isDirty(Marked(how).ini), write(Marked(how), disk, bad))

(* Other programs, and time.  Bound: nothing goes on after an unmount.      *)
Ongoing == agent.started \/ ops = 0
Edit(f, lines) ==
  /\ Ongoing /\ ops < MaxOps
  /\ ops' = ops + 1
  /\ ~(f \in DOMAIN disk /\ disk[f].lines = lines)
  /\ disk' = (f :> [lines |-> lines, mtime |-> clock]) @@ disk
  /\ saved' = <<>>
  /\ UNCHANGED <<clock, agent, written>>

Tick == Ongoing /\ clock < MaxClock /\ clock' = clock + 1 /\ UNCHANGED <<disk, agent, ops, written, saved>>

Paths == IF agent.started /\ isFlat(agent.machine) THEN {<<k>> : k \in Names}
         ELSE {<<"v", s, k>> : s \in Names, k \in Names}
SectionPaths == IF agent.started /\ isFlat(agent.machine) THEN {} ELSE {<<"s", s>> : s \in Names}
(* Bound: of the ways to flush only the plain one fails.                   *)
Failing == {{}} \cup {{f} : f \in IF agent.started /\ agent.machine.multiple_files THEN Files ELSE {agent.file}}

ClientWrite ==
  /\ ops < MaxOps
  /\ ops' = ops + 1
  /\ \/ \E p \in Paths, v \in Values : WriteValue(p, <<v>>)
     \/ \E p \in SectionPaths, c \in {<<1>>, Misfit} : WriteValue(p, <<c>>)
     \/ \E p \in Paths \cup SectionPaths : Delete(p)

(* The client reads a section with .all, changes an item and writes it.    *)
Changed(all) ==
  UNION {{[all EXCEPT !.value[i].value = Void], [all EXCEPT !.value[i] = Misfit], [all EXCEPT !.value = RemoveAt(@, i)]} :
           i \in DOMAIN all.value}
ClientWriteAll ==
  /\ ops < MaxOps
  /\ ops' = ops + 1
  /\ \E in \in Changed(getAllDoIt(agent.ini)) : WriteAll(in)

Next ==
  \/ \E scr \in Descriptions \cup {SysConfigFile(f) : f \in SysConfigs} : Mount(scr)
  \/ Read
  \/ ClientWrite
  \/ ClientWriteAll
  \/ \E how \in {"nil", "force", "clean", "unmount"} : \E bad \in IF how = "nil" THEN Failing ELSE {{}} : Flush(how, bad)
  \/ \E f \in Files, lines \in Edits : Edit(f, lines)
  \/ Tick

Spec == Init /\ [][Next]_vars

-----------------------------------------------------------------------------
(* What an agent that is mounted now finds on disk.                        *)
Fresh(a, d) == parse([NoAgent EXCEPT !.started = TRUE, !.machine = a.machine, !.file = a.file], d).ini
Lookup(m, s, q) == ReadIni(m, s, IF isFlat(m) THEN q ELSE <<"v">> \o q)
Plain(m) == {"read_only", "repeat_names"} \cap m.options = {}

(* A value as it is read back: join_multiline makes one line of it.        *)
AsRead(m, v) == [i \in DOMAIN v |-> IF v[i] = "nl" THEN Joint(m) ELSE v[i]]

(* A value stands behind a section that nothing ends: in the file it is    *)
(* part of that section.                                                   *)
RECURSIVE Swallows(_, _)
Swallows(m, s) ==
  LET sections == {i \in DOMAIN s.container : s.container[i].type = "section"}
  IN  \/ \E i \in sections, j \in DOMAIN s.container \ sections : i < j /\ ~sectionNeedsEnd(m, s.container[i].read_by)
      \/ \E i \in sections : Swallows(m, s.container[i])

(* After a flush that reported success, a new agent finds every value the  *)
(* client had written, unless a section swallows it, whatever other        *)
(* programs did to the file before it (setMyValue, UpdateIfModif,          *)
(* initValue, write_helper, parse_helper).                                 *)
WrittenIsSaved ==
  agent.started /\ Plain(agent.machine) /\ ~Swallows(agent.machine, agent.ini) =>
    \A q \in DOMAIN saved : saved[q] # Void =>
      Lookup(agent.machine, Fresh(agent, disk), q) = AsRead(agent.machine, saved[q])

(* What the client wrote is what it reads back before the flush, however   *)
(* often the file is changed and merged meanwhile.                         *)
ClientReadsItsWrites ==
  agent.started /\ Plain(agent.machine) =>
    \A q \in DOMAIN written : written[q] # Void => Lookup(agent.machine, agent.ini, q) = written[q]

(* What Dir lists, Read finds: every value name of a section, or of a flat *)
(* file, has a value, and what the client wrote is listed.                 *)
ListedIsRead ==
  agent.started =>
    LET m == agent.machine
        Listed(q) == DirIni(m, agent.ini, IF isFlat(m) THEN q ELSE <<"v">> \o q)
        Under(q) == IF Listed(q) = Void THEN {} ELSE ToSet(Listed(q))
    IN  /\ \A q \in IF isFlat(m) THEN {<<>>} ELSE {<<>>} \cup {<<s>> : s \in Names} :
             \A k \in Under(q) : Lookup(m, agent.ini, Append(q, k)) # Void
        /\ \A q \in DOMAIN written : written[q] # Void => Last(q) \in Under(Front(q))

(* A flush that meets a change of another program keeps it: each value the *)
(* file has, and the client did not write, has the same value in the file  *)
(* afterwards, unless a section swallows it (UpdateIfModif before          *)
(* write_file).                                                            *)
KeepsNoticedEdits ==
  LET m == agent.machine
      old == Fresh(agent, disk)
      new == Fresh(agent, disk')
      noticed == \A f \in DOMAIN disk : f \in DOMAIN disk' /\
                   IF m.multiple_files THEN f \notin DOMAIN agent.multi_files \/ agent.multi_files[f] # disk[f].mtime
                   ELSE agent.timestamp # getTimeStamp(disk, agent.file)
  IN  agent.started /\ agent' # agent /\ disk' # disk /\ Plain(m) /\ ~isFlat(m) /\ noticed
      /\ ~Swallows(m, UpdateIfModif(agent, disk).ini) =>
        \A s \in Names, k \in Names :
          LET v == Lookup(m, old, <<s, k>>)
          IN  v = Void \/ <<s, k>> \in DOMAIN written \/ Lookup(m, new, <<s, k>>) = v

(* The agent removes a file only if its section was deleted and the file   *)
(* is still the one the agent has read.                                    *)
RemovesKnown ==
  \A f \in DOMAIN disk \ DOMAIN disk' :
    f \in DOMAIN agent.multi_files /\ agent.multi_files[f] = disk[f].mtime /\ f \in agent.deleted

(* Reading everything with .all and writing it back changes nothing that   *)
(* .all shows, at any depth (getAllDoIt, setAllDoIt).                      *)
AllCanBeWrittenBack ==
  agent.started =>
    LET all == getAllDoIt(agent.ini)
        res == setAllDoIt(agent.machine, agent.ini, all)
    IN  Misfit \notin ToSet(agent.ini.container) => res.ret = 0 /\ getAllDoIt(res.s) = all

(* A file that the description understands is written back line by line as *)
(* it was read: sections, values, and the comments in front of, between    *)
(* and behind them (parse_helper, setEndComment, write_helper).            *)
UnderstoodFilesSurvive ==
  ~agent.started /\ ops = 0 => \A x \in Samples :
    LET m == initMachine(x[1]) IN write_helper(m, parse_helper(m, IniSection("", -1, -1, FALSE), x[2])) = x[2]
=============================================================================
