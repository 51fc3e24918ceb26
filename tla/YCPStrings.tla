----------------------------- MODULE YCPStrings ------------------------------
(***************************************************************************)
(* The builtins on strings (YCPBuiltinString.cc, splitstring of            *)
(* YCPBuiltinList.cc, sformat of YCPBuiltinMisc.cc).  Positions and        *)
(* lengths count characters.  A builtin works on the bytes when all its    *)
(* strings are ASCII and on wide characters otherwise, splitstring,        *)
(* mergestring and the regular expressions always on bytes.                *)
(***************************************************************************)
EXTENDS YCPBuiltins

(* What a builtin looks at: all strings as bytes, or all as characters.    *)
Chars(s, others) == IF isAscii(s) /\ \A t \in others : isAscii(t) THEN s ELSE utf82wchar(s)

(* A string from characters: a string of bytes below 128 either way.       *)
OfChars(w) == String(wchar2utf8(w))

(* basic_string::find: the first place of t in s, counted from 0, or -1.   *)
FindIn(s, t) ==
  LET at0 == {i \in 0..(Len(s) - Len(t)) : SubSeq(s, i + 1, i + Len(t)) = t}
  IN  IF at0 = {} THEN -1 ELSE Min(at0)
PosOrNil(p) == IF p < 0 THEN Nil ELSE Integer(p)

s_isempty(s) == Boolean(s = <<>>)
s_size(s)    == Integer(Len(Chars(s, {})))
s_plus1(s, t) == String(s \o t)
s_plus2(s, i) == String(s \o IntegerText(i))
s_plus3(s, p) == String(s \o PathText(p))
s_plus4(s, y) == String(s \o y)
s_issubstring(s, t) == Boolean(FindIn(s, t) >= 0)

(* The start is unsigned: a negative one is past the end of any string.    *)
s_substring1(s, start) ==
  LET w == Chars(s, {}) IN IF start \in 0..Len(w) THEN OfChars(SubSeq(w, start + 1, Len(w))) ELSE String(<<>>)

(* So is the length: a negative one reaches to the end.                    *)
s_substring2(s, start, length) ==
  LET w == Chars(s, {})
      n == IF length < 0 THEN Len(w) ELSE Min({Len(w), start + length})
  IN  IF start \in 0..Len(w) THEN OfChars(SubSeq(w, start + 1, n)) ELSE String(<<>>)

SearchBytes(s, t) == PosOrNil(FindIn(s, t))   \* mutant: bytes are counted, not characters
s_search(s, t) == PosOrNil(FindIn(Chars(s, {t}), Chars(t, {s})))
s_find(s, t) == LET r == s_search(s, t) IN IF isVoid(r) THEN Integer(-1) ELSE r

(* In the classic locale only ASCII letters have a case.                   *)
s_tolower(s) == String([i \in DOMAIN s |-> IF s[i] \in Upper THEN s[i] + 32 ELSE s[i]])
s_toupper(s) == String([i \in DOMAIN s |-> IF s[i] \in Lower THEN s[i] - 32 ELSE s[i]])
s_toascii(s) == String(SelectSeq(s, LAMBDA c : c < 128))

s_removechars(s, r) ==
  LET out == Range(Chars(r, {s})) IN OfChars(SelectSeq(Chars(s, {r}), LAMBDA c : c \notin out))
s_filterchars(s, r) ==
  LET in == Range(Chars(r, {s})) IN OfChars(SelectSeq(Chars(s, {r}), LAMBDA c : c \in in))

FirstWhere(s, t, inside) ==
  PosOrNil(SelectInSeq(Chars(s, {t}), LAMBDA c : (c \in Range(Chars(t, {s}))) = inside) - 1)
LastWhere(s, t, inside) ==
  PosOrNil(SelectLastInSeq(Chars(s, {t}), LAMBDA c : (c \in Range(Chars(t, {s}))) = inside) - 1)
s_findfirstof(s, t)    == FirstWhere(s, t, TRUE)
s_findlastof(s, t)     == LastWhere(s, t, TRUE)
s_findlastnotof(s, t)  == LastWhere(s, t, FALSE)
s_findfirstnotof(s, t) == IF s = <<>> THEN Integer(0) ELSE FirstWhere(s, t, FALSE)

(* The delimiter stands before every string but the one in first place:    *)
(* also before the first string of a list that starts with something else. *)
s_mergestring(l, c) ==
  String(FlattenSeq([i \in DOMAIN l |->
    IF l[i][1] # "string" THEN <<>> ELSE (IF i = 1 THEN <<>> ELSE c) \o l[i][2]]))

(* Every byte of c ends a piece.                                           *)
l_splitstring(s, c) ==
  LET cuts == <<0>> \o SelectSeq([i \in DOMAIN s |-> i], LAMBDA i : s[i] \in Range(c)) \o <<Len(s) + 1>>
  IN  IF s = <<>> \/ c = <<>> THEN List(<<>>)
      ELSE List([i \in 1..(Len(cuts) - 1) |-> String(SubSeq(s, cuts[i] + 1, cuts[i + 1] - 1))])

(* tostring leaves a string as it is.                                      *)
s_tostring(v) == IF v[1] = "string" THEN v ELSE String(toString(v))

-----------------------------------------------------------------------------
(* sformat: %% is a percent sign, %1 to %9 an argument.  A number that has *)
(* no argument and any other character after % are dropped.  The code      *)
(* steps over the end of a format that ends in a single %: undefined.      *)

Percent == 37
FormatArg(argv, n) ==
  IF n > Len(argv) THEN <<>>
  ELSE IF argv[n][1] = "string" THEN argv[n][2]
  ELSE toString(argv[n])

RECURSIVE Format(_, _)
Format(f, argv) ==
  IF f = <<>> THEN <<>>
  ELSE IF Head(f) # Percent THEN <<Head(f)>> \o Format(Tail(f), argv)
  ELSE LET rest == Format(SubSeq(f, 3, Len(f)), argv)
       IN  IF f[2] = Percent THEN <<Percent>> \o rest
           ELSE IF f[2] \in 49..57 THEN FormatArg(argv, f[2] - 48) \o rest
           ELSE rest

RECURSIVE EndsInPercent(_)
EndsInPercent(f) ==
  IF f = <<>> THEN FALSE ELSE IF Head(f) # Percent THEN EndsInPercent(Tail(f))
  ELSE Len(f) = 1 \/ EndsInPercent(SubSeq(f, 3, Len(f)))

s_sformat(f, argv) ==
  IF f[1] # "string" THEN Null
  ELSE IF argv[1] # "list" THEN f
  ELSE IF EndsInPercent(f[2]) THEN Trap
  ELSE String(Format(f[2], argv[2]))

-----------------------------------------------------------------------------
(* Regular expressions.  The engine (regcomp, regexec) is external: m is   *)
(* what it says of an input and a pattern: whether the pattern compiles,   *)
(* whether it matches, and the places of the match and of each             *)
(* subexpression, <<start, end>> counted from 0, or <<-1, -1>>.            *)

(* match_str has SUB_MAX places, the match and SUB_MAX - 1 subexpressions; *)
(* a pattern with SUB_MAX of them is let through and overruns it.          *)
SUB_MAX == 10

solve_regular_expression(input, m, result) ==
  LET match_str == [i \in DOMAIN m.places |->
                      IF m.places[i][1] >= 0 THEN SubSeq(input, m.places[i][1] + 1, m.places[i][2]) ELSE <<>>]
      Subst[r \in Suffixes(result)] ==
        IF r = <<>> THEN <<>>
        ELSE IF Head(r) = Backslash /\ Len(r) > 1 /\ r[2] \in 49..57
          THEN (IF r[2] - 47 \in DOMAIN match_str THEN match_str[r[2] - 47] ELSE <<>>) \o
               Subst[SubSeq(r, 3, Len(r))]
        ELSE <<Head(r)>> \o Subst[Tail(r)]
  IN  [error |-> ~m.compiles \/ Len(m.places) - 1 > SUB_MAX, solved |-> m.matches,
       overrun |-> m.matches /\ Len(m.places) - 1 = SUB_MAX,
       match_str |-> match_str, match_nb |-> Len(m.places) - 1, result_str |-> Subst[result]]

Failed(r, value) == IF r.error THEN Null ELSE IF r.overrun THEN Trap ELSE value

s_regexpmatch(input, m) ==
  LET r == solve_regular_expression(input, m, <<>>) IN Failed(r, Boolean(r.solved))

(* The position is where the matched text first occurs in the input.       *)
s_regexppos(input, m) ==
  LET r == solve_regular_expression(input, m, <<>>)
  IN  Failed(r, List(IF r.solved THEN <<Integer(FindIn(input, r.match_str[1])), Integer(Len(r.match_str[1]))>>
                     ELSE <<>>))

s_regexpsub(input, m, result) ==
  LET r == solve_regular_expression(input, m, result)
  IN  Failed(r, IF r.solved THEN String(r.result_str) ELSE Null)

s_regexptokenize(input, m) ==
  LET r == solve_regular_expression(input, m, <<>>)
  IN  Failed(r, List(IF r.solved THEN [i \in 1..r.match_nb |-> String(r.match_str[i + 1])] ELSE <<>>))

=============================================================================
