------------------------------ MODULE YCPValues ------------------------------
(***************************************************************************)
(* YCP values (libycp/src/YCP*.cc): their kinds, the order that sort, maps *)
(* and comparisons use, and the operations of lists, maps, paths, terms    *)
(* and strings.  A value is a pair <<kind, contents>>; YCPNull() is a pair *)
(* of its own.  Values are immutable here: who shares a value, and when it *)
(* is copied, is the subject of YCPElements.                               *)
(*                                                                         *)
(* A string is a sequence of bytes.  A character outside ASCII is the two  *)
(* bytes LeadByte and another one, which is how UTF-8 writes the letters   *)
(* of the Latin-1 range.                                                   *)
(***************************************************************************)
EXTENDS Integers, Sequences, FiniteSets, SequencesExt

Null        == <<"null", 0>>
Nil         == <<"void", 0>>
Break       == <<"break", 0>>
Abort       == <<"abort", 0>>              \* the process calls abort()
Boolean(b)  == <<"boolean", b>>
Integer(i)  == <<"integer", i>>
Float(n, d) == <<"float", <<n, d>>>>       \* the number n / d, d > 0
String(s)   == <<"string", s>>
Byteblock(s)== <<"byteblock", s>>
Symbol(s)   == <<"symbol", s>>
Path(cs)    == <<"path", cs>>              \* components <<string, complex>>
List(l)     == <<"list", l>>
Term(n, l)  == <<"term", <<n, l>>>>
Map(m)      == <<"map", m>>                \* a function from keys to values
Code(c)     == <<"code", c>>

(* enum YCPValueType: the order of values of different kinds.              *)
YCPValueType == <<"void", "boolean", "integer", "float", "string", "byteblock", "path", "symbol",
                  "list", "term", "map", "code", "return", "break", "entry", "error", "reference",
                  "external">>
valuetype(v) == SelectInSeq(YCPValueType, LAMBDA k : k = v[1])

(* isVoid() is also true of the value of a bare 'return'.                  *)
isVoid(v)  == v[1] \in {"void", "return"}
is(v, k)   == IF k = "void" THEN isVoid(v) ELSE v[1] = k
asKind(v, k) == IF is(v, k) THEN v ELSE Abort

Sign(n) == IF n < 0 THEN -1 ELSE IF n = 0 THEN 0 ELSE 1

-----------------------------------------------------------------------------
(* The order.                                                              *)

(* The first place where two sequences differ, or 0.                       *)
Differ(a, b) == SelectInSeq([i \in 1..Min({Len(a), Len(b)}) |-> a[i] = b[i]], LAMBDA same : ~same)

(* std::string::compare: bytes from left to right, then the length.        *)
compareString(a, b) ==
  LET i == Differ(a, b) IN IF i = 0 THEN Sign(Len(a) - Len(b)) ELSE Sign(a[i] - b[i])

compareBoolean(a, b) == IF a = b THEN 0 ELSE IF b THEN -1 ELSE 1
compareInteger(a, b) == Sign(a - b)
compareFloat(a, b)   == Sign(a[1] * b[2] - b[1] * a[2])
compareSymbol(a, b)  == compareString(a, b)

(* Byte blocks: the shorter one is less, whatever it holds.                *)
compareByteblock(a, b) == IF Len(a) # Len(b) THEN Sign(Len(a) - Len(b)) ELSE compareString(a, b)

(* Paths: component by component; how a component was quoted is ignored.   *)
comparePath(a, b) ==
  LET n == Min({Len(a), Len(b)})
      i == SelectInSeq([j \in 1..n |-> compareString(a[j][1], b[j][1])], LAMBDA o : o # 0)
  IN  IF i = 0 THEN Sign(Len(a) - Len(b)) ELSE compareString(a[i][1], b[i][1])

RECURSIVE compare(_, _)

(* The keys of a map in the order of the std::map that holds them.         *)
Keys(m) == SetToSortSeq(DOMAIN m, LAMBDA k, l : compare(k, l) = -1)

(* The keys and values of a map in the order compare visits them.          *)
Pairs(m) == LET ks == Keys(m) IN FlattenSeq([i \in DOMAIN ks |-> <<ks[i], m[ks[i]]>>])

compareList(a, b) ==
  LET n == Min({Len(a), Len(b)})
      i == SelectInSeq([j \in 1..n |-> compare(a[j], b[j])], LAMBDA o : o # 0)
  IN  IF i = 0 THEN Sign(Len(a) - Len(b)) ELSE compare(a[i], b[i])

compareTerm(a, b) ==
  IF a[1] = b[1] THEN compareList(a[2], b[2]) ELSE compareString(a[1], b[1])

compareMap(a, b) ==
  LET n == Cardinality(DOMAIN a)  m == Cardinality(DOMAIN b)
  IN  IF n # m THEN Sign(n - m) ELSE compareList(Pairs(a), Pairs(b))

(* Code and references are never equal to anything, not even themselves.   *)
compareCode(a, b) == -1

compare(v, w) ==
  CASE v[1] # w[1]         -> Sign(valuetype(v) - valuetype(w))
    [] v[1] = "void"       -> 0
    [] v[1] = "boolean"    -> compareBoolean(v[2], w[2])
    [] v[1] = "integer"    -> compareInteger(v[2], w[2])
    [] v[1] = "float"      -> compareFloat(v[2], w[2])
    [] v[1] = "string"     -> compareString(v[2], w[2])
    [] v[1] = "byteblock"  -> compareByteblock(v[2], w[2])
    [] v[1] = "path"       -> comparePath(v[2], w[2])
    [] v[1] = "symbol"     -> compareSymbol(v[2], w[2])
    [] v[1] = "list"       -> compareList(v[2], w[2])
    [] v[1] = "term"       -> compareTerm(v[2], w[2])
    [] v[1] = "map"        -> compareMap(v[2], w[2])
    [] v[1] \in {"code", "reference"} -> compareCode(v[2], w[2])
    [] OTHER               -> 0

equal(v, w) == compare(v, w) = 0
ycp_less(v, w) == compare(v, w) = -1

-----------------------------------------------------------------------------
(* Lists: indices count from 0, as in the code.                            *)

at(l, i) == IF i \in 0..(Len(l) - 1) THEN l[i + 1] ELSE Null
contains(l, v) == \E i \in DOMAIN l : equal(l[i], v)

(* set() fills the gap up to the index with nil.                           *)
set(l, i, v) ==
  IF i < 0 THEN l
  ELSE [j \in 1..Max({Len(l), i + 1}) |-> IF j = i + 1 THEN v ELSE IF j <= Len(l) THEN l[j] ELSE Nil]

removeAt(l, i) == IF i \in 0..(Len(l) - 1) THEN RemoveAt(l, i + 1) ELSE <<Abort>>
swap(l, x, y) ==
  IF {x, y} \subseteq 0..(Len(l) - 1)
    THEN [l EXCEPT ![x + 1] = l[y + 1], ![y + 1] = l[x + 1]] ELSE l
functionalAdd(l, v, prepend) == IF prepend THEN <<v>> \o l ELSE Append(l, v)

(* std::sort: an order of the elements that never decreases.  Elements     *)
(* that compare equal may come in any order: here in the order of the list.*)
Insert(l, v) ==
  LET i == SelectInSeq(l, LAMBDA w : ycp_less(v, w)) IN IF i = 0 THEN Append(l, v) ELSE InsertAt(l, i, v)
sortlist(l) == FoldLeft(Insert, <<>>, l)

-----------------------------------------------------------------------------
(* Maps: only strings, integers and symbols are keys.                      *)

IsKey(k) == k[1] \in {"string", "integer", "symbol"}
EmptyMap == [k \in {} |-> Null]
mapAdd(m, k, v) ==
  IF IsKey(k) THEN [l \in DOMAIN m \cup {k} |-> IF l = k THEN v ELSE m[l]] ELSE m
mapRemove(m, k) == IF IsKey(k) THEN [l \in DOMAIN m \ {k} |-> m[l]] ELSE m
mapValue(m, k) == IF k \in DOMAIN m THEN m[k] ELSE Null

-----------------------------------------------------------------------------
(* Paths.                                                                  *)

isRoot(p) == p = <<>>
isPrefixOf(p, q) == Len(p) <= Len(q) /\ \A i \in DOMAIN p : p[i][1] = q[i][1]
postfix(p, i) == SubSeq(p, i + 1, Len(p))
prefix(p, i) == SubSeq(p, 1, i)

(* append(string): the component counts as quoted, whatever it holds.      *)
appendComponent(p, s) == Append(p, <<s, TRUE>>)

-----------------------------------------------------------------------------
(* Strings: bytes and wide characters (y2string.cc).                       *)

LeadByte == 195
isAscii(s) == \A i \in DOMAIN s : s[i] < 128

(* A byte that does not complete a character becomes '?', code 63.         *)
RECURSIVE utf82wchar(_)
utf82wchar(s) ==
  IF s = <<>> THEN <<>>
  ELSE IF Head(s) < 128 THEN <<Head(s)>> \o utf82wchar(Tail(s))
  ELSE IF Head(s) = LeadByte /\ Len(s) > 1 /\ s[2] \in 128..191
    THEN <<s[2] + 64>> \o utf82wchar(SubSeq(s, 3, Len(s)))
  ELSE <<63>> \o utf82wchar(Tail(s))

wchar2utf8(w) ==
  FlattenSeq([i \in DOMAIN w |-> IF w[i] < 128 THEN <<w[i]>> ELSE <<LeadByte, w[i] - 64>>])

=============================================================================
