------------------------------- MODULE YCPText -------------------------------
(***************************************************************************)
(* Values as text and as bytecode: what toString writes, what the scanner  *)
(* and the parser read back (scanner.ll and the constants of parser.yy),   *)
(* and the streams of Bytecode.cc.  Components of different processes      *)
(* exchange values as text, and compiled modules hold them as bytecode.    *)
(*                                                                         *)
(* A text is a sequence of character codes.  Floats are left out: their    *)
(* text is produced and read by the C library.                             *)
(***************************************************************************)
EXTENDS YCPValues

CONSTANT LongLongBits     \* the width of a long long

Space      == 32
Quote      == 34
Hash       == 35
Dollar     == 36
Open       == 40
Close      == 41
Comma      == 44
Dash       == 45
Dot        == 46
Colon      == 58
Bra        == 91
Backslash  == 92
Ket        == 93
Underscore == 95
Backquote  == 96
Digit == 48..57
Upper == 65..90
Lower == 97..122
Alpha == Upper \cup Lower
Alnum == Alpha \cup Digit

(* The escapes both strings and paths write with a letter: \n \t \r \f \b. *)
Letter == (10 :> 110) @@ (9 :> 116) @@ (13 :> 114) @@ (12 :> 102) @@ (8 :> 98)
Unletter(c) == CHOOSE x \in DOMAIN Letter : Letter[x] = c

True  == <<116, 114, 117, 101>>
False == <<102, 97, 108, 115, 101>>
NilText == <<110, 105, 108>>

-----------------------------------------------------------------------------
(* toString.                                                               *)

RECURSIVE Numeral(_, _)
Numeral(n, base) ==
  (IF n < base THEN <<>> ELSE Numeral(n \div base, base)) \o
  <<LET d == n % base IN IF d < 10 THEN 48 + d ELSE 55 + d>>
Padded(n, base, w) == LET s == Numeral(n, base) IN [i \in 1..(w - Len(s)) |-> 48] \o s

IntegerText(i) == IF i < 0 THEN <<Dash>> \o Numeral(-i, 10) ELSE Numeral(i, 10)

StringChar(c) ==
  CASE c \in DOMAIN Letter         -> <<Backslash, Letter[c]>>
    [] c < 32                      -> <<Backslash>> \o Padded(c, 8, 3)
    [] c \in {Quote, Backslash}    -> <<Backslash, c>>
    [] OTHER                       -> <<c>>
StringText(s) == <<Quote>> \o FlattenSeq([i \in DOMAIN s |-> StringChar(s[i])]) \o <<Quote>>

PathChar(c) ==
  CASE c \in DOMAIN Letter         -> <<Backslash, Letter[c]>>
    [] c \in {Quote, Backslash}    -> <<Backslash, c>>
    [] c \in 32..126               -> <<c>>
    [] OTHER                       -> <<Backslash, 120>> \o Padded(c, 16, 2)
ComponentText(c) ==
  IF c[2] THEN <<Quote>> \o FlattenSeq([i \in DOMAIN c[1] |-> PathChar(c[1][i])]) \o <<Quote>> ELSE c[1]
PathText(p) ==
  IF isRoot(p) THEN <<Dot>> ELSE FlattenSeq([i \in DOMAIN p |-> <<Dot>> \o ComponentText(p[i])])

(* Blocks of BytesPerLine bytes, each but a short last one with a space.   *)
BytesPerLine == 32
ByteblockText(b) ==
  <<Hash, Bra>> \o
  FlattenSeq([i \in DOMAIN b |-> Padded(b[i], 16, 2) \o IF i % BytesPerLine = 0 THEN <<Space>> ELSE <<>>])
  \o <<Ket>>

RECURSIVE toString(_)
Separated(ts) == FlattenSeq([i \in DOMAIN ts |-> (IF i = 1 THEN <<>> ELSE <<Comma, Space>>) \o ts[i]])
commaList(l) == Separated([i \in DOMAIN l |-> toString(l[i])])
toString(v) ==
  CASE v[1] = "void"      -> NilText
    [] v[1] = "boolean"   -> IF v[2] THEN True ELSE False
    [] v[1] = "integer"   -> IntegerText(v[2])
    [] v[1] = "string"    -> StringText(v[2])
    [] v[1] = "byteblock" -> ByteblockText(v[2])
    [] v[1] = "path"      -> PathText(v[2])
    [] v[1] = "symbol"    -> <<Backquote>> \o v[2]
    [] v[1] = "list"      -> <<Bra>> \o commaList(v[2]) \o <<Ket>>
    [] v[1] = "term"      -> <<Backquote>> \o v[2][1] \o <<Space, Open>> \o commaList(v[2][2]) \o <<Close>>
    [] v[1] = "map"       -> <<Dollar, Bra>> \o
         Separated([i \in DOMAIN Keys(v[2]) |->
           toString(Keys(v[2])[i]) \o <<Colon>> \o toString(v[2][Keys(v[2])[i]])]) \o <<Ket>>

-----------------------------------------------------------------------------
(* The path constructor: the text of a path constant, "" included.         *)

HexDigit == Digit \cup 65..70 \cup 97..102
fromhex(c) == IF c \in Digit THEN c - 48 ELSE IF c \in Upper THEN c - 55 ELSE c - 87

(* Component(string): what stands between the quotes.  \x takes one or two *)
(* hexadecimal digits.                                                     *)
RECURSIVE Unquoted(_)
Unquoted(t) ==
  IF t = <<>> \/ Head(t) = Quote THEN <<>>
  ELSE IF Head(t) # Backslash THEN <<Head(t)>> \o Unquoted(Tail(t))
  ELSE IF Len(t) = 1 THEN <<Backslash>>
  ELSE IF t[2] = 120 /\ Len(t) > 3 /\ t[3] \in HexDigit /\ t[4] \in HexDigit
    THEN <<16 * fromhex(t[3]) + fromhex(t[4])>> \o Unquoted(SubSeq(t, 5, Len(t)))
  ELSE IF t[2] = 120 /\ Len(t) > 2 /\ t[3] \in HexDigit
    THEN <<fromhex(t[3])>> \o Unquoted(SubSeq(t, 4, Len(t)))
  ELSE IF t[2] = 120 THEN <<0>> \o Unquoted(SubSeq(t, 3, Len(t)))
  ELSE <<IF t[2] \in Range(Letter) THEN Unletter(t[2]) ELSE t[2]>> \o Unquoted(SubSeq(t, 3, Len(t)))

SimpleChars == Alnum \cup {Underscore, Dash}
Component(t) ==
  IF Head(t) = Quote THEN <<Unquoted(Tail(t)), TRUE>> ELSE <<t, ~(Range(t) \subseteq SimpleChars)>>

(* Where the component that starts at a ends: the last place before a dot  *)
(* or the end of the text, or the closing quote (0 when there is none).    *)
RECURSIVE ClosingQuote(_, _)
ClosingQuote(t, i) ==
  IF i > Len(t) THEN 0 ELSE IF t[i] = Backslash THEN ClosingQuote(t, i + 2)
  ELSE IF t[i] = Quote THEN i ELSE ClosingQuote(t, i + 1)
SimpleEnd(t, a) == Min({i \in a..Len(t) : i = Len(t) \/ t[i + 1] = Dot})

BadComponent == <<<<-1>>, FALSE>>
RECURSIVE Components(_, _)
(* The components of text t from the dot at place d on.                    *)
Components(t, d) ==
  IF d >= Len(t) THEN <<>>
  ELSE LET complex == t[d + 1] = Quote
           e == IF complex THEN ClosingQuote(t, d + 2) ELSE SimpleEnd(t, d + 1)
       IN  IF e = 0 THEN <<>>
           ELSE IF ~complex /\ Dash \in {t[d + 1], t[e]} THEN <<BadComponent>>
           ELSE <<Component(SubSeq(t, d + 1, e))>> \o Components(t, e + 1)

(* A dash next to a dot clears all components.                             *)
YCPPathRep(t) == LET cs == Components(t, 1) IN IF Contains(cs, BadComponent) THEN <<>> ELSE cs

(* topath puts a dot before a string that has none.                        *)
p_topath(s) == Path(YCPPathRep(IF s # <<>> /\ s[1] = Dot THEN s ELSE <<Dot>> \o s))

-----------------------------------------------------------------------------
(* The scanner: the longest token at the start of a text.  A token is a    *)
(* pair <<name, value>>; rest is the text after it.                        *)

ErrorToken == [token |-> <<"SCANNER_ERROR", 0>>, rest |-> <<>>]
EndToken == [token |-> <<"END_OF_FILE", 0>>, rest |-> <<>>]
Token(name, value, t, n) == [token |-> <<name, value>>, rest |-> SubSeq(t, n + 1, Len(t))]

(* The length of the longest start of t whose characters are all in cs.    *)
SpanOf(t, cs) == LET i == SelectInSeq(t, LAMBDA c : c \notin cs) IN IF i = 0 THEN Len(t) ELSE i - 1

RECURSIVE NumberOf(_, _)
NumberOf(t, base) == IF t = <<>> THEN 0 ELSE NumberOf(Front(t), base) * base + fromhex(Last(t))

Wrap(x, w) == ((x + 2^(w - 1)) % 2^w) - 2^(w - 1)
WrapLL(x) == Wrap(x, LongLongBits)
MaxLL == 2^(LongLongBits - 1) - 1

(* atoll stops at the largest number; %Lo and %Lx read an unsigned one.    *)
ScanNumber(t) ==
  IF Len(t) > 2 /\ t[1] = 48 /\ t[2] = 120 /\ t[3] \in HexDigit
    THEN LET n == 2 + SpanOf(SubSeq(t, 3, Len(t)), HexDigit)
         IN  Token("C_INTEGER", WrapLL(NumberOf(SubSeq(t, 3, n), 16)), t, n)
  ELSE LET n == SpanOf(t, Digit)  s == SubSeq(t, 1, n)
       IN  IF t[1] # 48 THEN Token("C_INTEGER", Min({NumberOf(s, 10), MaxLL}), t, n)
           ELSE IF Range(s) \subseteq 48..55 THEN Token("C_INTEGER", WrapLL(NumberOf(s, 8)), t, n)
           ELSE ErrorToken

(* The start condition str: escapes of one to three octal digits or of one *)
(* character; an escaped newline is dropped.                               *)
RECURSIVE StringFrom(_, _)
StringFrom(t, s) ==
  IF t = <<>> THEN ErrorToken
  ELSE IF Head(t) = Quote THEN [token |-> <<"STRING", s>>, rest |-> Tail(t)]
  ELSE IF Head(t) # Backslash THEN StringFrom(Tail(t), Append(s, Head(t)))
  ELSE IF Len(t) = 1 THEN ErrorToken
  ELSE LET n == Min({3, SpanOf(Tail(t), 48..55)})
           o == NumberOf(SubSeq(t, 2, n + 1), 8)
       IN  IF n > 0 THEN StringFrom(SubSeq(t, n + 2, Len(t)), IF o \in 1..255 THEN Append(s, o) ELSE s)
           ELSE StringFrom(SubSeq(t, 3, Len(t)),
                  IF t[2] = 10 THEN s ELSE Append(s, IF t[2] \in Range(Letter) THEN Unletter(t[2]) ELSE t[2]))

(* The start condition bybl: pairs of hexadecimal digits and white space.  *)
RECURSIVE ByteblockFrom(_, _)
ByteblockFrom(t, b) ==
  IF t = <<>> THEN ErrorToken
  ELSE IF Head(t) = Ket THEN [token |-> <<"C_BYTEBLOCK", b>>, rest |-> Tail(t)]
  ELSE IF Head(t) \in {Space, 9, 10, 13} THEN ByteblockFrom(Tail(t), b)
  ELSE IF Len(t) > 1 /\ {t[1], t[2]} \subseteq HexDigit
    THEN ByteblockFrom(SubSeq(t, 3, Len(t)), Append(b, 16 * fromhex(t[1]) + fromhex(t[2])))
  ELSE ErrorToken

(* PATHSEGMENTs, each after a dot, from place i on: where the last ends.   *)
RECURSIVE PathEnd(_, _)
PathEnd(t, i) ==
  IF i + 1 >= Len(t) + 1 \/ t[i] # Dot THEN i - 1
  ELSE IF t[i + 1] \in Alpha \cup {Underscore}
    THEN PathEnd(t, i + 1 + SpanOf(SubSeq(t, i + 1, Len(t)), SimpleChars))
  ELSE IF t[i + 1] = Quote /\ ClosingQuote(t, i + 2) # 0 THEN PathEnd(t, ClosingQuote(t, i + 2) + 1)
  ELSE i - 1
ScanPath(t) ==
  LET n == Max({1, PathEnd(t, 1)})
  IN  IF t[n] = Dash THEN ErrorToken ELSE Token("C_PATH", YCPPathRep(SubSeq(t, 1, n)), t, n)

(* SYMBOL: a letter, or an underscore and something more.                  *)
SymbolLen(t) ==
  LET n == SpanOf(t, Alnum \cup {Underscore})
  IN  IF n = 0 \/ t[1] \in Digit \/ (n = 1 /\ t[1] = Underscore) THEN 0 ELSE n
ScanSymbol(t) ==
  LET n == SymbolLen(Tail(t)) IN IF n = 0 THEN ErrorToken ELSE Token("C_SYMBOL", SubSeq(t, 2, n + 1), t, n + 1)

ScanWord(t) ==
  LET n == SymbolLen(t)  w == SubSeq(t, 1, n)
  IN  CASE w = NilText       -> Token("C_VOID", 0, t, n)
        [] w \in {True, False} -> Token("C_BOOLEAN", w = True, t, n)
        [] OTHER             -> ErrorToken

RECURSIVE yylex(_)
yylex(t) ==
  IF t = <<>> THEN EndToken
  ELSE CASE Head(t) \in {Space, 9, 10, 11, 12, 13} -> yylex(Tail(t))
    [] Head(t) \in Digit                      -> ScanNumber(t)
    [] Head(t) = Quote                        -> StringFrom(Tail(t), <<>>)
    [] Head(t) = Hash /\ Len(t) > 1 /\ t[2] = Bra -> ByteblockFrom(SubSeq(t, 3, Len(t)), <<>>)
    [] Head(t) = Dot                          -> ScanPath(t)
    [] Head(t) = Backquote                    -> ScanSymbol(t)
    [] Head(t) = Dollar /\ Len(t) > 1 /\ t[2] = Bra -> Token("MAPEXPR", 0, t, 2)
    [] Head(t) = Ket /\ Len(t) > 1 /\ t[2] = Colon  -> Token("CLOSEBRACKET", 0, t, 2)
    [] Head(t) \in {Open, Close, Comma, Dash, Colon, Bra, Ket} -> Token("char", Head(t), t, 1)
    [] Head(t) \in Alpha \cup {Underscore}    -> ScanWord(t)
    [] OTHER                                  -> ErrorToken

-----------------------------------------------------------------------------
(* The parser: constants, lists, maps and terms of them.                   *)

NoParse == [ok |-> FALSE, value |-> Null, rest |-> <<>>]
Parsed(v, t) == [ok |-> TRUE, value |-> v, rest |-> t]
IsChar(s, c) == s.token = <<"char", c>>

(* Values separated by commas up to the character close.  In a list and in *)
(* a map, not among the arguments of a term, a comma may stand before it.  *)
RECURSIVE expression(_), elements(_, _, _), tuples(_, _)
elements(t, close, acc) ==
  IF IsChar(yylex(t), close) /\ (close = Ket \/ acc = <<>>) THEN Parsed(acc, yylex(t).rest)
  ELSE LET e == expression(t)
           after == yylex(e.rest)
       IN  IF ~e.ok THEN NoParse
           ELSE IF IsChar(after, Comma) THEN elements(after.rest, close, Append(acc, e.value))
           ELSE IF IsChar(after, close) THEN Parsed(Append(acc, e.value), after.rest)
           ELSE NoParse

tuples(t, acc) ==
  IF IsChar(yylex(t), Ket) THEN Parsed(acc, yylex(t).rest)
  ELSE LET k == expression(t)
           colon == yylex(k.rest)
           v == expression(colon.rest)
           after == yylex(v.rest)
           m == mapAdd(acc, k.value, v.value)
       IN  IF ~k.ok \/ ~IsKey(k.value) \/ ~IsChar(colon, Colon) \/ ~v.ok THEN NoParse
           ELSE IF IsChar(after, Comma) THEN tuples(after.rest, m)
           ELSE IF IsChar(after, Ket) THEN Parsed(m, after.rest)
           ELSE NoParse

expression(t) ==
  LET s == yylex(t)  k == s.token[1]  x == s.token[2]
      Of(r, v) == IF r.ok THEN Parsed(v, r.rest) ELSE NoParse
  IN  CASE k = "C_VOID"      -> Parsed(Nil, s.rest)
        [] k = "C_BOOLEAN"   -> Parsed(Boolean(x), s.rest)
        [] k = "C_INTEGER"   -> Parsed(Integer(x), s.rest)
        [] k = "STRING"      -> Parsed(String(x), s.rest)
        [] k = "C_BYTEBLOCK" -> Parsed(Byteblock(x), s.rest)
        [] k = "C_PATH"      -> Parsed(Path(x), s.rest)
        [] k = "C_SYMBOL"    -> IF IsChar(yylex(s.rest), Open)
                                  THEN LET r == elements(yylex(s.rest).rest, Close, <<>>) IN Of(r, Term(x, r.value))
                                  ELSE Parsed(Symbol(x), s.rest)
        [] k = "MAPEXPR"     -> LET r == tuples(s.rest, EmptyMap) IN Of(r, Map(r.value))
        [] IsChar(s, Bra)    -> LET r == elements(s.rest, Ket, <<>>) IN Of(r, List(r.value))
        [] IsChar(s, Dash)   -> LET r == expression(s.rest)
                                IN  IF r.ok /\ r.value[1] = "integer"
                                      THEN Parsed(Integer(WrapLL(-r.value[2])), r.rest) ELSE NoParse
        [] OTHER             -> NoParse

parse(t) == LET r == expression(t) IN IF r.ok THEN r.value ELSE Null

=============================================================================
