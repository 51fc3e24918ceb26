------------------------------- MODULE YCPTypes ------------------------------
(***************************************************************************)
(* The types of YCP (Type.cc, Type.h, TypeStatics.cc): when a value of one *)
(* type may stand where another is expected, the type of a list or map     *)
(* with various elements, the template types of builtins ("flex"), the     *)
(* signatures builtins are declared with, and the choice among overloaded  *)
(* declarations (StaticDeclaration::findDeclaration).                      *)
(*                                                                         *)
(* args holds the types a type is made of: the element of a list, block or *)
(* variable, key and value of a map, the members of a tuple, the returned  *)
(* type and then the parameters of a function.  base is isBasetype():      *)
(* FlexT is also a base type when it was read from bytecode.               *)
(***************************************************************************)
EXTENDS YCPValues

Class(k, args, num, base) == [kind |-> k, const |-> FALSE, ref |-> FALSE, num |-> num, base |-> base, args |-> args]
Base(k)         == Class(k, <<>>, 0, TRUE)
FlexType        == Class("flex", <<>>, 0, FALSE)
NFlexType(n)    == Class("nflex", <<>>, n, FALSE)
VariableType(t) == Class("variable", <<t>>, 0, FALSE)
ListType(t)     == Class("list", <<t>>, 0, FALSE)
MapType(k, v)   == Class("map", <<k, v>>, 0, FALSE)
BlockType(t)    == Class("block", <<t>>, 0, FALSE)
TupleType(ts)   == Class("tuple", ts, 0, FALSE)
FunctionType(r, ts) == Class("function", <<r>> \o ts, 0, FALSE)
AsConst(t) == [t EXCEPT !.const = TRUE]
AsReference(t) == [t EXCEPT !.ref = TRUE]

Unspec == Base("unspec")
AnyType    == Base("any")
Void   == Base("void")
Error  == Base("error")
NoType == Base("null")        \* a null pointer instead of a type

isFlex(t) == t.kind \in {"flex", "nflex"}
parameters(f) == Tail(f.args)
parameterType(f, i) == IF i + 1 <= Len(parameters(f)) THEN parameters(f)[i + 1] ELSE Error

(* The code follows a null pointer or reads behind the end of an array.    *)
Undef == -9

-----------------------------------------------------------------------------
(* match: 0 the type is the expected one, > 0 it is after a conversion,    *)
(* < 0 it is not.                                                          *)

Catchall == {"any", "flex", "nflex", "wildcard", "unspec"}

basematch(t, e) ==
  CASE "error" \in {t.kind, e.kind}    -> -1
    [] e.ref /\ ~e.const /\ t.const    -> -1
    [] e.kind \in Catchall             -> 1
    [] t.kind = "void"                 -> 0
    [] t.base = e.base                 -> 0
    [] OTHER                           -> -1

Converts == (<<"integer", "float">> :> 2) @@ (<<"float", "integer">> :> 1)
            @@ (<<"locale", "string">> :> 0) @@ (<<"string", "locale">> :> 0)
TypeMatch(t, e) ==
  IF basematch(t, e) < 0 THEN -1
  ELSE CASE e.kind \in Catchall \/ t.kind = e.kind    -> 0
         [] t.kind = "any"                            -> -1
         [] t.kind \in {"unspec", "void"}             -> 0
         [] <<t.kind, e.kind>> \in DOMAIN Converts    -> Converts[<<t.kind, e.kind>>]
         [] OTHER                                     -> -1

RECURSIVE match(_, _)
ListMatch(t, e) ==
  e.kind = "list" /\ (e.args[1].kind = "unspec" \/ t.args[1].kind = "unspec" \/ match(t.args[1], e.args[1]) >= 0)
MapMatch(t, e) == e.kind = "map" /\ \A i \in 1..2 : t.args[i].kind = "unspec" \/ match(t.args[i], e.args[i]) >= 0
InnerMatch(t, e) == e.kind = t.kind /\ match(t.args[1], e.args[1]) >= 0

(* The members from one behind the wildcard on are not looked at; a member *)
(* without a counterpart is not checked against the length.                *)
TupleMatch(t, e) ==
  LET wildcard == e.kind = "tuple" /\ Last(e.args).kind = "wildcard"
      seen == {i \in DOMAIN t.args : ~wildcard \/ i <= Len(e.args) + 1}
      bad  == {i \in seen : i > Len(e.args) \/ match(t.args[i], e.args[i]) < 0}
  IN  IF e.kind # "tuple" THEN -1
      ELSE IF bad = {} THEN 0 ELSE IF Min(bad) > Len(e.args) THEN Undef ELSE -1

FunctionMatch(t, e) ==
  LET esize == Len(e.args) - 1
      n == Len(t.args) - 1
      wildcard == esize > 0 /\ Last(e.args).kind = "wildcard"
  IN  CASE e.kind # "function" \/ match(t.args[1], e.args[1]) < 0 -> -1
        [] esize = 0 /\ n = 0           -> 0
        [] ~wildcard /\ esize # n       -> -1
        [] n = 0                        -> Undef
        [] OTHER -> IF \A i \in 0..(n - 1) : (wildcard /\ i > esize) \/
                                              match(parameterType(t, i), parameterType(e, i)) >= 0
                      THEN 0 ELSE -1

match(t, e) ==
  CASE t.base                    -> TypeMatch(t, e)
    [] isFlex(t)                 -> IF isFlex(e) THEN 0 ELSE -1
    [] basematch(t, e) = 1       -> 0
    [] basematch(t, e) < 0       -> -1
    [] t.kind = "list"           -> IF ListMatch(t, e) THEN 0 ELSE -1
    [] t.kind = "map"            -> IF MapMatch(t, e) THEN 0 ELSE -1
    [] t.kind \in {"variable", "block"} -> IF InnerMatch(t, e) THEN 0 ELSE -1
    [] t.kind = "tuple"          -> TupleMatch(t, e)
    [] t.kind = "function"       -> FunctionMatch(t, e)

(* Does a value have a type?  The keys of a map are only looked at when    *)
(* its values have a type of their own.                                    *)
RECURSIVE matchvalue(_, _)
Loose == {"any", "unspec"}
matchvalue(t, v) ==
  CASE v = Null        -> FALSE
    [] t.kind = "any" \/ isVoid(v) -> TRUE
    [] v[1] = "list"   -> t.kind = "list" /\ ~t.base /\ (t.args[1].kind \in Loose \/
                            \A i \in DOMAIN v[2] : matchvalue(t.args[1], v[2][i]))
    [] v[1] = "map"    -> t.kind = "map" /\ ~t.base /\ (t.args[2].kind \in Loose \/
                            \A k \in DOMAIN v[2] : matchvalue(t.args[1], k) /\ matchvalue(t.args[2], v[2][k]))
    [] v[1] \in {"boolean", "integer", "float", "string", "byteblock", "path", "symbol", "term"} -> t.kind = v[1]
    [] OTHER           -> FALSE

(* The cast of a tuple reads behind the end of a shorter one: FALSE here.  *)
RECURSIVE canCast(_, _)
TypeCanCast(t, to)  == t.kind = "any" \/ match(t, to) >= 0
InnerCanCast(t, to) == to.kind = t.kind /\ canCast(t.args[1], to.args[1])
MapCanCast(t, to)   == to.kind = "map" /\ \A i \in 1..2 : canCast(t.args[i], to.args[i])
TupleCanCast(t, to) ==
  to.kind = "tuple" /\ Len(t.args) <= Len(to.args) /\ \A i \in DOMAIN t.args : canCast(t.args[i], to.args[i])
canCast(t, to) ==
  CASE t.kind = "function"               -> FALSE
    [] t.kind \in {"list", "block"}      -> InnerCanCast(t, to)
    [] t.kind = "map"                    -> MapCanCast(t, to)
    [] t.kind = "tuple"                  -> TupleCanCast(t, to)
    [] OTHER                             -> TypeCanCast(t, to)

(* equals of functions looks at this one's parameters only; of tuples, it  *)
(* takes members that are equal for a difference.                          *)
RECURSIVE equals(_, _)
TypeEquals(t, e)  == t.base = e.base /\ t.kind = e.kind
InnerEquals(t, e) == t.kind = e.kind /\ equals(t.args[1], e.args[1])
MapEquals(t, e)   == e.kind = "map" /\ \A i \in 1..2 : equals(t.args[i], e.args[i])
TupleEquals(t, e) ==
  e.kind = "tuple" /\ Len(t.args) = Len(e.args) /\ \A i \in DOMAIN t.args : ~equals(t.args[i], e.args[i])
FunctionEquals(t, e) ==
  e.kind = "function" /\ equals(t.args[1], e.args[1])
  /\ \A i \in 0..(Len(t.args) - 2) : equals(parameterType(t, i), parameterType(e, i))
equals(t, e) ==
  CASE t.base \/ isFlex(t)                        -> TypeEquals(t, e)
    [] t.kind \in {"variable", "list", "block"}   -> InnerEquals(t, e)
    [] t.kind = "map"                             -> MapEquals(t, e)
    [] t.kind = "tuple"                           -> TupleEquals(t, e)
    [] t.kind = "function"                        -> FunctionEquals(t, e)

-----------------------------------------------------------------------------
(* The type of several values, and the more precise of two types.          *)

RECURSIVE commontype(_, _), detailedtype(_, _)
TypeCommontype(t, u) ==
  CASE t.kind = "void"                        -> u
    [] match(t, u) >= 0                       -> t
    [] t.kind # "any" /\ match(u, t) >= 0     -> u
    [] OTHER                                  -> AnyType
ListCommontype(t, u) ==
  CASE u.kind \in {"void", "unspec"} -> t
    [] u.kind = "list"               -> ListType(commontype(t.args[1], u.args[1]))
    [] OTHER                         -> AnyType
MapCommontype(t, u) ==
  CASE u.kind \in {"void", "unspec"} -> t
    [] u.kind = "map"                -> MapType(commontype(t.args[1], u.args[1]), commontype(t.args[2], u.args[2]))
    [] OTHER                         -> AnyType
commontype(t, u) ==
  CASE t.kind = "list" /\ ~t.base -> ListCommontype(t, u)
    [] t.kind = "map" /\ ~t.base  -> MapCommontype(t, u)
    [] OTHER                      -> TypeCommontype(t, u)

TypeDetailedtype(t, u) ==
  CASE t.kind = "void"                        -> u
    [] u.kind \in {"void", "unspec", "any"}   -> t
    [] t.kind \in {"unspec", "any"}           -> u
    [] match(t, u) >= 0                       -> u
    [] match(u, t) >= 0                       -> t
    [] OTHER                                  -> Error
ListDetailedtype(t, u) ==
  CASE u.kind \in {"void", "unspec"} -> t
    [] u.kind = "list"               -> ListType(detailedtype(t.args[1], u.args[1]))
    [] OTHER                         -> Error
MapDetailedtype(t, u) ==
  CASE u.kind \in {"void", "unspec"} -> t
    [] u.kind = "map"                -> MapType(detailedtype(t.args[1], u.args[1]), detailedtype(t.args[2], u.args[2]))
    [] OTHER                         -> Error
detailedtype(t, u) ==
  CASE t.kind = "list" /\ ~t.base -> ListDetailedtype(t, u)
    [] t.kind = "map" /\ ~t.base  -> MapDetailedtype(t, u)
    [] OTHER                      -> TypeDetailedtype(t, u)

-----------------------------------------------------------------------------
(* Templates.  clone() forgets const and &.                                *)

clone(t) == [t EXCEPT !.const = FALSE, !.ref = FALSE]

(* The type that the flex with this number stands for, or NoType.          *)
RECURSIVE matchFlex(_, _, _)
FirstOf(ts) == LET i == SelectInSeq(ts, LAMBDA t : t # NoType) IN IF i = 0 THEN NoType ELSE ts[i]
NFlexMatchFlex(d, t, number) ==
  CASE number # d.num      -> NoType
    [] t.kind = "unspec"   -> AnyType
    [] OTHER               -> t
InnerMatchFlex(d, t, number) == matchFlex(d.args[1], t.args[1], number)
MapMatchFlex(d, t, number) ==
  FirstOf(<<matchFlex(d.args[2], t.args[2], number), matchFlex(d.args[1], t.args[1], number)>>)
TupleMatchFlex(d, t, number) ==
  FirstOf([i \in 1..Min({Len(d.args), Len(t.args)}) |-> matchFlex(d.args[i], t.args[i], number)])
FunctionMatchFlex(d, t, number) ==
  FirstOf([i \in 1..(Min({Len(d.args), Len(t.args)}) - 1) |-> matchFlex(d.args[i + 1], t.args[i + 1], number)])
matchFlex(d, t, number) ==
  CASE isFlex(d) /\ ~d.base                       -> NFlexMatchFlex(d, t, number)
    [] d.kind # t.kind \/ d.base                  -> NoType
    [] d.kind \in {"variable", "list", "block"}   -> InnerMatchFlex(d, t, number)
    [] d.kind = "map"                             -> MapMatchFlex(d, t, number)
    [] d.kind = "tuple"                           -> TupleMatchFlex(d, t, number)
    [] d.kind = "function"                        -> FunctionMatchFlex(d, t, number)

(* A map replaces one flex at a time, and none inside its key or value.    *)
RECURSIVE unflex(_, _, _)
NFlexUnflex(d, t, number) == IF number = d.num THEN [t EXCEPT !.const = d.const, !.ref = d.ref] ELSE clone(d)
MapUnflex(d, t, number) ==
  CASE isFlex(d.args[1])   -> MapType(unflex(d.args[1], t, number), d.args[2])
    [] isFlex(d.args[2])   -> MapType(d.args[1], unflex(d.args[2], t, number))
    [] OTHER               -> clone(d)
InnerUnflex(d, t, number) == Class(d.kind, <<unflex(d.args[1], t, number)>>, 0, FALSE)
TupleUnflex(d, t, number) == TupleType([i \in DOMAIN d.args |-> unflex(d.args[i], t, number)])
FunctionUnflex(d, t, number) == Class("function", [i \in DOMAIN d.args |-> unflex(d.args[i], t, number)], 0, FALSE)
unflex(d, t, number) ==
  CASE isFlex(d) /\ ~d.base                       -> NFlexUnflex(d, t, number)
    [] d.base                                     -> clone(d)
    [] d.kind = "map"                             -> MapUnflex(d, t, number)
    [] d.kind \in {"variable", "list", "block"}   -> InnerUnflex(d, t, number)
    [] d.kind = "tuple"                           -> TupleUnflex(d, t, number)
    [] d.kind = "function"                        -> FunctionUnflex(d, t, number)

(* flex, then flex1, flex2 ... until one of them is not there.             *)
RECURSIVE FlexFrom(_, _, _)
FlexOnce(actual, declared, number) ==   \* mutant: only the flex without a number
  LET flextype == matchFlex(declared, actual, 0) IN IF flextype = NoType THEN declared ELSE unflex(declared, flextype, 0)
FlexFrom(actual, declared, number) ==
  LET flextype == matchFlex(declared, actual, number)
      result == IF flextype = NoType THEN declared ELSE unflex(declared, flextype, number)
  IN  IF number = 0 \/ flextype # NoType THEN FlexFrom(actual, result, number + 1) ELSE result
determineFlexType(actual, declared) ==
  IF parameters(declared) = <<>> THEN NoType ELSE FlexFrom(actual, declared, 0)

-----------------------------------------------------------------------------
(* Which of the declarations of an overloaded builtin fits the parameters. *)
(* partial: not all parameters are there yet.                              *)

Fits(d, a, partial) ==
  LET dcount == Len(parameters(d))  acount == Len(parameters(a))
      wild == SelectInSeq(parameters(d), LAMBDA p : p.kind = "wildcard")
      last == IF wild \in 1..acount THEN wild ELSE acount
  IN  IF acount = 0 THEN dcount = 0 \/ wild = 1
      ELSE /\ \A i \in 1..last : i <= dcount /\ match(parameters(a)[i], parameters(d)[i]) = 0
           /\ partial \/ acount = dcount \/ wild \in 1..acount \/ parameterType(d, acount).kind = "wildcard"
findDeclaration(decls, a, partial) ==
  SelectInSeq(decls, LAMBDA d : d.kind = "function" /\ a.kind = "function" /\ Fits(d, a, partial))

-----------------------------------------------------------------------------
(* Signatures: a sequence of tokens.  nextToken gives "unspec" at the end  *)
(* and for words it does not know.                                         *)

BaseTypes == {"any", "boolean", "byteblock", "float", "integer", "locale", "path", "string", "symbol",
              "term", "void", "wildcard", "error"}
Flexes == ("flex" :> FlexType) @@ ("flex1" :> NFlexType(1)) @@ ("flex2" :> NFlexType(2)) @@ ("flex3" :> NFlexType(3))
          @@ ("flex4" :> NFlexType(4))
nextToken(sig) == IF sig = <<>> THEN "unspec" ELSE Head(sig)
After(sig, n) == SubSeq(sig, n + 1, Len(sig))

NoSignature == [t |-> NoType, rest |-> <<>>]
RECURSIVE fromSignature(_), SignatureArgs(_, _, _)

(* From a '(' or ',' on: parameters up to ')'.                             *)
SignatureArgs(f, sig, stop) ==
  LET p == fromSignature(After(sig, 1))
      g == Class(f.kind, Append(f.args, p.t), 0, FALSE)
      next == nextToken(p.rest)
  IN  IF stop = ")" /\ nextToken(After(sig, 1)) = ")" THEN [t |-> f, rest |-> After(sig, 2)]
      ELSE IF p.t = NoType THEN NoSignature
      ELSE IF next = "," THEN SignatureArgs(g, p.rest, stop)
      ELSE IF next # stop THEN NoSignature
      ELSE [t |-> g, rest |-> IF stop = ")" THEN After(p.rest, 1) ELSE p.rest]

fromSignature(sig) ==
  LET const == nextToken(sig) = "const"
      s == IF const THEN Tail(sig) ELSE sig
      k == nextToken(s)
      Q(t) == IF const THEN AsConst(t) ELSE t
      one == fromSignature(After(s, 2))
      two == fromSignature(After(one.rest, 1))
      Inner(t, rest) == IF nextToken(rest) = ">" THEN [t |-> t, rest |-> After(rest, 1)] ELSE NoSignature
      head == CASE k \in BaseTypes      -> [t |-> IF k \in {"wildcard", "error"} THEN Base(k) ELSE Q(Base(k)), rest |-> After(s, 1)]
                [] k \in DOMAIN Flexes  -> [t |-> Q(Flexes[k]), rest |-> After(s, 1)]
                [] k \in {"variable", "block", "list", "map", "tuple"} /\ nextToken(After(s, 1)) = "<" ->
                     CASE one.t = NoType -> NoSignature
                       [] k = "map"      -> IF nextToken(one.rest) # "," \/ two.t = NoType THEN NoSignature
                                            ELSE Inner(Q(MapType(one.t, two.t)), two.rest)
                       [] k = "tuple"    -> [t |-> TupleType(<<one.t>>), rest |-> one.rest]
                       [] OTHER          -> Inner(Q(Class(k, <<one.t>>, 0, FALSE)), one.rest)
                [] OTHER                -> NoSignature
      amp  == head.rest # <<>> /\ Head(head.rest) = "&"
      t    == IF amp THEN AsReference(clone(head.t)) ELSE head.t
      rest == IF amp THEN Tail(head.rest) ELSE head.rest
  IN  CASE sig = <<>>              -> [t |-> Unspec, rest |-> <<>>]
        [] head.t = NoType         -> NoSignature
        [] nextToken(rest) = "("   -> SignatureArgs(Q(FunctionType(t, <<>>)), rest, ")")
        [] k = "tuple"             -> IF nextToken(rest) = "," THEN SignatureArgs(clone(t), rest, ">")
                                      ELSE IF nextToken(rest) = ">" THEN [t |-> clone(t), rest |-> rest] ELSE NoSignature
        [] OTHER                   -> [t |-> t, rest |-> rest]

(* Types and the kinds of values.                                          *)
vt2type(k) == CASE k = "list"      -> ListType(AnyType)
                [] k = "map"       -> MapType(AnyType, AnyType)
                [] k = "code"      -> BlockType(AnyType)
                [] k = "entry"     -> VariableType(AnyType)
                [] k = "external"  -> AnyType
                [] k \in {"return", "break", "error", "reference"} -> Unspec
                [] OTHER           -> Base(k)
valueType(t) == CASE t.kind \in {"any", "nil"} -> "void"
                  [] t.kind = "locale"         -> "string"
                  [] t.kind = "variable"       -> "entry"
                  [] t.kind = "block"          -> "code"
                  [] t.kind \in {"unspec", "error", "wildcard", "flex", "nflex", "tuple", "function"} -> "error"
                  [] OTHER                     -> t.kind

=============================================================================
