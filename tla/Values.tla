--------------------------------- MODULE Values ---------------------------------
(***************************************************************************)
(* The built-in functions on arrays, objects and strings (func.go), the    *)
(* operators on them (operator.go) and the order of all values             *)
(* (compare.go).                                                           *)
(*                                                                         *)
(* A string is a sequence of runes of a small alphabet, in the order of    *)
(* Unicode: those below OneByte are encoded in one byte, the others in two.*)
(* The numbers in Surrogates are no runes, and RuneError is U+FFFD, which  *)
(* stands for what is none.  A string may also have a Stray, a byte that   *)
(* belongs to no rune (0xFF, after @base64d or in an argument).  LongString*)
(* is the limit of repeatString, math.MaxInt32 in the code.                *)
(***************************************************************************)
EXTENDS Data, SequencesExt, TLC

CONSTANTS Calls,       \* sets of [fn, v, args]: the function, its input and its arguments
          Witnesses,   \* values that a comparison is set beside
          MaxRune, RuneError, Surrogates, OneByte, LongString

\* Further out than any index or length: where floatTrunc puts infinities and NaN.
Far == 1000

Nul == 0
Tab == 1
Newline == 2
Blank == 3
Quote == 4
Apostrophe == 5
Comma == 6
Zero_ == 7
Backslash == 8
LetterN == 9
LetterT == 10

ASSUME ValuesAssumption ==
    /\ {MaxRune, RuneError, OneByte, LongString} \subseteq Nat
    /\ LetterT < OneByte /\ OneByte <= RuneError /\ RuneError <= MaxRune
    /\ Surrogates \subseteq OneByte .. MaxRune /\ RuneError \notin Surrogates

Runes == (0 .. MaxRune) \ Surrogates
Stray == MaxRune + 1

VARIABLES asked, answer    \* a call, and <<>> or its result

valVars == <<asked, answer>>

\* Numbers are small here, and kept in halves: that their arithmetic is exact is a matter of Numbers.  As integers and
\* as floats they are equal, but not the same.
IntValue(n)  == Num([k |-> "int", h |-> 2 * n])
FloatValue(h) == Num([k |-> "float", h |-> h])
Infinite(s)  == Num([k |-> "inf", h |-> s * Far])
NotANumber   == Num([k |-> "nan", h |-> -Far - 2])
Plus(a, b) ==
    IF "nan" \in {a.k, b.k} \/ (a.k = "inf" /\ b = [a EXCEPT !.h = -@]) THEN NotANumber
    ELSE IF "inf" \in {a.k, b.k} THEN Infinite(Sign(a.h + b.h))
    ELSE Num([k |-> IF a.k = b.k THEN a.k ELSE "float", h |-> a.h + b.h])

\* toInt and toIntCeil
Trunc(n) == Sign(n.h) * (Abs(n.h) \div 2)
Ceil(n)  == IF n.k = "float" THEN -((-n.h) \div 2) ELSE Trunc(n)

\* What Compare makes of two numbers: NaN is less than any, itself too.
NumOrder(a, b) == IF a.k = "nan" THEN -1 ELSE Sign(a.h - b.h)

\* A call with a value of another type is an error.
Of(types, v, r) == IF v.t \in types THEN r ELSE Fault

\* keys: the strings are sorted as their runes are, which is how their bytes are.
RuneLess(s, t) ==
    LET n == CHOOSE n \in 0 .. Len(s) : /\ SubSeq(s, 1, n) = SubSeq(t, 1, n)
                                        /\ n = Len(s) \/ n >= Len(t) \/ s[n + 1] # t[n + 1]
    IN  n < Len(t) /\ (n = Len(s) \/ s[n + 1] < t[n + 1])
KeysOf(f) == SetToSortSeq(DOMAIN f, RuneLess)

\* values
Contents(v) == IF v.t = "map" THEN [i \in DOMAIN KeysOf(v.f) |-> v.f[KeysOf(v.f)[i]]] ELSE v.s

Keys(v) ==
    Of({"list", "map"}, v,
       List(IF v.t = "list" THEN [i \in DOMAIN v.s |-> IntValue(i - 1)] ELSE [i \in DOMAIN KeysOf(v.f) |-> Str(KeysOf(v.f)[i])]))

LengthOf(v) ==
    CASE v.t = "null" -> IntValue(0)
      [] v.t = "num" -> Num(IF v.n.k = "nan" THEN v.n ELSE [v.n EXCEPT !.h = Abs(@)])
      [] v.t = "str" -> IntValue(Len(v.r))
      [] v.t = "list" -> IntValue(Len(v.s))
      [] v.t = "map" -> IntValue(Cardinality(DOMAIN v.f))
      [] OTHER -> Fault

Has(v, x) ==
    CASE v.t = "list" /\ x.t = "num" -> Bool(0 <= Trunc(x.n) /\ Trunc(x.n) < Len(v.s))
      [] v.t = "map" /\ x.t = "str" -> Bool(x.r \in DOMAIN v.f)
      [] v.t = "null" -> Bool(FALSE)
      [] OTHER -> Fault

-------------------------------------------------------------------------------
(* compare.go                                                              *)

\* typeIndex
TypeIndex(v) ==
    CASE v.t = "null" -> 0 [] v.t = "bool" /\ ~v.b -> 1 [] v.t = "bool" /\ v.b -> 2
      [] v.t = "num" -> 3 [] v.t = "str" -> 4 [] v.t = "list" -> 5 [] v.t = "map" -> 6

RECURSIVE Compare(_, _)
\* Mutant: what is left over of the longer one does not count.
CompareCommon(a, b) ==
    LET differ == {i \in DOMAIN a \cap DOMAIN b : Compare(a[i], b[i]) # 0}
    IN  IF differ = {} THEN 0 ELSE Compare(a[Min(differ)], b[Min(differ)])

CompareLists(a, b) ==
    LET differ == {i \in DOMAIN a \cap DOMAIN b : Compare(a[i], b[i]) # 0}
    IN  IF differ = {} THEN Sign(Len(a) - Len(b)) ELSE Compare(a[Min(differ)], b[Min(differ)])

Compare(l, r) ==
    CASE l.t = "num" /\ r.t = "num" -> NumOrder(l.n, r.n)
      [] l.t = "str" /\ r.t = "str" -> IF l = r THEN 0 ELSE IF RuneLess(l.r, r.r) THEN -1 ELSE 1
      [] l.t = "list" /\ r.t = "list" -> CompareLists(l.s, r.s)
      [] l.t = "map" /\ r.t = "map" ->
            LET c == Compare(Keys(l), Keys(r)) IN IF c # 0 THEN c ELSE CompareLists(Contents(l), Contents(r))
      [] OTHER -> Sign(TypeIndex(l) - TypeIndex(r))

-------------------------------------------------------------------------------
(* Functions that order.                                                   *)

\* slices.SortStableFunc, which inserts one element after the other (up to 20, of more it merges sorted blocks of 20).
Inserted(items, x) ==
    InsertAt(items, 1 + Max({0} \cup {i \in DOMAIN items : Compare(x.key, items[i].key) >= 0}), x)

SortItems(v, x) ==
    FoldLeft(Inserted, <<>>, [i \in DOMAIN v.s |-> [value |-> v.s[i], key |-> x.s[i]]])

\* v and its keys x are arrays of the same length.
Keyed(v, x, r) == Of({"list"}, v, Of({"list"}, x, IF Len(v.s) # Len(x.s) THEN Fault ELSE r))

SortBy(v, x) == Keyed(v, x, List([i \in DOMAIN v.s |-> SortItems(v, x)[i].value]))

\* The loop of funcGroupBy; uniqueBy keeps the first of each group.
Grouped(v, x) ==
    FoldLeft(LAMBDA a, r : IF a.rs = <<>> \/ Compare(a.last, r.key) # 0
                           THEN [rs |-> Append(a.rs, <<r.value>>), last |-> r.key]
                           ELSE [a EXCEPT !.rs[Len(a.rs)] = Append(@, r.value)],
             [rs |-> <<>>, last |-> Null], SortItems(v, x)).rs

GroupBy(v, x)  == Keyed(v, x, List([i \in DOMAIN Grouped(v, x) |-> List(Grouped(v, x)[i])]))
UniqueBy(v, x) == Keyed(v, x, List([i \in DOMAIN Grouped(v, x) |-> Head(Grouped(v, x)[i])]))

\* minMaxBy
MinMaxBy(v, x, isMin) ==
    Keyed(v, x,
      IF v.s = <<>> THEN Null
      ELSE v.s[FoldLeft(LAMBDA j, i : IF i > 1 /\ (Compare(x.s[j], x.s[i]) > 0) = isMin THEN i ELSE j,
                        1, [i \in DOMAIN v.s |-> i])])

\* slices.BinarySearchFunc
RECURSIVE Found(_, _, _, _)
Found(vs, t, i, j) ==
    LET h == (i + j) \div 2
    IN  IF i >= j THEN i ELSE IF Compare(vs[h + 1], t) < 0 THEN Found(vs, t, h + 1, j) ELSE Found(vs, t, i, h)

Bsearch(v, t) ==
    Of({"list"}, v, LET i == Found(v.s, t, 0, Len(v.s))
                    IN  IF i < Len(v.s) /\ Compare(v.s[i + 1], t) = 0 THEN IntValue(i) ELSE IntValue(-i - 1))

-------------------------------------------------------------------------------
(* Functions that search and reshape.                                      *)

\* contains: what cannot be compared is an error, which within another value counts as not contained.
RECURSIVE ContainsValue(_, _)
ContainsValue(v, x) ==
    CASE v.t = "num" /\ x.t = "num" -> Bool(NumOrder(v.n, x.n) = 0)
      [] v.t = "str" /\ x.t = "str" -> Bool(\E i \in 0 .. Len(v.r) - Len(x.r) : SubSeq(v.r, i + 1, i + Len(x.r)) = x.r)
      [] v.t = "list" /\ x.t = "list" ->
            Bool(\A j \in DOMAIN x.s : \E i \in DOMAIN v.s : ContainsValue(v.s[i], x.s[j]) = Bool(TRUE))
      [] v.t = "map" /\ x.t = "map" ->
            Bool(/\ Cardinality(DOMAIN v.f) >= Cardinality(DOMAIN x.f)
                 /\ \A k \in DOMAIN x.f : k \in DOMAIN v.f /\ ContainsValue(v.f[k], x.f[k]) = Bool(TRUE))
      [] v.t \in {"null", "bool"} /\ v = x -> Bool(TRUE)
      [] OTHER -> Fault

\* What range and utf8.DecodeRune make of a string, and WriteRune of a number.
Rune(n) == IF n \in Runes THEN n ELSE RuneError

\* The runes of a string, as integers.
Explode(s) == [i \in DOMAIN s |-> IntValue(Rune(s[i]))]

\* Mutant: what lies in the range of the runes is taken for one.
ImplodeInRange(v) ==
    LET InRange(n) == IF n \in 0 .. MaxRune THEN n ELSE RuneError
    IN  Of({"list"}, v, IF \A i \in DOMAIN v.s : v.s[i].t = "num"
                        THEN Str([i \in DOMAIN v.s |-> InRange(Trunc(v.s[i].n))]) ELSE Fault)

\* WriteRune, of what toInt makes of a number and of RuneError for those out of range
Implode(v) ==
    Of({"list"}, v, IF \A i \in DOMAIN v.s : v.s[i].t = "num"
                    THEN Str([i \in DOMAIN v.s |-> Rune(Trunc(v.s[i].n))]) ELSE Fault)

Positions(vs, xs) ==
    IF xs = <<>> THEN <<>>
    ELSE SelectSeq([i \in 1 .. Len(vs) |-> i - 1],
                   LAMBDA i : i <= Len(vs) - Len(xs) /\ CompareLists(SubSeq(vs, i + 1, i + Len(xs)), xs) = 0)

\* indexFunc: where it searches and for what, if it can.
Searched(v, x) ==
    CASE v.t = "list" -> <<v.s, IF x.t = "list" THEN x.s ELSE <<x>>>>
      [] v.t = "str" /\ x.t = "str" -> <<Explode(v.r), Explode(x.r)>>
      [] OTHER -> <<>>

IndexFunc(v, x, F(_)) ==
    LET s == Searched(v, x)
    IN  IF v = Null THEN Null ELSE IF s = <<>> THEN Fault ELSE F(Positions(s[1], s[2]))

AllOf(ps)   == List([i \in DOMAIN ps |-> IntValue(ps[i])])
FirstOf(ps) == IF ps = <<>> THEN Null ELSE IntValue(Head(ps))
LastOf(ps)  == IF ps = <<>> THEN Null ELSE IntValue(Last(ps))

\* The bytes of a string, and the runes that bytes are taken for.
InTwo(r) == r \in Runes /\ r >= OneByte
Encoded(s) == FlattenSeq([i \in DOMAIN s |-> IF InTwo(s[i]) THEN <<<<s[i], 1>>, <<s[i], 2>>>> ELSE <<<<s[i], 1>>>>])
Decoded(b) ==
    LET Starts(i) == b[i][2] = 1 /\ (InTwo(b[i][1]) => i < Len(b) /\ b[i + 1] = <<b[i][1], 2>>)
        Goes(i)   == b[i][2] = 2 /\ i > 1 /\ Starts(i - 1)
        runes     == SelectSeq([i \in DOMAIN b |-> i], LAMBDA i : ~Goes(i))
    IN  [j \in DOMAIN runes |-> IF Starts(runes[j]) THEN b[runes[j]][1] ELSE RuneError]

\* Where rune k of a string begins, in bytes; k may be the number of runes.
Offset(s, k) == Len(Encoded(SubSeq(s, 1, k)))

\* strings.TrimPrefix and strings.TrimSuffix
TrimPrefix(s, t) == IF IsPrefix(t, s) THEN SubSeq(s, Len(t) + 1, Len(s)) ELSE s
TrimSuffix(s, t) == IF IsSuffix(t, s) THEN SubSeq(s, 1, Len(s) - Len(t)) ELSE s

TrimBoth(s, t)    == TrimSuffix(TrimPrefix(s, t), t)
OfStrings(v, x, r) == Of({"str"}, v, Of({"str"}, x, r))

\* funcSlice; the bounds are null or numbers, of which the end is rounded up.
Bound(x, Whole_(_)) == IF x = Null THEN <<>> ELSE <<Whole_(x.n)>>
Slice(v, start, end) ==
    LET n == Len(IF v.t = "str" THEN v.r ELSE v.s)
        s == SliceStart(Bound(start, Trunc), n)
        e == SliceEnd(Bound(start, Trunc), Bound(end, Ceil), n)
    IN  IF v = Null THEN Null
        ELSE IF v.t \notin {"list", "str"} \/ {start.t, end.t} \ {"null", "num"} # {} THEN Fault
        ELSE IF v.t = "list" THEN List(SubSeq(v.s, s + 1, e))
        ELSE Str(Decoded(SubSeq(Encoded(v.r), Offset(v.r, s) + 1, Offset(v.r, e))))

\* index and indexString
Element(v, n) ==
    LET l == Len(IF v.t = "str" THEN v.r ELSE v.s)
        i == Clamp(Trunc(n), -1, l)
    IN  IF i \notin 0 .. l - 1 THEN Null ELSE IF v.t = "str" THEN Str(<<Rune(v.r[i + 1])>>) ELSE v.s[i + 1]

\* funcIndex2.  The objects here have no start and end, which would make them bounds of a slice.
At(v, x) ==
    CASE v = Null /\ x.t \in {"num", "str", "list", "map"} -> Null
      [] v.t \in {"list", "str"} /\ x.t = "num" -> Element(v, x.n)
      [] v.t = "map" /\ x.t = "str" -> IF x.r \in DOMAIN v.f THEN v.f[x.r] ELSE Null
      [] v.t = "list" /\ x.t = "list" -> AllOf(Positions(v.s, x.s))
      [] OTHER -> Fault

\* flatten: a depth (in halves) that does not come down to 0 goes all the way.
RECURSIVE FlattenTo(_, _)
FlattenTo(vs, depth) ==
    FoldLeft(LAMBDA xs, v : IF v.t = "list" /\ depth # 0 THEN xs \o FlattenTo(v.s, depth - 2) ELSE Append(xs, v), <<>>, vs)

\* funcFlatten; x is empty or the depth.
Flatten(v, x) ==
    Of({"list", "map"}, v,
       IF x = <<>> THEN List(FlattenTo(Contents(v), -2))
       ELSE IF x[1].t # "num" THEN Fault
       ELSE IF x[1].n.h < 0 THEN Fault ELSE List(FlattenTo(Contents(v), x[1].n.h)))

Transpose(v) ==
    LET rows == [i \in DOMAIN v.s |-> v.s[i].s]
        l    == Max({0} \cup {Len(rows[i]) : i \in DOMAIN rows})
    IN  Of({"list"}, v, IF \E i \in DOMAIN v.s : v.s[i].t # "list" THEN Fault
                        ELSE List([j \in 1 .. l |-> List([i \in DOMAIN rows |->
                                     IF j <= Len(rows[i]) THEN rows[i][j] ELSE Null])]))

-------------------------------------------------------------------------------
(* Operators.  Two numbers are multiplied and divided in Numbers.          *)

\* funcOpAdd
OpAdd(l, r) ==
    CASE l.t = "num" /\ r.t = "num" -> Plus(l.n, r.n)
      [] l.t = "str" /\ r.t = "str" -> Str(l.r \o r.r)
      [] l.t = "list" /\ r.t = "list" -> List(l.s \o r.s)
      [] l.t = "map" /\ r.t = "map" -> Map([k \in DOMAIN l.f \cup DOMAIN r.f |-> IF k \in DOMAIN r.f THEN r.f[k] ELSE l.f[k]])
      [] l = Null -> r
      [] r = Null -> l
      [] OTHER -> Fault

\* add: strings are collected in a builder, of which the result is a string only when something else comes, or nothing.
Builder(r) == [t |-> "builder", r |-> r]
Built_(w)  == IF w.t = "builder" THEN Str(w.r) ELSE w
\* Mutant: what the builder holds is forgotten when something else comes.
AddDropping(v, x) ==
    CASE v = Fault \/ x = Null -> v
      [] x.t = "str" /\ v = Null -> Builder(x.r)
      [] x.t = "str" /\ v.t = "builder" -> Builder(v.r \o x.r)
      [] OTHER -> OpAdd(IF v.t = "builder" THEN Null ELSE v, x)

AddOne(v, x) ==
    CASE v = Fault \/ x = Null -> v
      [] x.t = "str" /\ v = Null -> Builder(x.r)
      [] x.t = "str" /\ v.t = "builder" -> Builder(v.r \o x.r)
      [] OTHER -> OpAdd(Built_(v), x)
AddAll(xs) == Built_(FoldLeft(AddOne, Null, xs))
AddUp(v)   == Of({"list", "map"}, v, AddAll(Contents(v)))

\* strings.Split: from left to right, an empty separator splits into runes.
RECURSIVE Pieces(_, _)
Pieces(s, t) ==
    LET at == {i \in 0 .. Len(s) - Len(t) : SubSeq(s, i + 1, i + Len(t)) = t}
    IN  IF t = <<>> THEN [i \in DOMAIN s |-> <<s[i]>>]
        ELSE IF at = {} THEN <<s>>
        ELSE <<SubSeq(s, 1, Min(at))>> \o Pieces(SubSeq(s, Min(at) + Len(t) + 1, Len(s)), t)

\* splitString
Split(v, x) ==
    IF v.t # "str" \/ x.t # "str" THEN Fault
    ELSE List(IF v.r = <<>> THEN <<>> ELSE [i \in DOMAIN Pieces(v.r, x.r) |-> Str(Pieces(v.r, x.r)[i])])

\* The text of a scalar as JSON: of a type only one, and that of null for NaN (external: jsonMarshal).
JsonText(v) == IF v = NotANumber THEN <<TypeIndex(Null)>> ELSE <<TypeIndex(v)>>

\* join: add, with the separator before each but the first; booleans and numbers are written as JSON.
Json(v) == IF v.t \in {"bool", "num"} THEN Str(JsonText(v)) ELSE v
Join(v, x) ==
    LET vs == Contents(v)
    IN  Of({"list", "map"}, v,
           IF vs = <<>> THEN Str(<<>>)
           ELSE AddAll(FlattenSeq([i \in DOMAIN vs |-> <<IF i = 1 THEN Str(<<>>) ELSE x, Json(vs[i])>>])))

\* funcOpSub
OpSub(l, r) ==
    CASE l.t = "num" /\ r.t = "num" -> Plus(l.n, IF r.n.k = "nan" THEN r.n ELSE [r.n EXCEPT !.h = -@])
      [] l.t = "list" /\ r.t = "list" -> List(SelectSeq(l.s, LAMBDA x : \A j \in DOMAIN r.s : Compare(x, r.s[j]) # 0))
      [] OTHER -> Fault

\* deepMergeObjects
RECURSIVE DeepMerge(_, _)
DeepMerge(l, r) ==
    Map([k \in DOMAIN l.f \cup DOMAIN r.f |->
            IF k \notin DOMAIN r.f THEN l.f[k]
            ELSE IF k \in DOMAIN l.f /\ l.f[k].t = "map" /\ r.f[k].t = "map" THEN DeepMerge(l.f[k], r.f[k])
            ELSE r.f[k]])

\* repeatString
RepeatString(s, n) ==
    IF n.h < 0 THEN Null
    ELSE LET c == Min({Trunc(n), LongString})
         IN  IF Len(Encoded(s)) * c >= LongString THEN Fault ELSE Str(FlattenSeq([i \in 1 .. c |-> s]))

\* funcOpMul
OpMul(l, r) ==
    CASE l.t = "map" /\ r.t = "map" -> DeepMerge(l, r)
      [] {l.t, r.t} = {"str", "num"} ->
            LET s == IF l.t = "str" THEN l.r ELSE r.r
                n == IF l.t = "num" THEN l.n ELSE r.n
            IN  RepeatString(s, n)
      [] OTHER -> Fault

\* funcOpDiv
OpDiv(l, r) == Split(l, r)

-------------------------------------------------------------------------------
(* Formats: an array of strings as one row, escaped.                       *)

Replaced(s, new) == FlattenSeq([i \in DOMAIN s |-> IF s[i] \in DOMAIN new THEN new[s[i]] ELSE <<s[i]>>])

Tsv(s) ==
    Replaced(s, Tab :> <<Backslash, LetterT>> @@ Newline :> <<Backslash, LetterN>> @@ Nul :> <<Backslash, Zero_>>
                @@ Backslash :> <<Backslash, Backslash>>)
Csv(s) == <<Quote>> \o Replaced(s, Quote :> <<Quote, Quote>> @@ Nul :> <<Backslash, Zero_>>) \o <<Quote>>
Sh(s) ==
    <<Apostrophe>> \o Replaced(s, Apostrophe :> <<Apostrophe, Backslash, Apostrophe, Apostrophe>>
                                  @@ Nul :> <<Backslash, Zero_>>) \o <<Apostrophe>>

\* formatJoin; null, and NaN which is written like it, is shown by sh only.
FormatJoin(v, typ) ==
    LET Shown(w) == IF w.t # "str" THEN IF JsonText(w) = JsonText(Null) /\ typ # "sh" THEN <<>> ELSE JsonText(w)
                    ELSE CASE typ = "csv" -> Csv(w.r) [] typ = "tsv" -> Tsv(w.r) [] typ = "sh" -> Sh(w.r)
        sep == CASE typ = "csv" -> Comma [] typ = "tsv" -> Tab [] typ = "sh" -> Blank
    IN  IF v.t # "list" \/ \E i \in DOMAIN v.s : v.s[i].t \in {"list", "map"} THEN Fault
        ELSE Str(FlattenSeq([i \in DOMAIN v.s |-> IF i = 1 THEN Shown(v.s[i]) ELSE <<sep>> \o Shown(v.s[i])]))

-------------------------------------------------------------------------------
\* internalFuncs
Called(fn, v, x) ==
    CASE fn = "keys" -> Keys(v)
      [] fn = "length" -> LengthOf(v)
      [] fn = "has" -> Has(v, x[1])
      [] fn = "compare" -> IntValue(Compare(v, x[1]))
      [] fn = "sort_by" -> SortBy(v, x[1])
      [] fn = "group_by" -> GroupBy(v, x[1])
      [] fn = "unique_by" -> UniqueBy(v, x[1])
      [] fn = "min_by" -> MinMaxBy(v, x[1], TRUE)
      [] fn = "max_by" -> MinMaxBy(v, x[1], FALSE)
      [] fn = "bsearch" -> Bsearch(v, x[1])
      [] fn = "contains" -> ContainsValue(v, x[1])
      [] fn = "indices" -> IndexFunc(v, x[1], AllOf)
      [] fn = "index" -> IndexFunc(v, x[1], FirstOf)
      [] fn = "rindex" -> IndexFunc(v, x[1], LastOf)
      [] fn = "explode" -> Of({"str"}, v, List(Explode(v.r)))
      [] fn = "implode" -> Implode(v)
      [] fn = "startswith" -> OfStrings(v, x[1], Bool(IsPrefix(x[1].r, v.r)))
      [] fn = "endswith" -> OfStrings(v, x[1], Bool(IsSuffix(x[1].r, v.r)))
      [] fn = "ltrimstr" -> OfStrings(v, x[1], Str(TrimPrefix(v.r, x[1].r)))
      [] fn = "rtrimstr" -> OfStrings(v, x[1], Str(TrimSuffix(v.r, x[1].r)))
      [] fn = "trimstr" -> OfStrings(v, x[1], Str(TrimBoth(v.r, x[1].r)))
      [] fn = "slice" -> Slice(v, x[1], x[2])
      [] fn = "at" -> At(v, x[1])
      [] fn = "flatten" -> Flatten(v, x)
      [] fn = "transpose" -> Transpose(v)
      [] fn = "add" -> AddUp(v)
      [] fn = "split" -> Split(v, x[1])
      [] fn = "join" -> Join(v, x[1])
      [] fn \in {"csv", "tsv"} -> FormatJoin(v, fn)
      [] fn = "sh" -> FormatJoin(IF v.t = "list" THEN v ELSE List(<<v>>), fn)
      [] fn = "+" -> OpAdd(v, x[1])
      [] fn = "-" -> OpSub(v, x[1])
      [] fn = "*" -> OpMul(v, x[1])
      [] fn = "/" -> OpDiv(v, x[1])

ValStart(c) == asked = c /\ answer = <<>>

ValInit == \E cs \in Calls : \E c \in cs : ValStart(c)

Call ==
    /\ answer = <<>>
    /\ answer' = <<Called(asked.fn, asked.v, asked.args)>>
    /\ UNCHANGED asked

ValNext == Call

ValSpec == ValInit /\ [][ValNext]_valVars
===============================================================================
