------------------------------- MODULE ValueLaws -------------------------------
(***************************************************************************)
(* What the built-in functions of Values promise: each law relates the     *)
(* result of a call to what another function makes of the same values, or  *)
(* to a definition without loops.                                          *)
(***************************************************************************)
EXTENDS Values

Answered(fns) == answer # <<>> /\ asked.fn \in fns

\* The call and its result.
V == asked.v
X == asked.args[1]
R == answer[1]

RECURSIVE HasNaN(_)
HasNaN(v) == CASE v.t = "num" -> v.n.k = "nan"
               [] v.t \in {"list", "map"} -> \E i \in DOMAIN Contents(v) : HasNaN(Contents(v)[i])
               [] OTHER -> FALSE

ValuesTypeOK ==
    /\ answer \in {<<>>} \cup {<<r>> : r \in Range(answer)}
    /\ answer # <<>> => R.t \in {"null", "bool", "num", "str", "list", "map", "error"}

-------------------------------------------------------------------------------
\* The values are totally ordered, whatever types they have: compare has the opposite sign the other way around, and
\* is transitive (Compare, on which sort, unique, group_by, bsearch and the operators rest; NaN apart).
OrderTotal ==
    Answered({"compare"}) /\ ~HasNaN(V) /\ ~HasNaN(X) =>
        LET c == Trunc(R.n)
        IN  /\ Compare(X, V) = -c
            /\ \A w \in {w \in Witnesses : ~HasNaN(w)} :
                  c <= 0 /\ Compare(X, w) <= 0 => /\ Compare(V, w) <= 0
                                                  /\ c < 0 \/ Compare(X, w) < 0 => Compare(V, w) < 0

\* The keys are in strictly ascending order, has knows each of them, and there are as many as length says.
KeysReached ==
    Answered({"keys"}) /\ R # Fault =>
        /\ \A i \in DOMAIN R.s : Has(V, R.s[i]) = Bool(TRUE)
        /\ \A i \in 2 .. Len(R.s) : Compare(R.s[i - 1], R.s[i]) < 0
        /\ LengthOf(V) = IntValue(Len(R.s))

\* The indices of the elements that have the same key as element i, in the order of the array.
Class(i) == SelectSeq([j \in DOMAIN X.s |-> j], LAMBDA j : Compare(X.s[j], X.s[i]) = 0)
Valued(js) == [k \in DOMAIN js |-> V.s[js[k]]]

Sortable(fns) == Answered(fns) /\ R # Fault /\ ~HasNaN(X)

\* sort_by puts each element behind all that have a smaller key and those before it with the same one.
SortedStably ==
    Sortable({"sort_by"}) =>
        /\ Len(R.s) = Len(V.s)
        /\ \A i \in DOMAIN V.s :
              R.s[1 + Cardinality({j \in DOMAIN V.s : \/ Compare(X.s[j], X.s[i]) < 0
                                                      \/ Compare(X.s[j], X.s[i]) = 0 /\ j < i})] = V.s[i]

\* group_by has one group for each key, in the order of the keys, with all that have this key as they were;
\* unique_by has the first of each group.
GroupsPartition ==
    /\ Sortable({"group_by"}) =>
          /\ FlattenSeq([i \in DOMAIN R.s |-> R.s[i].s]) = SortBy(V, X).s
          /\ Range(R.s) = {List(Valued(Class(i))) : i \in DOMAIN V.s}
          /\ Len(R.s) = Cardinality({Class(i) : i \in DOMAIN V.s})
    /\ Sortable({"unique_by"}) =>
          /\ Range(R.s) = {V.s[Head(Class(i))] : i \in DOMAIN V.s}
          /\ Len(R.s) = Cardinality({Class(i) : i \in DOMAIN V.s})

\* min_by is the first that sort_by has, max_by the last.
ExtremesAgree ==
    Sortable({"min_by", "max_by"}) =>
        R = IF V.s = <<>> THEN Null ELSE IF asked.fn = "min_by" THEN Head(SortBy(V, X).s) ELSE Last(SortBy(V, X).s)

\* bsearch of a sorted array gives the index of an element that is equal, or says where it would have to be inserted.
SearchAgrees ==
    Answered({"bsearch"}) /\ ~HasNaN(V) /\ ~HasNaN(X) /\ V = SortBy(V, V) =>
        LET n == Trunc(R.n)
        IN  IF n >= 0 THEN n < Len(V.s) /\ Compare(V.s[n + 1], X) = 0
            ELSE \A i \in DOMAIN V.s : Compare(V.s[i], X) = IF i <= -n - 1 THEN -1 ELSE 1

-------------------------------------------------------------------------------
\* add comes to the same as + from one element to the next, from null on, also where their types change on the way.
AddIsFold ==
    Answered({"add"}) /\ V.t \in {"list", "map"} =>
        R = FoldLeft(LAMBDA a, b : IF a = Fault THEN a ELSE OpAdd(a, b), Null, Contents(V))

\* What split has taken apart, join puts together; no piece has the separator.
SplitJoins ==
    Answered({"split", "/"}) /\ R.t = "list" =>
        /\ Join(R, X) = V
        /\ X.r # <<>> => \A i \in DOMAIN R.s : ContainsValue(R.s[i], X) = Bool(FALSE)

\* The trimmed string is what is left between what was taken off, also where the string begins with it and ends with it
\* in the same place; ltrimstr takes something off just where startswith says so.
AffixesComeOff ==
    Answered({"ltrimstr", "rtrimstr", "trimstr"}) /\ R # Fault =>
        \E a, b \in {<<>>, X.r} :
            /\ V.r = a \o R.r \o b
            /\ (a # <<>>) = (X.r # <<>> /\ asked.fn # "rtrimstr" /\ Called("startswith", V, <<X>>).b)
            /\ asked.fn = "ltrimstr" => b = <<>>
            /\ asked.fn = "rtrimstr" => (b # <<>>) = (X.r # <<>> /\ Called("endswith", V, <<X>>).b)
            /\ asked.fn = "trimstr" => b # <<>> \/ X.r = <<>> \/ ~IsSuffix(X.r, R.r)

\* A slice of a string has the runes that the slice of the array of its runes has.  What explode takes apart, implode
\* puts together, bytes that are no rune as replacement characters; implode makes text of runes alone, with replacement
\* characters for the numbers that are none ("emit replacement characters on invalid code points", CHANGELOG.md:67) and
\* for no other: explode gives the rest back.
StringsAsRunes ==
    /\ Answered({"slice"}) /\ V.t = "str" /\ R # Fault =>
          Explode(R.r) = Slice(List(Explode(V.r)), X, asked.args[2]).s
    /\ Answered({"explode"}) /\ R # Fault =>
          Implode(R) = Str([i \in DOMAIN V.r |-> IF V.r[i] = Stray THEN RuneError ELSE V.r[i]])
    /\ Answered({"implode"}) /\ R # Fault =>
          /\ Len(R.r) = Len(V.s) /\ Range(R.r) \subseteq Runes
          /\ \A i \in DOMAIN V.s :
                LET n == Trunc(V.s[i].n)
                IN  Explode(R.r)[i] = IntValue(IF n < 0 \/ n > MaxRune \/ n \in Surrogates THEN RuneError ELSE n)

\* index and rindex are the first and the last of indices, and at each of them the slice has the runes or the elements
\* that were searched for; a byte that is no rune is found like a replacement character.
IndicesAgree ==
    Answered({"indices", "index", "rindex"}) /\ V.t \in {"list", "str"} /\ X.t = V.t =>
        LET n       == Trunc(LengthOf(X).n)
            Inner(v) == IF v.t = "str" THEN List(Explode(v.r)) ELSE v
            hits    == {i \in 0 .. Trunc(LengthOf(V).n) - n :
                           n > 0 /\ Compare(Inner(Slice(V, IntValue(i), IntValue(i + n))), Inner(X)) = 0}
        IN  CASE asked.fn = "indices" -> R = List([k \in 1 .. Cardinality(hits) |-> IntValue(SetToSortSeq(hits, <)[k])])
              [] asked.fn = "index" -> R = IF hits = {} THEN Null ELSE IntValue(Min(hits))
              [] asked.fn = "rindex" -> R = IF hits = {} THEN Null ELSE IntValue(Max(hits))

\* A sum contains both that were added, an object that the second was merged into contains it.
SumsContain ==
    Answered({"+", "*"}) /\ V.t = X.t /\ X.t \in {"str", "list", "map"} /\ R # Fault /\ ~HasNaN(X) /\ ~HasNaN(V) =>
        /\ ContainsValue(R, X) = Bool(TRUE)
        /\ V.t \in {"str", "list"} => ContainsValue(R, V) = Bool(TRUE)

\* The places in an object that hold no objects, with what they hold.
RECURSIVE Leaves(_)
Leaves(v) ==
    UNION {IF v.f[k].t = "map" THEN {<<<<k>> \o q[1], q[2]>> : q \in Leaves(v.f[k])} ELSE {<<<<k>>, v.f[k]>>} : k \in DOMAIN v.f}
Apart(p, q) == ~IsPrefix(p, q) /\ ~IsPrefix(q, p)

\* A merged object has all places of the second, and of the first those that are apart from them.
MergeKeepsBoth ==
    Answered({"*"}) /\ V.t = "map" /\ X.t = "map" =>
        Leaves(R) = Leaves(X) \cup {l \in Leaves(V) : \A r \in Leaves(X) : Apart(l[1], r[1])}

\* A string times a number is repeated so often, or the result would be too large; a negative number gives null.
RepeatedWithinLimit ==
    Answered({"*"}) /\ V.t = "str" /\ X.t = "num" /\ X.n.k \in {"int", "float"} =>
        LET n == X.n.h \div 2
            b == n * Len(Encoded(V.r))
        IN  IF X.n.h < 0 THEN R = Null
            ELSE /\ (R = Fault) = (b >= LongString)
                 /\ R # Fault => R.r = FlattenSeq([i \in 1 .. IF V.r = <<>> THEN 0 ELSE n |-> V.r])

\* flatten(n) opens the arrays within n times, flatten leaves no array within; transpose twice is the array, its rows filled up.
ShapesKept ==
    /\ Answered({"flatten"}) /\ R.t = "list" =>
          LET one(a, i) == FlattenSeq([j \in DOMAIN a |-> IF a[j].t = "list" THEN a[j].s ELSE <<a[j]>>])
          IN  IF asked.args = <<>> THEN \A i \in DOMAIN R.s : R.s[i].t # "list"
              ELSE X.n.k = "int" => R.s = FoldLeft(one, Contents(V), [i \in 1 .. X.n.h \div 2 |-> i])
    /\ Answered({"transpose"}) /\ R.t = "list" /\ R.s # <<>> =>
          LET back == Transpose(R)
          IN  /\ Len(back.s) = Len(V.s)
              /\ \A i \in DOMAIN V.s : IsPrefix(V.s[i].s, back.s[i].s) /\ Len(back.s[i].s) = Len(R.s)
              /\ \A i \in DOMAIN V.s : \A j \in Len(V.s[i].s) + 1 .. Len(R.s) : back.s[i].s[j] = Null

\* Two rows of strings are never the same text, so that what reads a row gets the strings back; a NUL is one only in tsv.
RowOf(v, fn) ==
    /\ v.t = "list" /\ v.s # <<>> /\ \A i \in DOMAIN v.s : v.s[i].t = "str"
    /\ fn # "tsv" => \A i \in DOMAIN v.s : Nul \notin Range(v.s[i].r)
RowsTellApart ==
    Answered({"csv", "tsv", "sh"}) /\ RowOf(V, asked.fn) =>
        \A w \in {w \in Witnesses : RowOf(w, asked.fn)} : FormatJoin(w, asked.fn) = R => w = V
-------------------------------------------------------------------------------
\* All that sorts, groups or searches has the one order of Compare, and keeps to it (compare.go, sortItems, funcBsearch).
OneOrder == OrderTotal /\ KeysReached /\ SortedStably /\ GroupsPartition /\ ExtremesAgree /\ SearchAgrees

\* Texts are taken apart and put together by their runes, whatever number of bytes these have, and none is lost or made
\* up (split, the trims, slices and indices of strings, @csv, @tsv and @sh).
TextKept == SplitJoins /\ AffixesComeOff /\ StringsAsRunes /\ IndicesAgree /\ RowsTellApart

\* What is put together of several values has the parts of each, in place and once (add, +, *, flatten, transpose).
PartsKept == ValuesTypeOK /\ AddIsFold /\ SumsContain /\ MergeKeepsBoth /\ RepeatedWithinLimit /\ ShapesKept
===============================================================================
