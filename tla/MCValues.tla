-------------------------------- MODULE MCValues --------------------------------
EXTENDS ValueLaws, Numbers, Updates

Letters == {Quote, Tab, Backslash, LetterT, 12, 16}
Texts(n) == UNION {[1 .. k -> Letters] : k \in 0 .. n}
Strings == {Str(r) : r \in Texts(2)}
Wide    == {Str(r) : r \in {<<>>, <<12>>, <<9, 12>>, <<12, 9>>, <<12, 15, 9>>, <<9, 9, 9>>, <<9, 10, 9, 10>>, <<12, 9, 12>>, <<9, 9>>, <<9>>, <<15, 15>>, <<16>>, <<9, 16, 12>>, <<14, 16>>}}

Nums    == {IntValue(0), IntValue(1), IntValue(2), IntValue(-2), FloatValue(2), FloatValue(3), NotANumber, Infinite(1)}
Scalars == {Null, Bool(FALSE), Bool(TRUE), Str(<<>>), Str(<<9>>), Str(<<9, 12>>), Str(<<12>>), Str(<<16, 9>>)} \cup Nums

K1 == <<9>>
K2 == <<9, 12>>
K3 == <<12>>
Flat == {Null, IntValue(1), FloatValue(2), Str(<<9>>), List(<<>>)}
Lists(E, n) == UNION {{List(s) : s \in [1 .. k -> E]} : k \in 0 .. n}
Objects ==
    {Map(<<>>), Map(K1 :> IntValue(1)), Map(K1 :> Str(<<9>>)), Map(K2 :> IntValue(1)), Map(K1 :> IntValue(2) @@ K2 :> Null),
     Map(K3 :> IntValue(0) @@ K2 :> NotANumber), Map(K1 :> Map(K2 :> IntValue(1) @@ K1 :> Null)),
     Map(K1 :> Map(K3 :> IntValue(2)) @@ K3 :> List(<<IntValue(1)>>)), Map(K3 :> IntValue(3) @@ K1 :> IntValue(0) @@ K2 :> IntValue(1))}

Some == Scalars \cup Objects \cup Lists(Flat, 1) \cup {List(<<IntValue(1), IntValue(2)>>), List(<<IntValue(1), Null>>), List(<<Str(<<9>>), NotANumber>>)}

\* Rows of strings, and other values that each comparison is set beside.
Rows == {List(<<v, w>>) : v \in Strings, w \in {Str(<<>>), Str(<<Quote>>), Str(<<LetterT>>), Str(<<Backslash>>)}} \cup {List(<<v>>) : v \in Strings}
Beside == Some \cup Rows

C(fn, v, args) == [fn |-> fn, v |-> v, args |-> args]

\* Four elements that can be told apart, and their keys.
Four == List(<<IntValue(3), IntValue(0), Str(<<9>>), IntValue(1)>>)
KeyLists == {List(s) : s \in [1 .. 4 -> {IntValue(0), IntValue(1), FloatValue(2), Null, NotANumber}]} \cup {List(<<Null>>), Null}
Sorted == {List(<<>>)} \cup {List(<<Null, IntValue(a), IntValue(b), FloatValue(2 * c)>>) : a \in -1 .. 2, b \in -1 .. 3, c \in 0 .. 4}

Nested == Lists({IntValue(1), List(<<>>), List(<<IntValue(1), List(<<Null>>)>>), List(<<List(<<List(<<Null, Null>>)>>)>>)}, 3)
Bounds == {Null, IntValue(0), IntValue(1), IntValue(-1), IntValue(2), FloatValue(1), FloatValue(3), FloatValue(-3), Infinite(1), Infinite(-1), NotANumber, Str(<<>>)}

CallsD == {
    {C(fn, v, <<x>>) : fn \in {"compare", "contains", "+", "-", "has", "at", "indices", "startswith", "trimstr"}, v \in Some, x \in Some},
    {C(fn, v, <<x>>) : fn \in {"*", "/"}, v \in Some, x \in Some \ Nums},
    {C(fn, v, <<>>) : fn \in {"keys", "length", "add", "flatten", "explode", "implode", "transpose", "sh"}, v \in Some},
    {C(fn, Four, <<x>>) : fn \in {"sort_by", "group_by", "unique_by", "min_by", "max_by"}, x \in KeyLists},
    {C("bsearch", v, <<x>>) : v \in Sorted, x \in {FloatValue(h) : h \in -3 .. 9} \cup {Null, Str(<<>>), IntValue(1)}},
    {C("add", v, <<>>) : v \in Lists({Null, IntValue(1), Str(<<9>>), List(<<Null>>)}, 4)},
    {C("flatten", v, x) : v \in Nested, x \in {<<>>} \cup {<<FloatValue(h)>> : h \in -1 .. 3} \cup {<<IntValue(n)>> : n \in 0 .. 3}},
    {C("transpose", List(s), <<>>) : s \in UNION {[1 .. n -> Lists({Null, IntValue(1)}, 2)] : n \in 1 .. 3}},
    {C(fn, v, <<x>>) : fn \in {"split", "join", "indices", "index", "rindex", "contains", "startswith", "endswith", "ltrimstr", "rtrimstr", "trimstr"}, v \in Wide, x \in Wide},
    {C(fn, v, <<x>>) : fn \in {"indices", "index", "rindex"}, v \in Lists({IntValue(1), FloatValue(2), Null}, 4), x \in Lists({IntValue(1), Null}, 2)},
    {C("slice", v, <<s, e>>) : v \in Wide \cup {Null, Four, Map(<<>>)}, s \in Bounds, e \in Bounds},
    {C(fn, v, <<>>) : fn \in {"explode", "keys"}, v \in Wide},
    {C("implode", List(<<x, y>>), <<>>) : x \in Nums, y \in Nums \cup {IntValue(n) : n \in 12 .. 17} \cup {Null}},
    {C("*", v, <<x>>) : v \in Wide, x \in {IntValue(n) : n \in -1 .. 9} \cup {FloatValue(1), FloatValue(5), Infinite(1)}},
    {C(fn, v, <<>>) : fn \in {"csv", "tsv", "sh"}, v \in Rows},
    {C("join", List(<<v, w>>), <<x>>) : v \in Scalars, w \in Scalars, x \in {Str(<<12>>), Null, IntValue(1)}}}

-------------------------------------------------------------------------------
\* All integers, numbers beyond them, and halves on both sides of what is exact.
OperandsD ==
    {Int_(n) : n \in MinInt .. MaxInt} \cup {Big(n) : n \in {-40, -17, -16, -3, 0, 2, 5, 16, 17, 40}}
    \cup {Float(h) : h \in {-40, -5, -3, -2, -1, 0, 1, 2, 3, 6, 14, 28, 32, 40}} \cup {Inf(1), Inf(-1), NaN}
    \cup {Text(h, d) : h \in {-66, -34, -32, -6, 0, 4, 30, 32, 34, 66}, d \in BOOLEAN} \cup {Text(3, TRUE), Text(-3, TRUE), Text(31, TRUE), Text(300, TRUE)}
RangesD ==
    {<<Int_(a), b, s>> : a \in {-16, -3, 0, 12}, b \in {Int_(-16), Int_(15), Big(20), Int_(4), Float(60)},
                         s \in {Int_(0), Int_(1), Int_(-3), Int_(5), Big(4), Float(1)}}

-------------------------------------------------------------------------------
\* Arrays and objects up to three deep, and paths into them and past their ends.
N(n)  == Num(n)
Roots ==
    {Null, List(<<>>), List(<<N(7), N(8), N(9)>>), List(<<List(<<N(7), N(8)>>), Map("a" :> N(7))>>),
     Map("a" :> Map("a" :> List(<<N(7)>>)) @@ "b" :> Map("a" :> N(7))), Map("a" :> List(<<N(7)>>) @@ "b" :> Map("a" :> N(7)))}
Slices == {<<"slice", <<0>>, <<1>>>>, <<"slice", <<1>>, <<>>>>}
Steps  == {<<"key", "a">>, <<"key", "b">>, <<"index", 0>>, <<"index", 1>>, <<"index", -1>>} \cup Slices
Paths  == {<<p>> : p \in Steps} \cup {<<p, q>> : p \in Steps, q \in {<<"key", "a">>, <<"index", 0>>, <<"index", 2>>} \cup Slices}
Few    == {<<<<"index", 0>>>>, <<<<"key", "a">>>>, <<<<"index", 0>>, <<"index", 1>>>>, <<<<"index", 0>>, <<"index", 0>>>>, <<<<"index", 3>>>>,
           <<<<"key", "a">>, <<"key", "a">>>>, <<<<"key", "a">>, <<"index", 0>>>>}
PathListsD == {<<p>> : p \in Paths} \cup {<<p, q>> : p \in Paths, q \in Paths} \cup {<<p, q, r>> : p \in Few, q \in Few, r \in Few}
Op(op, f, arg, spare) == [op |-> op, f |-> f, arg |-> arg, spare |-> spare]
OpsD ==
    {Op("assign", "same", x, spare) : x \in {N(7), List(<<N(7)>>)}, spare \in {0, 1}}
    \cup {Op("modify", f, Null, 0) : f \in {"same", "wrap", "pair", "one", "leaf", "empty", "number"}}
    \cup {Op("delete", "same", Null, 0)}

-------------------------------------------------------------------------------
\* The three parts run for themselves; the others stand still.
NoCall    == C("length", Null, <<>>)
NoProblem == [input |-> Null, paths |-> <<>>, op |-> "none", f |-> "same", arg |-> Null, spare |-> 0]

Init ==
    \/ ValInit /\ NumStart("none", Int_(0), <<>>) /\ UpdStart(NoProblem)
    \/ ValStart(NoCall) /\ NumInit /\ UpdStart(NoProblem)
    \/ ValStart(NoCall) /\ NumStart("none", Int_(0), <<>>) /\ UpdInit

Next ==
    \/ asked # NoCall /\ ValNext /\ UNCHANGED <<numVars, updVars>>
    \/ call.op # "none" /\ NumNext /\ UNCHANGED <<valVars, updVars>>
    \/ problem # NoProblem /\ UpdNext /\ UNCHANGED <<valVars, numVars>>

Spec == Init /\ [][Next]_<<valVars, numVars, updVars>>
===============================================================================
