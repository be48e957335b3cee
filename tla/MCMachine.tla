------------------------------- MODULE MCMachine -------------------------------
(* Machine on compiled queries, for TLC: every operator of the language with  *)
(* small queries in its places, within a function and a label, and queries    *)
(* chosen for what they do with frames, tail calls and closures.              *)
EXTENDS Machine, Compiler, Meaning

One  == Const(Num(1))
Two  == Const(Num(2))
Each1 == Iter(Identity)
Fail == CallGo("error", <<>>)
X    == Var("$x")
Y    == Var("$y")
F    == Call("f", <<>>)
As(l, x, r) == Bind(l, <<Name(x)>>, r)

\* The names a query may use: $x, the function f, the label %out.
Within(q) ==
    Def("f", <<>>, Comma(Identity, Index(Identity, 0)), As(Two, "$x", Label("%out", q)))

Leaves == {Identity, One, Const(Null), Empty, Fail, Each1, X, F, Break("%out")}

Operators(A, B) ==
    UNION {{Comma(a, b), Pipe(a, b), Alt(a, b), Try(a, b), Array(Comma(a, b)), CallGo("_add", <<a, b>>),
            If(a, b, X), Or(a, b), As(a, "$y", Comma(b, Y)),
            Reduce(Each1, Name("$y"), a, b), Foreach(a, Name("$y"), One, b, Array(Comma(Identity, Y))),
            Label("%in", Comma(a, If(b, Break("%in"), One))),
            Def("g", <<"h">>, Pipe(Call("h", <<>>), b), Call("g", <<a>>))} : a \in A, b \in B}

\* Queries in which the value under the one that is computed is used afterwards.
Around(Qs) ==
    UNION {{As(Paren(q), "$z", Array(Comma(Identity, Var("$z")))),
            Reduce(Paren(q), Name("$z"), Array(Identity), CallGo("_add", <<Identity, Array(Var("$z"))>>)),
            If(Paren(q), Identity, Array(Identity))} : q \in Qs}

\* Instruction i and the one after it are made one, or disappear.
Fused(cs, i) == cs[i].op \in {"push", "dup", "load"} /\ cs[i + 1].op \in {"pop", "const"}

\* The places that instructions other than the one before may go on at.
Targets(cs) ==
    {cs[i].v : i \in {j \in DOMAIN cs :
        cs[j].op \in {"jump", "jumpifnot", "fork", "forktrybegin", "forkalt"}}}

\* No instruction that a jump goes to is fused with the one before it.
Unfused(q) ==
    LET cs == Unoptimized(q)
    IN  \A i \in 1 .. Len(cs) - 1 : Fused(cs, i) => i + 1 \notin Targets(cs)

Nums(s) == Arr([i \in DOMAIN s |-> Num(s[i])])
Input   == Arr(<<Nums(<<3>>), Null>>)

MeaningIn(p) == p.meaning

\* Next and the caller's loop around it yield what the query means, one value at a time
\* and in order, and end with its error or without one: the iterator of a jq query.
Means == INSTANCE Answers WITH Meaning <- MeaningIn
MeansWhatItSays == Means!Spec

\* The iterator returns no value that the program does not mean there: the tests of
\* cli/test.yaml compare what a query prints with such a list.
OnlyMeantValues == IsPrefix(out, prog.meaning.out)

-------------------------------------------------------------------------------
(* The programs.                                                           *)

R    == Call("r", <<>>)
G    == Call("g", <<>>)
Halt == CallGo("halt", <<>>)
Each1OrNot == Paren(Try(Each1, Empty))
HeadOrNull == Paren(Try(Index(Identity, 0), Const(Null)))
Patterned(l, ps, r) == Bind(l, ps, r)
A == Name("$a")
B == Name("$b")

\* Recursion: with and without variables, last and not last, with forks left behind.
Recursive == {
    Def("r", <<>>, Comma(Identity, Try(Pipe(Each1, R), Empty)), R),
    Def("r", <<>>, If(HeadOrNull, Pipe(HeadOrNull, R), Array(Identity)), R),
    Def("r", <<>>, As(Identity, "$y", If(HeadOrNull, Pipe(HeadOrNull, R), Array(Comma(Identity, Y)))), R),
    Def("r", <<>>, As(Identity, "$y", Comma(Array(Y), Pipe(Each1OrNot, R))), R),
    Def("r", <<>>, As(X, "$y", Comma(Pipe(Each1OrNot, R), Y)), Array(R)),
    Def("r", <<>>, Comma(Identity, Pipe(Each1OrNot, Label("%in", Comma(R, Break("%in"))))), R)}

\* Functions with parameters: recursion under a closure, closures in closures.
Closures == {
    Def("m", <<"g">>, Def("r", <<>>, Comma(Identity, Pipe(G, R)), R), Call("m", <<Each1OrNot>>)),
    Def("m", <<"g">>, Def("r", <<>>, As(Identity, "$y", Comma(G, Pipe(Comma(Y, Empty), Pipe(Each1OrNot, R)))), R),
        Call("m", <<Array(X)>>)),
    Def("m", <<"g">>, As(G, "$y", Array(Comma(Y, G))), Call("m", <<Call("m", <<Each1>>)>>)),
    Def("m", <<"g">>, Pipe(G, G), As(Each1, "$x", Call("m", <<Array(Comma(X, Identity))>>))),
    Def("m", <<"g">>, If(HeadOrNull, Pipe(HeadOrNull, Call("m", <<Array(G)>>)), G), Call("m", <<X>>))}

\* Handlers: an error after the end of a try is not for its handler, halt for none.
Handlers == {
    Try(Pipe(Paren(Try(Comma(Each1, Fail), X)), If(Identity, Fail, Identity)), Array(Identity)),
    Try(Pipe(Paren(Try(Paren(Try(Each1, Empty)), X)), Fail), Two),
    Try(Comma(One, Comma(Halt, Two)), X),
    Label("%in", Try(Comma(Pipe(Try(Each1, Empty), Break("%in")), One), Two)),
    Array(Label("%in", Reduce(Each1, Name("$y"), X, Comma(Y, Break("%in"))))),
    Foreach(Each1, Name("$y"), Comma(One, Two), Comma(Y, Identity), Try(Comma(Index(Identity, 0), Y), Empty))}

\* Patterns, and alternatives of them where the first does not match.
Destructured == {
    Patterned(Identity, <<Nested(<<Nested(<<A>>), B>>)>>, Array(Comma(Var("$a"), Var("$b")))),
    Patterned(Each1, <<Nested(<<A, A>>)>>, Var("$a")),
    Patterned(Iter(Index(Identity, 0)), <<Nested(<<A>>), A>>, Array(Var("$a"))),
    Patterned(Identity, <<Nested(<<Nested(<<A>>)>>), Nested(<<A>>)>>, Pipe(Var("$a"), Each1)),
    Reduce(Each1, Nested(<<A, B>>), Array(Empty), Array(Comma(Identity, Var("$a")))),
    Foreach(Identity, Nested(<<Nested(<<A>>), B>>), X, Comma(Var("$a"), Var("$b")), Array(Identity))}

\* Queries, compiled, with an input and what they mean for it.
OnInput(Qs) ==
    {[codes |-> Compile(q), input |-> Input, meaning |-> MeaningOf(q, Input)] : q \in {Within(q) : q \in Qs}}

\* Two constants, one after a comma: the second replaces what the first has left.
FusedPrograms == OnInput(Around({Pipe(Paren(Comma(One, X)), b) : b \in Leaves}))

\* Alternatives that do not bind the same variables.
Both == Array(Comma(Var("$a"), Var("$b")))
StalePrograms == OnInput({
    Patterned(Each1OrNot, <<Nested(<<A>>), B>>, Both),
    Patterned(Comma(One, Array(Two)), <<Nested(<<A>>), B>>, Both)})

\* Alternatives whose values are used under a handler, in a program that then halts.
HaltPrograms == OnInput({
    Pipe(Paren(Try(Patterned(Identity, <<Nested(<<A>>), A>>, Var("$a")), Empty)), Comma(Identity, Halt))})
===============================================================================
