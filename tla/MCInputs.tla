------------------------------- MODULE MCInputs -------------------------------
(* The way from the command line to the inputs, for TLC: Flags, Inputs,       *)
(* Stream and Position, which share no state.  A behaviour takes steps of one *)
(* of them only.                                                              *)
EXTENDS Phrases, Inputs, Stream, Position

CONSTANTS Parts, MaxFiles

VARIABLE part

partVars == <<part, flagVars, fileVars, streamVars, posVars>>

-------------------------------------------------------------------------------
(* The options: one of each kind and the two lists.                         *)

Options == [null_input |-> "bool", llm_model |-> "string", indent |-> "int", library_path |-> "list",
            args |-> "rest", jsonargs |-> "rest", arg |-> "map", argjson |-> "map"]
ByLetter == [n |-> "null_input", L |-> "library_path"]
Sevens   == {<<"7">>}

-------------------------------------------------------------------------------
(* Command lines: phrases that say one thing in every spelling, the last may  *)
(* be wrong or come after --.                                                 *)

Phrase(m, a)  == <<m, a, {<<0, 0>>, <<Len(a), Len(m)>>}>>
Dashed(a)     == <<"-", "-">> \o a
NoPhrase      == Phrase(<<>>, <<>>)
Join(p, q)    == <<p[1] \o q[1], p[2] \o q[2],
                   p[3] \cup {<<Len(p[2]) + x[1], Len(p[1]) + x[2]>> : x \in q[3]}>>
SetTo(o, vs_) == <<"set", o, vs_>>
AWord(w)      == Phrase(<<<<"word", w>>>>, <<w>>)

NullInput == SetTo("null_input", <<<<"true">>>>)
Library(v) == SetTo("library_path", <<v>>)

\* Values that could be taken for options.
OddValues == {<<"v">>, <<"-", "n">>, <<"-", "-", "args">>, <<"=">>}
Values2   == {<<"v">>, <<"-", "n">>}

WordPhrases == {AWord(w) : w \in {<<"word">>, <<"-">>, <<"-", "5">>, <<"-", "n", "5">>}}
LongPhrases ==
    UNION {{Phrase(<<SetTo(o, <<v>>)>>, <<Dashed(<<o>>), v>>),
            Phrase(<<SetTo(o, <<v>>)>>, <<Dashed(<<o, "=">> \o v)>>)} :
           <<o, v>> \in {"llm_model"} \X OddValues \cup {"library_path"} \X Values2 \cup {<<"indent", <<"7">>>>}}
ShortPhrases ==
    {Phrase(<<NullInput>>, <<<<"-", "n">>>>)}
    \cup UNION {{Phrase(<<Library(v)>>, <<<<"-", "L">> \o v>>),
                 Phrase(<<Library(v)>>, <<<<"-", "L", "=">> \o v>>),
                 Phrase(<<Library(v)>>, <<<<"-", "L">>, v>>),
                 Phrase(<<NullInput, Library(v)>>, <<<<"-", "n", "L">> \o v>>)} : v \in Values2}
MapPhrases ==
    UNION {{Phrase(<<SetTo(o, <<<<k>>, v>>)>>, <<Dashed(<<o>>), <<k>>, v>>),
            Phrase(<<SetTo(o, <<<<k>>, v>>)>>, <<Dashed(<<o, "=", k>>), v>>)} :
           o \in {"arg", "argjson"}, k \in {"k", "l"}, v \in Values2}
ListPhrases ==
    UNION {{Phrase(<<<<"list", o>>>>, <<Dashed(<<o>>)>>),
            Phrase(<<<<"list", o>>, <<"word", <<"w">>>>>>, <<Dashed(<<o, "=", "w">>)>>)} : o \in Lists}
Phrases == WordPhrases \cup LongPhrases \cup ShortPhrases \cup MapPhrases \cup ListPhrases

WrongPhrases ==
    {Phrase(<<<<"wrong">>>>, a) : a \in
        {<<<<"-", "q">>>>, <<<<"-", "n", "q">>>>, <<Dashed(<<"null_input", "=", "v">>)>>,
         <<Dashed(<<"llm_model">>)>>, <<Dashed(<<"arg">>), <<"k">>>>, <<Dashed(<<"indent">>), <<"v">>>>,
         <<Dashed(<<"indent", "=">>)>>, <<Dashed(<<"zz">>)>>, <<Dashed(<<"zz", "=", "v">>)>>, <<<<"-", "L">>>>}}
AfterDashes ==
    {Phrase(<<<<"word", w>>>>, <<Dashed(<<>>), w>>) :
        w \in {<<"-", "n">>, Dashed(<<>>), <<"w">>, Dashed(<<"arg">>)}}

\* A query, and then words and the options that say what the words are.
ListLines ==
    {Join(Join(AWord(<<"q">>), p), Join(Join(q, r), Join(s, t))) : p, q, r, s, t \in
        {NoPhrase, AWord(<<"a">>), AWord(<<"b">>)} \cup {Phrase(<<<<"list", o>>>>, <<Dashed(<<o>>)>>) : o \in Lists}}

Lines ==
    {Join(p, Join(q, e)) : p \in {NoPhrase, AWord(<<"q">>)} \cup MapPhrases \cup ListPhrases, q \in Phrases,
                           e \in {NoPhrase} \cup WrongPhrases \cup AfterDashes}
    \cup ListLines

-------------------------------------------------------------------------------
(* Files: one that ends with an error, one that is fine, one that does not    *)
(* exist, and standard input.                                                 *)

File(n, fails, opens) == [values |-> n, fails |-> fails, opens |-> opens]
Files == [f \in {Stdin, "a", "b", "c"} |->
             CASE f = Stdin -> File(2, FALSE, TRUE)
               [] f = "a" -> File(2, TRUE, TRUE)
               [] f = "b" -> File(1, FALSE, TRUE)
               [] f = "c" -> File(0, FALSE, FALSE)]
FileLists == BoundedSeq(DOMAIN Files, MaxFiles)

-------------------------------------------------------------------------------
(* Documents: every array and object of two values, again within another one, *)
(* and two values in a row.                                                   *)

Atom     == <<"atom", "a">>
ArrayOf(s)  == <<"arr", s>>
ObjectOf(s) == <<"obj", [i \in DOMAIN s |-> <<<<"k", "l">>[i], s[i]>>]>>
Around(V, n) == {ArrayOf(s) : s \in BoundedSeq(V, n)} \cup {ObjectOf(s) : s \in BoundedSeq(V, n)}
Flat     == {Atom} \cup Around({}, 0)
Nested1  == Around(Flat, 2)
Nested2  == Around(Nested1, 1) \cup Around({Atom, ArrayOf(<<Atom>>), ObjectOf(<<Atom>>)}, 2)
Written  == {<<>>} \cup {<<v>> : v \in Nested1 \cup Nested2} \cup {<<v, w>> : v, w \in Flat \cup Around({Atom}, 1)}

\* A document as it is written: value v is added after those of d, at path p and within value up.
Empty == [tokens |-> <<>>, values |-> <<[kind |-> "top", path |-> <<>>, within |-> 0, first |-> 0, last |-> 1,
                                         parts |-> <<>>]>>]
Adds(d, ts, vs_) == [tokens |-> d.tokens \o ts, values |-> d.values \o vs_]

\* Value v of d ends after the tokens so far, and has another part.
Reaches(d, v, last) == [d EXCEPT !.values[v].last = last]
HasPart(d, v)       == [d EXCEPT !.values[v].parts = Append(@, Len(d.values) + 1)]

RECURSIVE Lay(_, _, _, _), LayParts(_, _, _)
LayParts(d, v, vs_) ==
    IF vs_ = <<>> THEN d
    ELSE LET x == d.values[v]
             n == Len(d.values) + 1
             e == vs_[1]
         IN  LayParts(CASE x.kind = "top" -> Lay(HasPart(d, v), e, <<>>, v)
                        [] x.kind = "arr" -> Lay(HasPart(d, v), e, Append(x.path, At(Len(x.parts))), v)
                        [] x.kind = "obj" -> Lay(Adds(HasPart(d, v), <<Tok("key", n, e[1])>>, <<>>),
                                                 e[2], Append(x.path, Key(e[1])), v), v, Tail(vs_))

Lay(d, v, p, up) ==
    LET n     == Len(d.values) + 1
        begin == Len(d.tokens) + 1
        value == [kind |-> v[1], path |-> p, within |-> up, first |-> begin, last |-> begin, parts |-> <<>>]
    IN  IF v[1] = "atom" THEN Adds(d, <<Tok("atom", n, v[2])>>, <<value>>)
        ELSE LET delims == IF v[1] = "arr" THEN <<"beginArray", "endArray">> ELSE <<"beginObject", "endObject">>
                 inner  == LayParts(Adds(d, <<Tok("opens", n, delims[1])>>, <<value>>), n, v[2])
             IN  Reaches(Adds(inner, <<Tok("closes", n, delims[2])>>, <<>>), n, Len(inner.tokens) + 1)

LaidOut(vs_) == LET d == LayParts(Empty, 1, vs_) IN Reaches(d, 1, Len(d.tokens) + 1)

Docs == {LaidOut(vs_) : vs_ \in Written}

\* The events of a value, value by value.
RECURSIVE EventsOf(_, _)
EventsOf(v, p) ==
    LET vs_     == IF v[1] = "arr" THEN v[2] ELSE [i \in DOMAIN v[2] |-> v[2][i][2]]
        Part(i) == Append(p, IF v[1] = "arr" THEN At(i - 1) ELSE Key(v[2][i][1]))
    IN  IF v[1] = "atom" \/ v[2] = <<>> THEN <<Event(p, v)>>
        ELSE FlattenSeq([i \in DOMAIN vs_ |-> EventsOf(vs_[i], Part(i))]) \o <<Event(Part(Len(vs_)), <<>>)>>

\* The tokens of a document, taken together, mean what its values do.
ASSUME MeaningOfValues ==
    \A vs_ \in Written :
        LET d == LaidOut(vs_)
        IN  Known(d, Len(d.tokens)) = FlattenSeq([i \in DOMAIN vs_ |-> EventsOf(vs_[i], <<>>)])

-------------------------------------------------------------------------------
(* Inputs with errors: values within and across lines, then an error or the   *)
(* end within a value.                                                        *)

Values3 == {<<"open", "close">>, <<"newline">>, <<"return">>, <<"open", "newline", "close">>}
Errors3 == {<<>>, <<"bad">>, <<"newline", "bad", "newline">>, <<"return", "bad">>, <<"open">>, <<"open", "return", "newline">>,
            <<"open", "bad">>}
Texts   == {FlattenSeq(s) \o t : s \in BoundedSeq(Values3, 5), t \in Errors3}

-------------------------------------------------------------------------------
\* One state for each of the modules that take no step.
Init ==
    /\ part \in Parts
    /\ IF part = "flags" THEN FlagsInit ELSE FlagsStart(<<>>, <<>>)
    /\ IF part = "files" THEN InputsInit ELSE InputsStart(<<>>, "each", FALSE, FALSE)
    /\ IF part = "stream" THEN StreamInit ELSE StreamStart(Empty, 0, <<>>)
    /\ IF part = "position" THEN PositionInit ELSE PositionStart(<<>>, TRUE)

Next ==
    \/ part = "flags" /\ FlagsNext /\ UNCHANGED <<part, fileVars, streamVars, posVars>>
    \/ part = "files" /\ InputsNext /\ UNCHANGED <<part, flagVars, streamVars, posVars>>
    \/ part = "stream" /\ StreamNext /\ UNCHANGED <<part, flagVars, fileVars, posVars>>
    \/ part = "position" /\ PositionNext /\ UNCHANGED <<part, flagVars, fileVars, streamVars>>

Spec == Init /\ [][Next]_partVars
===============================================================================
