------------------------------- MODULE MCChunk -------------------------------
(* Batches on short strings of every composition, small arrays and objects, for TLC. *)
EXTENDS Batches

CONSTANT MaxUnits  \* the longest string, in characters

Units == {<<"plain">>, <<"space">>, <<"newline">>, <<"escaped">>, <<"lead2", "cont">>,
          <<"lead4", "cont", "cont", "cont">>}

ValidTexts == {FlattenSeq(units) : units \in BoundedSeq(Units, MaxUnits)}

Run(b, n) == [i \in 1..n |-> b]

\* Strings with bytes that belong to no rune, as -R reads them from a binary file:
\* the loops return for the first, whose piece cannot be shrunk, and not for the others.
Unshrinkable == <<"plain">> \o Run("cont", 7) \o <<"plain">>
StrayTexts   == {Run("cont", 5), <<"plain">> \o Run("cont", 5)}

\* A first piece that exceeds a budget of 210 by one, followed by more newlines
\* than the inner loop has iterations.
LongTexts == {Run("escaped", 34) \o Run("plain", 5) \o Run("newline", 66) \o Run("plain", 3)}

NoKey == <<>>

StringItem(t) == [type |-> "string", entries |-> <<Entry(NoKey, StringValue(t))>>]

StringItems == {StringItem(t) : t \in ValidTexts \cup {Unshrinkable}}
StrayItems  == {StringItem(t) : t \in StrayTexts}
LongItems   == {StringItem(t) : t \in LongTexts}

\* Values shorter than, as long as and longer than a batch, and strings to be cut
\* at a newline, at a rune and at an escape.
Values == {OtherValue(1), OtherValue(6), OtherValue(14), OtherValue(30)}
              \cup {StringValue(t) : t \in
                        {<<>>, Run("plain", 4), Run("newline", 9),
                         Run("plain", 6) \o <<"newline">> \o Run("plain", 7),
                         Run("escaped", 2) \o Run("plain", 3),
                         <<"lead4", "cont", "cont", "cont", "escaped", "escaped">>}}

Arrays == {[type |-> "array", entries |-> [i \in DOMAIN vs |-> Entry(NoKey, vs[i])]] :
              vs \in BoundedSeq(Values, 3)}

\* Keys in their order: without escapes, with what two bytes hold and with more.
Keys == <<Run("newline", 2), Run("escaped", 2), Run("plain", 1), Run("plain", 9)>>

Objects ==
    {[type |-> "object",
      entries |-> [i \in DOMAIN ks |-> Entry(Keys[ks[i]], vs[i])]] :
        <<ks, vs>> \in {p \in UNION {[1..n -> DOMAIN Keys] \X [1..n -> Values] : n \in 0..2} :
                           \A i, j \in DOMAIN p[1] : i < j => p[1][i] < p[1][j]}}

Scalars == {[type |-> "other", entries |-> <<Entry(NoKey, OtherValue(n))>>] : n \in {1, 30}}

AllItems == StringItems \cup Arrays \cup Objects \cup Scalars
===============================================================================
