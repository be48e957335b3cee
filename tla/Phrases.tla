-------------------------------- MODULE Phrases --------------------------------
(***************************************************************************)
(* What command lines say, whoever reads them: the manual's side of        *)
(* parseFlags.  A command line is a row of phrases, each of which says     *)
(* something in one of its spellings; the last may be wrong, or -- with    *)
(* nothing but words after it.                                             *)
(***************************************************************************)
EXTENDS Flags

\* What the last n elements of a sequence leave out, and the rest.
From(s, i) == SubSeq(s, i, Len(s))

Piece    == STRING \ {""}
Argument == Seq(Piece)

-------------------------------------------------------------------------------
(* The forms of an argument.                                               *)

\* --option, --option=value, and the value.
Naming(b, o)  == Len(b) = 3 /\ b[1] = "-" /\ b[2] = "-" /\ b[3] = o
Giving(b, o) == Len(b) > 3 /\ b[1] = "-" /\ b[2] = "-" /\ b[3] = o /\ b[4] = "="
ValueIn(b)     == From(b, 5)

Dashes(b) == Len(b) = 2 /\ b[1] = "-" /\ b[2] = "-"

\* Of the option of a letter, whether it needs a value.
Wants(l)   == l \in DOMAIN Short /\ Kind[Short[l]] # "bool"
Switch(l)  == l \in DOMAIN Short /\ Kind[Short[l]] = "bool"
Unknown(l) == l \in Letters \ DOMAIN Short

\* A word: no dash in front, nothing but a dash, or after a dash something, like a digit, that is no letter.
IsWord(b) ==
    \/ b = <<>>
    \/ b[1] # "-"
    \/ Len(b) = 1
    \/ b[2] # "-" /\ \E k \in 2 .. Len(b) : b[k] \notin Letters /\ \A j \in 2 .. k : ~Wants(b[j])

-------------------------------------------------------------------------------
(* What phrases say.                                                       *)

\* Option o with the values vs.
Given(o, vs) ==
    CASE Kind[o] = "bool" -> <<"set", o, <<<<"true">>>>>>
      [] Kind[o] = "rest" -> <<"list", o>>
      [] OTHER -> <<"set", o, vs>>

\* The arguments as hold the values of o, as many as it needs.
Enough(o, as) == Len(as) >= Operands(o) /\ (Kind[o] = "int" => as[1] \in Integer)

\* Options that are given by the letters s and the arguments as after them: switches, up to
\* the last letter or one that takes a value.
Switches(s, n)  == n \in 0 .. Len(s) /\ \A i \in 1 .. n : Switch(s[i])
Switched(s, n)  == [i \in 1 .. n |-> Given(Short[s[i]], <<>>)]

\* The arguments in which the letter s[1] finds its values.
ValuesOf(s, as) == CASE Len(s) = 1 -> as
                     [] Len(s) > 1 /\ s[2] = "=" -> <<From(s, 3)>> \o as
                     [] OTHER -> <<From(s, 2)>> \o as

GroupSays(m, s, as) ==
    \/ Switches(s, Len(s)) /\ as = <<>> /\ m = Switched(s, Len(s))
    \/ \E n \in 0 .. Len(s) - 1 :
          LET t == From(s, n + 1)
              o == Short[t[1]]
          IN  /\ Switches(s, n) /\ Wants(t[1])
              /\ Enough(o, ValuesOf(t, as)) /\ Len(ValuesOf(t, as)) = Operands(o)
              /\ m = Append(Switched(s, n), Given(o, ValuesOf(t, as)))

GroupWrong(s, as) ==
    \E n \in 0 .. Len(s) - 1 :
        LET t == From(s, n + 1)
        IN  Switches(s, n) /\ (Unknown(t[1]) \/ (Wants(t[1]) /\ ~Enough(Short[t[1]], ValuesOf(t, as))))

\* A dash and letters, which are not a word.
IsGroup(b) == Len(b) > 1 /\ b[1] = "-" /\ b[2] # "-" /\ ~IsWord(b)

\* The arguments a say m.
Says(m, a) ==
    LET b == a[1]
    IN  \/ IsWord(b) /\ Len(a) = 1 /\ m = <<<<"word", b>>>>
        \/ \E o \in Long : /\ Naming(b, o)
                           /\ Enough(o, Tail(a)) /\ Len(a) = Operands(o) + 1
                           /\ m = <<Given(o, Tail(a))>>
        \/ \E o \in Long : /\ Giving(b, o) /\ Kind[o] \notin {"bool", "rest"}
                           /\ Enough(o, <<ValueIn(b)>> \o Tail(a)) /\ Len(a) = Operands(o)
                           /\ m = <<Given(o, <<ValueIn(b)>> \o Tail(a))>>
        \/ \E o \in Lists : /\ Giving(b, o) /\ IsWord(ValueIn(b)) /\ Len(a) = 1
                            /\ m = <<<<"list", o>>, <<"word", ValueIn(b)>>>>
        \/ IsGroup(b) /\ GroupSays(m, Tail(b), Tail(a))

\* The arguments a, the last, are refused.
IsWrong(a) ==
    LET b == a[1]
    IN  \/ \E o \in Long : Naming(b, o) /\ ~Enough(o, Tail(a))
        \/ \E o \in Long : /\ Giving(b, o) /\ Kind[o] # "rest"
                           /\ Kind[o] = "bool" \/ ~Enough(o, <<ValueIn(b)>> \o Tail(a))
        \/ Len(b) > 2 /\ b[1] = "-" /\ b[2] = "-" /\ \A o \in Long : ~Naming(b, o) /\ ~Giving(b, o)
        \/ IsGroup(b) /\ GroupWrong(Tail(b), Tail(a))

\* The arguments a, the last, say m: something wrong, or words that may look like anything.
Ends(m, a) ==
    \/ m = <<<<"wrong">>>> /\ IsWrong(a)
    \/ Dashes(a[1]) /\ m = [i \in 1 .. Len(a) - 1 |-> <<"word", a[i + 1]>>]

-------------------------------------------------------------------------------
\* After the first j of the arguments a the first k of what is meant, m, have been said;
\* marks has more such places.
Goes(m, a, marks, j, k) ==
    /\ j \in 0 .. Len(a) /\ k \in 0 .. Len(m)
    /\ \/ j = Len(a) /\ k = Len(m)
       \/ j < Len(a) /\ Ends(From(m, k + 1), From(a, j + 1))
       \/ \E x \in marks : x[1] > j /\ x[2] >= k /\ Says(SubSeq(m, k + 1, x[2]), SubSeq(a, j + 1, x[1]))

\* What can be meant.
Thing == {<<"wrong">>} \cup ({"set"} \X Long \X Seq(Argument)) \cup ({"list"} \X Lists) \cup ({"word"} \X Argument)

ASSUME PhrasesAssumption ==
    \A c \in CommandLines :
        /\ c[1] \in Seq(Thing) /\ c[2] \in Seq(Argument)
        /\ c[3] \subseteq Nat \X Nat /\ <<0, 0>> \in c[3]
        /\ \A x \in c[3] : Goes(c[1], c[2], c[3], x[1], x[2])
===============================================================================
