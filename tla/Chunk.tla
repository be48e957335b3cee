-------------------------------- MODULE Chunk --------------------------------
(***************************************************************************)
(* chunkString of cli/jev.go: a string too large for one request is cut    *)
(* into pieces whose JSON form fits the budget.  The outer loop cuts a     *)
(* first guess off the rest of the string, the inner loop shrinks it until *)
(* it fits.                                                                *)
(*                                                                         *)
(* A string is a sequence of bytes, abstracted to what the cutting and     *)
(* json.Marshal tell apart:                                                *)
(*   "plain", "space" - one byte of JSON;                                  *)
(*   "newline"        - two bytes of JSON (so are tab, quote, backslash);  *)
(*   "escaped"        - six bytes (other control characters, <, >, &);     *)
(*   "lead2", "lead4" - the first byte of a rune of 2 or 4 bytes;          *)
(*   "cont"           - a continuation byte.                               *)
(* A rune is copied to the JSON, a byte that belongs to none becomes a six *)
(* byte escape.                                                            *)
(***************************************************************************)
EXTENDS Integers, SequencesExt, FiniteSetsExt

Bytes == {"plain", "space", "newline", "escaped", "lead2", "lead4", "cont"}

VARIABLES text,    \* the string given
          budget,  \* the budget given
          rest,    \* s: what is not cut off yet
          cut,     \* how much of it the current piece takes
          piece,   \* the piece, without its last newlines
          iter,    \* iterations of the inner loop
          out,     \* the pieces so far
          pc       \* "cut" in the outer loop, "fit" in the inner one, "done"

chunkVars == <<text, budget, rest, cut, piece, iter, out, pc>>

ChunkTypeOK ==
    /\ text \in Seq(Bytes) /\ budget \in Int
    /\ rest \in Seq(Bytes) /\ piece \in Seq(Bytes)
    /\ cut \in 0..Len(text) /\ iter \in 0..65
    /\ out \in Seq(IF budget < 8 THEN Seq(Bytes) ELSE Seq(Bytes) \ {<<>>})
    /\ pc \in {"cut", "fit", "done"}

-------------------------------------------------------------------------------
(* Bytes and runes.                                                        *)

First(t, n) == SubSeq(t, 1, n)
From(t, n)  == SubSeq(t, n + 1, Len(t))

RuneStart(b) == b # "cont"

RuneLen(b) == IF b = "lead2" THEN 2 ELSE IF b = "lead4" THEN 4 ELSE 1

\* A whole rune starts at position i of t.
WholeRune(t, i) ==
    /\ RuneStart(t[i])
    /\ i + RuneLen(t[i]) - 1 <= Len(t)
    /\ \A j \in i + 1 .. i + RuneLen(t[i]) - 1 : t[j] = "cont"

\* The positions of t that belong to no rune.
Stray(t) ==
    {i \in DOMAIN t :
        \A j \in Max({1, i - 3}) .. i : ~(WholeRune(t, j) /\ i < j + RuneLen(t[j]))}

\* len(json.Marshal(t)): the quotes, and every byte by what it becomes.
MarshalLen(t) ==
    LET escaped == {i \in DOMAIN t : t[i] = "escaped"} \cup Stray(t)
        newline == {i \in DOMAIN t : t[i] = "newline"}
    IN  2 + Len(t) + 5 * Cardinality(escaped) + Cardinality(newline)

\* Mutant: spaces are trimmed as well.
TrimSpace(t) == First(t, Max({0} \cup {i \in DOMAIN t : t[i] \notin {"newline", "space"}}))

\* strings.TrimRight(t, "\n").
TrimNewlines(t) == First(t, Max({0} \cup {i \in DOMAIN t : t[i] # "newline"}))

\* The end of the last separator in t that does not begin it, 0 if there is none.
LastBreak(t, sep) ==
    Max({0} \cup {i \in Len(sep) + 1 .. Len(t) : SubSeq(t, i - Len(sep) + 1, i) = sep})

Separators == <<<<"newline", "newline">>, <<"newline">>, <<"space">>>>

\* Mutant: cut at the guess, wherever the rune begins.
NoRuneCut(t, n) == n

\* The last rune boundary of t up to n < Len(t).
RuneCut(t, n) == Max({0} \cup {i \in 1..n : RuneStart(t[i + 1])})

-------------------------------------------------------------------------------
\* No call is running.
Idle ==
    /\ text = <<>> /\ rest = <<>> /\ piece = <<>> /\ out = <<>>
    /\ budget = 0 /\ cut = 0 /\ iter = 0
    /\ pc = "done"

\* chunkString(t, room).
Call(t, room) ==
    /\ pc = "done"
    /\ text' = t
    /\ budget' = room
    /\ rest' = t
    /\ cut' = 0
    /\ piece' = <<>>
    /\ iter' = 0
    /\ out' = <<>>
    /\ pc' = "cut"

-------------------------------------------------------------------------------
(* The loops.                                                              *)

Inner == Min({budget \div 2, Len(text)})

\* Where the outer loop cuts first: after the last separator of the best kind
\* in reach, and never inside a rune.
FirstCut ==
    IF Len(rest) <= Inner THEN Len(rest)
    ELSE LET reach  == First(rest, Inner)
             breaks == {k \in DOMAIN Separators : LastBreak(reach, Separators[k]) > 0}
         IN  RuneCut(rest, IF breaks = {} THEN Inner
                           ELSE LastBreak(reach, Separators[Min(breaks)]))

\* Where the inner loop cuts next: in proportion, at least one less, at a rune
\* boundary, but not at 0.  The result may be cut itself.
NextCut ==
    LET guess  == (cut * budget) \div MarshalLen(piece)
        less   == IF guess < 1 \/ guess >= cut THEN cut - 1 ELSE guess
        at     == RuneCut(rest, less)
    IN  IF at # 0 THEN at
        ELSE Min({cut} \cup {i \in 1 .. cut - 1 : RuneStart(rest[i + 1])})

\* A budget no rune may fit in: the string is not cut.
Whole ==
    /\ pc = "cut" /\ budget < 8 /\ out = <<>>
    /\ out' = <<text>>
    /\ pc' = "done"
    /\ UNCHANGED <<text, budget, rest, cut, piece, iter>>

\* The outer loop cuts off its guess.
Cut ==
    /\ pc = "cut" /\ budget >= 8
    /\ rest # <<>>
    /\ cut' = FirstCut
    /\ piece' = TrimNewlines(First(rest, FirstCut))
    /\ iter' = 0
    /\ pc' = "fit"
    /\ UNCHANGED <<text, budget, rest, out>>

\* Mutant: the raw length is compared with the budget.
FitsRaw == Len(piece) <= budget

Fits == MarshalLen(piece) <= budget

\* The inner loop shrinks a piece that does not fit.
Shrink ==
    /\ pc = "fit"
    /\ iter <= 64 /\ ~Fits /\ cut > 1 /\ NextCut < cut
    /\ cut' = NextCut
    /\ piece' = TrimNewlines(First(rest, NextCut))
    /\ iter' = iter + 1
    /\ UNCHANGED <<text, budget, rest, out, pc>>

\* Mutant: what the piece's newlines took is cut off with the next piece again.
RestFromPiece == From(rest, Len(piece))

\* s[cut:].
RestAfterCut == From(rest, cut)

\* The piece fits and goes out, unless it is empty.
Emit ==
    /\ pc = "fit"
    /\ iter <= 64 /\ Fits
    /\ out' = IF piece = <<>> THEN out ELSE Append(out, piece)
    /\ rest' = RestAfterCut
    /\ pc' = "cut"
    /\ UNCHANGED <<text, budget, cut, piece, iter>>

\* The inner loop gives up, and what it cut is dropped.
Drop ==
    /\ pc = "fit"
    /\ iter > 64 \/ (~Fits /\ (cut <= 1 \/ NextCut >= cut))
    /\ rest' = RestAfterCut
    /\ pc' = "cut"
    /\ UNCHANGED <<text, budget, cut, piece, iter, out>>

Finish ==
    /\ pc = "cut" /\ budget >= 8
    /\ rest = <<>>
    /\ pc' = "done"
    /\ UNCHANGED <<text, budget, rest, cut, piece, iter, out>>

ChunkString == Whole \/ Cut \/ Shrink \/ Emit \/ Drop \/ Finish

-------------------------------------------------------------------------------
(* Properties.                                                             *)

Valid == Stray(text) = {}

\* Every piece that goes out fits the budget once it is marshaled, although its
\* size is guessed from its length in bytes.
PiecesFit ==
    budget >= 8 => \A k \in DOMAIN out : MarshalLen(out[k]) <= budget

\* No rune is cut in two: the pieces of a valid string are valid strings.
RunesWhole == Valid => \A k \in DOMAIN out : Stray(out[k]) = {}

\* The inner loop has not come to its cap, where it gives up the piece.
InTime == iter <= 64

WithoutNewlines(t) == FlattenSeq([i \in DOMAIN t |-> IF t[i] = "newline" THEN <<>> ELSE <<t[i]>>])

\* Between two passes, the pieces and the rest are the string; at the end, the
\* pieces are.  Newlines excepted: those at the end of a piece are trimmed.  (An
\* invalid string loses the bytes of a piece that cannot be shrunk.)
ContentKept ==
    Valid /\ pc # "fit" =>
        WithoutNewlines(FlattenSeq(out) \o (IF pc = "cut" THEN rest ELSE <<>>))
            = WithoutNewlines(text)

\* Every pass of the outer loop takes something off the rest of a valid string.  The
\* inner loop counts its iterations, so this is why the function returns.
EveryPassShortens ==
    [][Valid /\ pc = "fit" /\ pc' = "cut" => Len(rest') < Len(rest)]_chunkVars
===============================================================================
