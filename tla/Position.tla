------------------------------- MODULE Position -------------------------------
(***************************************************************************)
(* Where an error in the JSON input is said to be: inputReader and         *)
(* jsonInputIter of cli/inputs.go keep only a part of what has been read,  *)
(* and getLineByOffset of cli/error.go finds the line in that part.        *)
(*                                                                         *)
(* The input is a sequence of bytes: "open" and "close" begin and end a    *)
(* value, "newline" is '\n' and "return" '\r', "bad" is a syntax error.      *)
(* A file is read again for the message; what came through a pipe is kept  *)
(* by a TeeReader until it is more than BufSize, and the decoder has then  *)
(* read up to ReadSize bytes that it has not scanned.                      *)
(***************************************************************************)
EXTENDS Integers, Sequences, FiniteSets, FiniteSetsExt

CONSTANTS Sources,   \* the inputs
          BufSize,   \* 16 * 1024
          ReadSize   \* the most that the decoder reads at a time

Bytes == {"open", "close", "newline", "return", "bad"}

ASSUME PositionAssumption ==
    /\ Sources \subseteq Seq(Bytes)
    /\ BufSize \in Nat \ {0} /\ BufSize % 4 = 0
    /\ ReadSize \in Nat \ {0}

VARIABLES src,       \* the input
          seekable,  \* it is a file: ir.rs # nil
          read,      \* how much the decoder has read of it
          scanned,   \* and scanned
          inside,    \* within a value
          offset,    \* i.offset: where ir.buf begins
          line,      \* i.line: the lines before
          state,     \* "reading", or what Next returned last: "failed" or "end"
          report     \* the line in the message

posVars == <<src, seekable, read, scanned, inside, offset, line, state, report>>

\* What is skipped or dropped is counted by its newlines, bytes.Count of '\n'.
Newlines(s) == Cardinality({i \in DOMAIN s : s[i] = "newline"})

Slice(s, from, to) == SubSeq(s, from + 1, to)

\* A carriage return that no newline comes after.
LoneReturn(str, i) == str[i] = "return" /\ (i < Len(str) => str[i + 1] # "newline")

\* Where stringScanner ends the lines of str: at a newline, at a carriage return, at the two in a row as one.
LineEnds(str) == {i \in DOMAIN str : str[i] = "newline" \/ LoneReturn(str, i) \/ i = Len(str)}

\* getLineByOffset: the line of str that byte number off is in, its last line if there is no such byte.
LineByOffset(str, off) ==
    LET ends == LineEnds(str)
    IN  IF \E e \in ends : e >= off THEN 1 + Cardinality({e \in ends : e < off}) ELSE Cardinality(ends)

\* The loop of getContents: a file is skipped over until the byte of the message is near, in at most as
\* many passes as there are bytes before it, and this is where the rest begins.
SkipOnce(off) ==
    IF off <= (BufSize * 3) \div 4 THEN off ELSE off - Min({BufSize, off - BufSize \div 4})

Skipped(off) ==
    LET rest[k \in 0 .. off] == IF k = 0 THEN off ELSE SkipOnce(rest[k - 1])
    IN  off - rest[off]

-------------------------------------------------------------------------------
PositionStart(s, file) ==
    /\ src = s
    /\ seekable = file
    /\ read = 0
    /\ scanned = 0
    /\ inside = FALSE
    /\ offset = 0
    /\ line = 0
    /\ state = "reading"
    /\ report = 0

PositionInit == \E s \in Sources, file \in BOOLEAN : PositionStart(s, file)

\* The decoder needs another byte: the tee copies what it gets to ir.buf.
Refill ==
    /\ state = "reading"
    /\ scanned = read
    /\ \E n \in 1 .. ReadSize :
          /\ read + n <= Len(src)
          /\ read' = read + n
    /\ UNCHANGED <<src, seekable, scanned, inside, offset, line, state, report>>

Scan(byte) ==
    /\ state = "reading"
    /\ scanned < read
    /\ src[scanned + 1] = byte
    /\ scanned' = scanned + 1

ScanWithin ==
    /\ \/ Scan("open") /\ inside' = TRUE
       \/ (Scan("newline") \/ Scan("return")) /\ UNCHANGED inside
    /\ UNCHANGED <<src, seekable, read, offset, line, state, report>>

\* Mutant: the lines of the buffer are forgotten with it.
ScanValueUncounted ==
    /\ Scan("close")
    /\ inside' = FALSE
    /\ offset' = IF ~seekable /\ read - offset >= BufSize THEN read ELSE offset
    /\ UNCHANGED <<src, seekable, read, line, state, report>>

\* Next returns a value, and forgets a buffer that has become too large.
ScanValue ==
    /\ Scan("close")
    /\ inside' = FALSE
    /\ IF ~seekable /\ read - offset >= BufSize
       THEN /\ line' = line + Newlines(Slice(src, offset, read))
            /\ offset' = read
       ELSE UNCHANGED <<line, offset>>
    /\ UNCHANGED <<src, seekable, read, state, report>>

\* The message about byte number pos.
Message(pos) ==
    LET from  == IF seekable THEN Skipped(Min({pos, Len(src)})) ELSE offset
        to    == IF seekable THEN Min({from + BufSize, Len(src)}) ELSE read
        lines == IF seekable THEN Newlines(Slice(src, 0, from)) ELSE line
    IN  lines + LineByOffset(Slice(src, from, to), pos - from)

Fails(pos) ==
    /\ report' = Message(pos)
    /\ state' = "failed"
    /\ UNCHANGED <<src, seekable, read, inside, offset, line>>

ScanBad == Scan("bad") /\ Fails(scanned + 1)

\* The end of the input: within a value the message is about what follows the last byte.
AtEnd ==
    /\ state = "reading"
    /\ scanned = Len(src)
    /\ UNCHANGED scanned
    /\ \/ /\ inside
          /\ Fails(Len(src) + 1)
       \/ /\ ~inside
          /\ state' = "end"
          /\ UNCHANGED <<src, seekable, read, inside, offset, line, report>>

PositionNext ==
    \/ Refill
    \/ ScanWithin
    \/ ScanValue
    \/ ScanBad
    \/ AtEnd

PositionSpec == PositionInit /\ [][PositionNext]_posVars

-------------------------------------------------------------------------------
PositionTypeOK ==
    /\ src \in Seq(Bytes)
    /\ seekable \in BOOLEAN /\ inside \in BOOLEAN
    /\ offset \in 0 .. read /\ scanned \in 0 .. read /\ read \in 0 .. Len(src)
    /\ line \in Nat /\ report \in Nat
    /\ state \in {"reading", "failed", "end"}

\* The byte the message is about.
ErrorAt == IF inside /\ scanned = Len(src) /\ src[scanned] # "bad" THEN Len(src) + 1 ELSE scanned

TrueLine == LineByOffset(src, ErrorAt)

\* The bytes before what the line is looked for in: skipped in a file, dropped from the buffer of a pipe.
PassedOver == IF seekable THEN Skipped(Min({ErrorAt, Len(src)})) ELSE offset

LoneReturns(k) == {i \in 1 .. k : LoneReturn(src, i)}

\* The line in a message is that of the whole input, whatever part of it is kept (CHANGELOG.md:198,
\* "print error line numbers on invalid JSON and YAML").  No run has it: the code violates it.
ErrorLine == state = "failed" => report = TrueLine

\* The same for a byte that has not been forgotten.  No run has it either: the lines that end with a carriage
\* return alone are lines of what is left, and none of what was skipped or dropped.
ErrorLineOfKept == seekable \/ offset < scanned => ErrorLine

\* When the byte has not been forgotten, counting the lines of the part that was skipped or dropped and those of
\* the part that is left misses none and counts none twice, wherever the parts are divided, but for those lines
\* of the first part that a carriage return alone ends: the message is short by exactly their number.
KeptErrorLine ==
    /\ PositionTypeOK
    /\ state = "failed" /\ (seekable \/ offset < scanned) =>
          report + Cardinality(LoneReturns(PassedOver)) = TrueLine
===============================================================================
