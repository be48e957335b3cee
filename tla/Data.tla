---------------------------------- MODULE Data ----------------------------------
(***************************************************************************)
(* The values of jq, and where a slice of n elements begins and ends.      *)
(***************************************************************************)
EXTENDS Integers

Null    == [t |-> "null"]
Bool(b) == [t |-> "bool", b |-> b]
Num(n)  == [t |-> "num", n |-> n]
Str(r)  == [t |-> "str", r |-> r]      \* a sequence of runes
List(s) == [t |-> "list", s |-> s]
Map(f)  == [t |-> "map", f |-> f]
Fault   == [t |-> "error"]             \* any error, returned as a value

Abs(n)  == IF n < 0 THEN -n ELSE n
Sign(n) == IF n < 0 THEN -1 ELSE IF n = 0 THEN 0 ELSE 1

\* clampIndex
Clamp(i, low, high) ==
    LET k == IF i < 0 THEN i + high ELSE i
    IN  IF k < low THEN low ELSE IF k < high THEN k ELSE high

\* A bound is <<>> for null.
SliceStart(s, n)  == IF s = <<>> THEN 0 ELSE Clamp(s[1], 0, n)
SliceEnd(s, e, n) == IF e = <<>> THEN n ELSE Clamp(e[1], SliceStart(s, n), n)
===============================================================================
