-------------------------------- MODULE Answers --------------------------------
(***************************************************************************)
(* What the caller of a query's iterator sees: the values that the query   *)
(* means, one by one and in order, and then its error or the end.          *)
(***************************************************************************)
EXTENDS Naturals, Sequences

CONSTANTS Meaning(_),  \* the values and the error that a program means: [out, err]
          Running      \* the outcome of an iteration that has not ended

VARIABLES prog,     \* the program, a query with its input
          out,      \* the values the iterator has returned
          outcome   \* how it ended

vars == <<prog, out, outcome>>

Init ==
    /\ out = <<>>
    /\ outcome = Running

Value ==
    /\ outcome = Running
    /\ Len(out) < Len(Meaning(prog).out)
    /\ out' = Append(out, Meaning(prog).out[Len(out) + 1])
    /\ UNCHANGED <<prog, outcome>>

End ==
    /\ outcome = Running
    /\ out = Meaning(prog).out
    /\ outcome' = Meaning(prog).err
    /\ UNCHANGED <<prog, out>>

Next == Value \/ End

Spec == Init /\ [][Next]_vars /\ WF_vars(Next)
===============================================================================
