-------------------------------- MODULE Output --------------------------------
(***************************************************************************)
(* What processing one input may produce, and what printing it does.       *)
(*                                                                         *)
(* An input is what one call of the input iterator returns.  That may be a *)
(* Go error in place of a value (readError); result is what code.Run       *)
(* yields for whatever was returned: the values before the first error,    *)
(* and that error.                                                         *)
(*                                                                         *)
(* Values are abstracted to what printing them tells apart:                *)
(*   "truthy", "falsy" - printed; they set the --exit-status code;         *)
(*   "nul"             - a string printValue refuses: it holds a NUL and   *)
(*                       --raw-output0 is given.  Nothing is written.      *)
(* Errors are abstracted to                                                *)
(*   "error"      - an error of the query;                                 *)
(*   "read"       - the error the iterator returned in place of a value;   *)
(*   "nul"        - printValue's error;                                    *)
(*   "halt"       - HaltError without a value (the builtin halt);          *)
(*   "halt_error" - HaltError with a value, which goes to stderr.          *)
(***************************************************************************)
EXTENDS Naturals, Sequences

Values == {"truthy", "falsy", "nul"}
Halts  == {"halt", "halt_error"}
Errors == {"error", "read", "nul"} \cup Halts

Results     == [vals : Seq(Values), err : (Errors \ {"nul"}) \cup {"none"}]
InputValues == [readError : BOOLEAN, result : Results]

Printable(v) == v # "nul"

\* The positions of a block's values that printValue refuses.
Refused(block) == {k \in DOMAIN block : ~Printable(block[k])}

\* The status tracked for --exit-status: none before the first printed value.
ExitStatuses == {"noValue", "falsy", "ok"}

\* It after printing a block of values in order: the last one printed decides.
StatusAfter(status, block) ==
    LET printed == DOMAIN block \ Refused(block)
    IN  IF printed = {} THEN status
        ELSE IF block[CHOOSE k \in printed : \A j \in printed : j <= k] = "falsy"
             THEN "falsy" ELSE "ok"

\* What one input writes to stderr: a line for each refused value, then the
\* error.  A halt without a value is silent.
Report(refused, err) ==
    IF refused = {} /\ err \in {"none", "halt"} THEN <<>>
    ELSE <<[refused |-> refused, err |-> err]>>

Reports == [refused : SUBSET Nat, err : Errors \cup {"none"}]
===============================================================================
