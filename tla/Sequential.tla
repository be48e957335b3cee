------------------------------ MODULE Sequential ------------------------------
(***************************************************************************)
(* cli.process without concurrency: one input after the other is read, run *)
(* and printed.  One step of the model is one iteration of the loop.  Each *)
(* iteration adds one block to stdout, empty when it prints nothing.       *)
(***************************************************************************)
EXTENDS Output

VARIABLES world,       \* the inputs, in the order the iterator yields them
          pos,         \* how many inputs the loop has consumed
          stdout,      \* one block of printed values for each consumed input
          stderr,      \* the reports written to the error stream
          exitStatus,  \* cli.exitCodeError
          err,         \* the error process is to return, "none" for nil
          done         \* process has returned

vars == <<world, pos, stdout, stderr, exitStatus, err, done>>

Init ==
    /\ pos = 0
    /\ stdout = <<>>
    /\ stderr = <<>>
    /\ exitStatus = "noValue"
    /\ err = "none"
    /\ done = FALSE

\* The values printValues hands to printValue: it returns at the first refused.
Attempted(vals) ==
    IF Refused(vals) = {} THEN vals
    ELSE SubSeq(vals, 1, CHOOSE k \in Refused(vals) : \A j \in Refused(vals) : k <= j)

\* The error printValues returns.
PrintError(result) == IF Refused(result.vals) = {} THEN result.err ELSE "nul"

Emit(block) ==
    /\ stdout' = Append(stdout, block)
    /\ exitStatus' = StatusAfter(exitStatus, block)

Fail(e) == err' = IF e = "none" THEN err ELSE e

\* The iterator returned an error: it is reported and the loop goes on.
ReadError ==
    /\ ~done
    /\ pos < Len(world)
    /\ world[pos + 1].readError
    /\ pos' = pos + 1
    /\ Emit(<<>>)
    /\ stderr' = stderr \o Report({}, "read")
    /\ Fail("read")
    /\ UNCHANGED <<world, done>>

\* The query runs on a value and its output is printed; halt leaves the loop.
Process ==
    /\ ~done
    /\ pos < Len(world)
    /\ ~world[pos + 1].readError
    /\ LET result == world[pos + 1].result
           block  == Attempted(result.vals)
           e      == PrintError(result)
       IN  /\ Emit(block)
           /\ stderr' = stderr \o Report(Refused(block), IF e = "nul" THEN "none" ELSE e)
           /\ Fail(e)
           /\ done' = (e \in Halts)
    /\ pos' = pos + 1
    /\ UNCHANGED world

\* The iterator is exhausted.
Finish ==
    /\ ~done
    /\ pos = Len(world)
    /\ done' = TRUE
    /\ UNCHANGED <<world, pos, stdout, stderr, exitStatus, err>>

Next == ReadError \/ Process \/ Finish

Spec == Init /\ [][Next]_vars
===============================================================================
