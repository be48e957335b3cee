------------------------------- MODULE Parallel -------------------------------
(***************************************************************************)
(* cli.processParallel: a producer goroutine reads the inputs, a pool of   *)
(* workers runs the query on one input each, a closer waits for the pool,  *)
(* and the calling goroutine collects the results and prints them in the   *)
(* order of the inputs.  items and results are unbuffered channels: a send *)
(* is one step with its receive.  A select with several ready cases may    *)
(* take any of them.                                                       *)
(*                                                                         *)
(* The query's run is local to its worker, so it is one step (RunQuery);   *)
(* so is the printing of one result, since no other goroutine writes to    *)
(* stdout.  A query that reads `input` is not modelled here.               *)
(***************************************************************************)
EXTENDS Output, FiniteSets

CONSTANTS Workers,  \* the goroutines of the pool; cli.llmConcurrency of them
          Worlds    \* the sequences of inputs the iterator may yield

ASSUME WorkersAssumption == IsFiniteSet(Workers) /\ Workers # {}
ASSUME WorldsAssumption  == Worlds \subseteq Seq(InputValues)

VARIABLES world,       \* the inputs of this execution
          producer,    \* where the producer is
          seq,         \* the producer's counter: inputs read from the iterator
          worker,      \* where each worker is
          item,        \* the input each worker holds (its index, from 1)
          quit,        \* the channel quit is closed
          closed,      \* the channel results is closed
          collector,   \* where the collecting goroutine is
          next,        \* how many results have been taken out of pending
          pending,     \* results received and not yet taken out, by input
          halted,      \* a result ended in a HaltError
          stdout, stderr, exitStatus, procErr,  \* as in Sequential
          late         \* the part of stderr written after the first halt

pool   == <<producer, seq, worker, item, closed>>
output == <<next, pending, halted, stdout, stderr, exitStatus, procErr, late>>
vars   == <<world, pool, quit, collector, output>>

TypeOK ==
    /\ world \in Worlds
    /\ producer \in {"read", "send", "done"}
    /\ seq \in 0..Len(world)
    /\ worker \in [Workers -> {"receive", "run", "send", "done"}]
    /\ item \in [Workers -> 0..Len(world)]
    /\ quit \in BOOLEAN
    /\ closed \in BOOLEAN
    /\ collector \in {"receive", "print", "returned"}
    /\ next \in 0..Len(world)
    /\ DOMAIN pending \subseteq 1..Len(world)
    /\ \A i \in DOMAIN pending : pending[i] \in Results
    /\ halted \in BOOLEAN
    /\ stdout \in Seq(Seq(Values))
    /\ stderr \in Seq(Reports)
    /\ late \in Seq(Reports)
    /\ exitStatus \in ExitStatuses
    /\ procErr \in Errors \cup {"none"}

Init ==
    /\ world \in Worlds
    /\ producer = "read"
    /\ seq = 0
    /\ worker = [w \in Workers |-> "receive"]
    /\ item = [w \in Workers |-> 0]
    /\ quit = FALSE
    /\ closed = FALSE
    /\ collector = "receive"
    /\ next = 0
    /\ pending = <<>>
    /\ halted = FALSE
    /\ stdout = <<>>
    /\ stderr = <<>>
    /\ late = <<>>
    /\ exitStatus = "noValue"
    /\ procErr = "none"

-------------------------------------------------------------------------------
(* The producer.                                                           *)

\* Mutant: the end of the inputs goes unnoticed.
ReadPastEnd ==
    /\ producer = "read"
    /\ seq' = seq + 1
    /\ producer' = "send"
    /\ UNCHANGED <<world, worker, item, quit, closed, collector, output>>

\* iter.Next returns a value (or an error, which is passed on like a value).
Read ==
    /\ producer = "read"
    /\ seq < Len(world)
    /\ seq' = seq + 1
    /\ producer' = "send"
    /\ UNCHANGED <<world, worker, item, quit, closed, collector, output>>

\* Mutant: the producer does not close items when the inputs end.
ItemsLeftOpen == FALSE

\* iter.Next reports the end of the inputs: return, which closes items.
ReadEnd ==
    /\ producer = "read"
    /\ seq = Len(world)
    /\ producer' = "done"
    /\ UNCHANGED <<world, seq, worker, item, quit, closed, collector, output>>

\* The select's first case: a worker that waits takes the item.
Dispatch(w) ==
    /\ producer = "send"
    /\ worker[w] = "receive"
    /\ producer' = "read"
    /\ worker' = [worker EXCEPT ![w] = "run"]
    /\ item' = [item EXCEPT ![w] = seq]
    /\ UNCHANGED <<world, seq, quit, closed, collector, output>>

\* Mutant: the producer's select has no case for quit.
DeafToQuit == FALSE

\* The select's second case: return, which closes items.
ProducerQuit ==
    /\ producer = "send"
    /\ quit
    /\ producer' = "done"
    /\ UNCHANGED <<world, seq, worker, item, quit, closed, collector, output>>

-------------------------------------------------------------------------------
(* The workers and the closer.                                             *)

\* code.Run on the item, whatever the iterator returned, up to the first error.
RunQuery(w) ==
    /\ worker[w] = "run"
    /\ worker' = [worker EXCEPT ![w] = "send"]
    /\ UNCHANGED <<world, producer, seq, item, quit, closed, collector, output>>

\* The select's first case: the collector takes the result.
SendResult(w) ==
    /\ worker[w] = "send"
    /\ collector = "receive"
    /\ worker' = [worker EXCEPT ![w] = "receive"]
    /\ pending' = [i \in DOMAIN pending \cup {item[w]} |->
                      IF i = item[w] THEN world[i].result ELSE pending[i]]
    /\ collector' = "print"
    /\ UNCHANGED <<world, producer, seq, item, quit, closed,
                   next, halted, stdout, stderr, exitStatus, procErr, late>>

\* Mutant: the worker drops its result whenever the collector is busy.
WorkerDropsResult(w) ==
    /\ worker[w] = "send"
    /\ collector = "print"
    /\ worker' = [worker EXCEPT ![w] = "receive"]
    /\ UNCHANGED <<world, producer, seq, item, quit, closed, collector, output>>

\* The select's second case: the worker drops its result and returns.
WorkerQuit(w) ==
    /\ worker[w] = "send"
    /\ quit
    /\ worker' = [worker EXCEPT ![w] = "done"]
    /\ UNCHANGED <<world, producer, seq, item, quit, closed, collector, output>>

\* items is closed: the worker's range loop ends.
WorkerEnd(w) ==
    /\ worker[w] = "receive"
    /\ producer = "done"
    /\ worker' = [worker EXCEPT ![w] = "done"]
    /\ UNCHANGED <<world, producer, seq, item, quit, closed, collector, output>>

\* Mutant: the first worker to end closes results.
CloseEarly ==
    /\ ~closed
    /\ \E w \in Workers : worker[w] = "done"
    /\ closed' = TRUE
    /\ UNCHANGED <<world, producer, seq, worker, item, quit, collector, output>>

\* wg.Wait returns and results is closed.
CloseResults ==
    /\ ~closed
    /\ \A w \in Workers : worker[w] = "done"
    /\ closed' = TRUE
    /\ UNCHANGED <<world, producer, seq, worker, item, quit, collector, output>>

-------------------------------------------------------------------------------
(* The collector.                                                          *)

\* The refused values that are reported: none once a halt stopped the printing.
Reported(result) == IF halted THEN {} ELSE Refused(result.vals)

\* Mutant: the first error is returned instead of the last.
FirstError(result) == IF procErr # "none" THEN procErr ELSE result.err

\* procErr after a result: its error, or else that of a refused value.
ErrorAfter(result) ==
    IF result.err # "none" THEN result.err
    ELSE IF Reported(result) # {} THEN "nul"
    ELSE procErr

\* The result of input i is taken out of pending and printed, unless a halt came
\* before it; its error is handled in any case.  A halt closes quit and leaves
\* the inner loop.
HandleResult(i) ==
    /\ LET result == pending[i]
           halt   == result.err \in Halts
           report == Report(Reported(result), result.err)
       IN  /\ IF halted
              THEN /\ late' = late \o report
                   /\ UNCHANGED <<stdout, stderr, exitStatus>>
              ELSE /\ stdout' = Append(stdout, result.vals)
                   /\ exitStatus' = StatusAfter(exitStatus, result.vals)
                   /\ stderr' = stderr \o report
                   /\ UNCHANGED late
           /\ procErr' = ErrorAfter(result)
           /\ halted' = (halted \/ halt)
           /\ quit' = (quit \/ halt)
           /\ collector' = IF halt THEN "receive" ELSE "print"
    /\ next' = next + 1
    /\ pending' = [j \in DOMAIN pending \ {i} |-> pending[j]]
    /\ UNCHANGED <<world, pool>>

\* Mutant: results are printed as they arrive.
PrintArrived ==
    /\ collector = "print"
    /\ \E i \in DOMAIN pending : HandleResult(i)

\* The inner loop handles the next result in the order of the inputs.
PrintNext ==
    /\ collector = "print"
    /\ next + 1 \in DOMAIN pending
    /\ HandleResult(next + 1)

\* The next result in order has not arrived: back to receiving.
AwaitNext ==
    /\ collector = "print"
    /\ next + 1 \notin DOMAIN pending
    /\ collector' = "receive"
    /\ UNCHANGED <<world, pool, quit, output>>

\* results is closed: return procErr; the deferred stop closes quit.
Return ==
    /\ collector = "receive"
    /\ closed
    /\ collector' = "returned"
    /\ quit' = TRUE
    /\ UNCHANGED <<world, pool, output>>

-------------------------------------------------------------------------------
ProducerStep  == Read \/ ReadEnd \/ ProducerQuit \/ \E w \in Workers : Dispatch(w)
WorkerStep(w) == Dispatch(w) \/ RunQuery(w) \/ SendResult(w) \/ WorkerQuit(w) \/ WorkerEnd(w)
CollectorStep == PrintNext \/ AwaitNext \/ Return \/ \E w \in Workers : SendResult(w)

Next == ProducerStep \/ CloseResults \/ CollectorStep \/ \E w \in Workers : WorkerStep(w)

Spec == Init /\ [][Next]_vars

\* The Go scheduler runs every goroutine that can run; the iterator returns
\* (a WF of Read) and every query ends (a WF of RunQuery).
Fairness ==
    /\ WF_vars(ProducerStep)
    /\ WF_vars(CloseResults)
    /\ WF_vars(CollectorStep)
    /\ \A w \in Workers : WF_vars(WorkerStep(w))

FairSpec == Spec /\ Fairness

-------------------------------------------------------------------------------
(* Properties.                                                             *)

\* Worker w holds input i and has not handed its result over.
Holds(w, i) == worker[w] \in {"run", "send"} /\ item[w] = i

\* An input that was read is never in two places: held by two workers, held and
\* in pending, held and printed, pending and printed, or one of these while the
\* producer still has it.
NothingTwice ==
    /\ \A w, v \in Workers : \A i \in 1..seq : Holds(w, i) /\ Holds(v, i) => w = v
    /\ \A w \in Workers : \A i \in 1..seq :
           Holds(w, i) => next < i /\ i \notin DOMAIN pending
    /\ \A i \in DOMAIN pending : next < i
    /\ producer = "send" =>
           next < seq /\ seq \notin DOMAIN pending /\ \A w \in Workers : ~Holds(w, seq)

\* Unless a query halted, an input that was read is somewhere: with the
\* producer, with a worker, in pending, or printed.
NothingLost ==
    ~halted => \A i \in 1..seq :
        \/ i <= next
        \/ i \in DOMAIN pending
        \/ \E w \in Workers : Holds(w, i)
        \/ producer = "send" /\ i = seq

\* No interleaving of the channel operations loses or duplicates an input.
OnePlace == NothingTwice /\ NothingLost

\* The first inputs printed, in the order of the inputs and each exactly once,
\* are what stdout holds; printing stops with the first input, in input order
\* and not in order of arrival, whose query halted.
PrintedInOrder ==
    /\ Len(stdout) <= next
    /\ \A i \in 1..Len(stdout) : stdout[i] = world[i].result.vals
    /\ \A i \in 1..Len(stdout) : world[i].result.err \in Halts => i = Len(stdout) /\ halted
    /\ Len(stdout) < next => world[Len(stdout)].result.err \in Halts

\* When processParallel returns and nothing halted, every input the iterator
\* had was printed, nothing is left in pending, and no goroutine still uses the
\* iterator, which the caller closes next.
ReturnsComplete ==
    collector = "returned" /\ ~halted =>
        /\ Len(stdout) = Len(world)
        /\ DOMAIN pending = {}
        /\ producer = "done"

\* What the inputs must be for both ways of processing to agree: the query
\* yields an error the iterator returned as its only output, and a refused value
\* is the last of its input.
Agrees(input) ==
    /\ input.readError => input.result = [vals |-> <<>>, err |-> "read"]
    /\ \A k \in Refused(input.result.vals) :
           k = Len(input.result.vals) /\ input.result.err = "none"

WorldsAgree == \A s \in Worlds : \A i \in DOMAIN s : Agrees(s[i])

\* Until the first halt, and in everything that reaches stdout, the pool does
\* what cli.process does one input at a time: printing a result is the iteration
\* of the sequential loop on that input, every other step stutters.
S == INSTANCE Sequential WITH
        pos <- Len(stdout),
        err <- IF halted THEN world[Len(stdout)].result.err ELSE procErr,
        done <- halted \/ collector = "returned"

SequentialUpToHalt == S!Spec

\* After a halt the collector keeps draining but prints nothing further, and the
\* error it returns stays the halt's.
HaltIsFinal == [][halted => UNCHANGED <<stdout, stderr, late, procErr>>]_vars

\* The whole outcome is the one of sequential processing: when processParallel
\* returns, each block of stdout is what the sequential loop prints for the
\* input, whatever the iterator returned.
ByteIdentical ==
    collector = "returned" => \A i \in DOMAIN stdout :
        stdout[i] = IF world[i].readError THEN <<>> ELSE S!Attempted(world[i].result.vals)

\* processParallel returns.
Termination == <>(collector = "returned")

\* Every goroutine of the pool ends and none blocks for ever on a channel
\* nobody serves, whichever way the collector came to return.
NoGoroutineLeak ==
    <>[](producer = "done" /\ closed /\ \A w \in Workers : worker[w] = "done")
===============================================================================
