---------------------------- MODULE ParallelProofs ----------------------------
(***************************************************************************)
(* Theorems about Parallel for any pool and any inputs: types, the         *)
(* inductive invariant behind its safety properties, and that the pool     *)
(* implements sequential processing up to the first halt.                  *)
(***************************************************************************)
EXTENDS Parallel, TLAPS

\* Whoever holds an input holds one that was read.
Busy ==
    /\ producer = "send" => seq \in 1..Len(world)
    /\ \A w \in Workers : worker[w] \in {"run", "send"} => item[w] \in 1..seq

\* Every result of every world has its type.
LEMMA WorldTypes ==
    ASSUME world \in Worlds
    PROVE  /\ Len(world) \in Nat
           /\ \A i \in 1..Len(world) :
                 /\ world[i] \in InputValues
                 /\ world[i].result \in Results
                 /\ world[i].result.vals \in Seq(Values)
                 /\ world[i].result.err \in Errors \cup {"none"}
<1>1. world \in Seq(InputValues)
  BY WorldsAssumption
<1>2. Len(world) \in Nat /\ \A i \in 1..Len(world) : world[i] \in InputValues
  BY <1>1
<1>3. ASSUME NEW input \in InputValues
      PROVE  /\ input.result \in Results
             /\ input.result.vals \in Seq(Values)
             /\ input.result.err \in Errors \cup {"none"}
  BY DEF InputValues, Results
<1> QED
  BY <1>2, <1>3

\* What a result writes to stderr has its type.
LEMMA ReportType ==
    ASSUME NEW block \in Seq(Values), NEW refused \in {{}, Refused(block)},
           NEW err \in Errors \cup {"none"}
    PROVE  Report(refused, err) \in Seq(Reports)
<1>1. refused \in SUBSET Nat
  BY DEF Refused
<1>2. [refused |-> refused, err |-> err] \in Reports
  BY <1>1 DEF Reports
<1>3. Report(refused, err) \in {<<>>, <<[refused |-> refused, err |-> err]>>}
  BY DEF Report
<1>4. <<>> \in Seq(Reports) /\ \A r \in Reports : <<r>> \in Seq(Reports)
  OBVIOUS
<1> QED
  BY <1>2, <1>3, <1>4

\* The status after a block is a status.
LEMMA StatusType ==
    ASSUME NEW status \in ExitStatuses, NEW block
    PROVE  StatusAfter(status, block) \in ExitStatuses
  BY DEF StatusAfter, ExitStatuses

-------------------------------------------------------------------------------
\* The states of Parallel are well typed, for every pool and all inputs.
LEMMA TypeInvariant == Spec => [](TypeOK /\ Busy)
<1>1. Init => TypeOK /\ Busy
  <2> SUFFICES ASSUME Init PROVE TypeOK /\ Busy
    OBVIOUS
  <2>1. Len(world) \in Nat
    BY WorldTypes DEF Init
  <2>2. pending = [i \in {} |-> 0] /\ DOMAIN pending = {}
    BY DEF Init
  <2>3. stdout \in Seq(Seq(Values)) /\ stderr \in Seq(Reports) /\ late \in Seq(Reports)
    BY DEF Init
  <2>4. world \in Worlds /\ Busy
    BY DEF Init, Busy
  <2>5. /\ worker \in [Workers -> {"receive", "run", "send", "done"}]
        /\ item \in [Workers -> 0..Len(world)]
    BY <2>1 DEF Init
  <2>6. /\ seq \in 0..Len(world) /\ next \in 0..Len(world)
        /\ exitStatus \in ExitStatuses
        /\ DOMAIN pending \subseteq 1..Len(world)
        /\ \A i \in DOMAIN pending : pending[i] \in Results
    BY <2>1, <2>2 DEF Init, ExitStatuses
  <2>7. /\ producer \in {"read", "send", "done"}
        /\ collector \in {"receive", "print", "returned"}
        /\ quit \in BOOLEAN /\ closed \in BOOLEAN /\ halted \in BOOLEAN
        /\ procErr \in Errors \cup {"none"}
    BY DEF Init
  <2> QED
    BY <2>3, <2>4, <2>5, <2>6, <2>7 DEF TypeOK
<1>2. TypeOK /\ Busy /\ [Next]_vars => TypeOK' /\ Busy'
  <2> SUFFICES ASSUME TypeOK, Busy, [Next]_vars PROVE TypeOK' /\ Busy'
    OBVIOUS
  <2>0. /\ Len(world) \in Nat
        /\ \A i \in 1..Len(world) :
                 /\ world[i] \in InputValues
                 /\ world[i].result \in Results
                 /\ world[i].result.vals \in Seq(Values)
                 /\ world[i].result.err \in Errors \cup {"none"}
    BY WorldTypes DEF TypeOK
  <2> USE DEF TypeOK, Busy, vars, pool, output
  <2>1. CASE Read BY <2>1, <2>0 DEF Read
  <2>2. CASE ReadEnd BY <2>2 DEF ReadEnd
  <2>3. CASE ProducerQuit BY <2>3 DEF ProducerQuit
  <2>4. ASSUME NEW w \in Workers, Dispatch(w) PROVE TypeOK' /\ Busy'
    BY <2>4, <2>0 DEF Dispatch
  <2>5. ASSUME NEW w \in Workers, RunQuery(w) PROVE TypeOK' /\ Busy'
    BY <2>5 DEF RunQuery
  <2>6. ASSUME NEW w \in Workers, SendResult(w) PROVE TypeOK' /\ Busy'
    <3>1. item[w] \in 1..Len(world)
      BY <2>6, <2>0 DEF SendResult
    <3>2. /\ DOMAIN pending' \subseteq 1..Len(world)
          /\ \A i \in DOMAIN pending' : pending'[i] \in Results
      BY <2>6, <3>1, <2>0 DEF SendResult
    <3> QED
      BY <2>6, <3>2, <2>0 DEF SendResult
  <2>7. ASSUME NEW w \in Workers, WorkerQuit(w) PROVE TypeOK' /\ Busy'
    BY <2>7 DEF WorkerQuit
  <2>8. ASSUME NEW w \in Workers, WorkerEnd(w) PROVE TypeOK' /\ Busy'
    BY <2>8 DEF WorkerEnd
  <2>9. CASE CloseResults BY <2>9 DEF CloseResults
  <2>10. CASE PrintNext
    <3> DEFINE result == pending[next + 1]
    <3>1. next + 1 \in 1..Len(world) /\ result \in Results
      BY <2>10, <2>0 DEF PrintNext, HandleResult
    <3>2. result.vals \in Seq(Values) /\ result.err \in Errors \cup {"none"}
      BY <3>1 DEF Results
    <3>3. stdout' \in Seq(Seq(Values))
      <4>1. stdout' = stdout \/ stdout' = Append(stdout, result.vals)
        BY <2>10 DEF PrintNext, HandleResult
      <4>2. stdout \in Seq(Seq(Values))
        OBVIOUS
      <4> HIDE DEF result, TypeOK
      <4> QED
        BY <4>1, <4>2, <3>2
    <3>4. exitStatus' \in ExitStatuses
      BY <2>10, StatusType DEF PrintNext, HandleResult
    <3>5. Report(Reported(result), result.err) \in Seq(Reports)
      BY <3>2, ReportType DEF Reported
    <3>6. stderr' \in Seq(Reports) /\ late' \in Seq(Reports)
      <4> DEFINE report == Report(Reported(result), result.err)
      <4>1. \/ stderr' = stderr /\ late' = late \o report
            \/ late' = late /\ stderr' = stderr \o report
        <5> HIDE DEF TypeOK, Busy
        <5>1. CASE halted
          BY <5>1, <2>10 DEF PrintNext, HandleResult
        <5>2. CASE ~halted
          BY <5>2, <2>10 DEF PrintNext, HandleResult
        <5> QED
          BY <5>1, <5>2
      <4>2. stderr \in Seq(Reports) /\ late \in Seq(Reports)
        OBVIOUS
      <4>3. report \in Seq(Reports)
        BY <3>5
      <4> HIDE DEF report, TypeOK, Busy
      <4>4. ASSUME NEW a \in Seq(Reports), NEW b \in Seq(Reports) PROVE a \o b \in Seq(Reports)
        OBVIOUS
      <4> QED
        BY <4>1, <4>2, <4>3, <4>4
    <3>7. procErr' \in Errors \cup {"none"}
      BY <2>10, <3>2 DEF PrintNext, HandleResult, ErrorAfter, Errors
    <3>8. DOMAIN pending' \subseteq 1..Len(world) /\ \A i \in DOMAIN pending' : pending'[i] \in Results
      BY <2>10 DEF PrintNext, HandleResult
    <3>9. next' \in 0..Len(world) /\ halted' \in BOOLEAN /\ quit' \in BOOLEAN
      BY <2>10, <3>1 DEF PrintNext, HandleResult
    <3>10. collector' \in {"receive", "print", "returned"}
      BY <2>10 DEF PrintNext, HandleResult
    <3>11. UNCHANGED <<world, producer, seq, worker, item, closed>>
      BY <2>10 DEF PrintNext, HandleResult
    <3> QED
      BY <3>3, <3>4, <3>6, <3>7, <3>8, <3>9, <3>10, <3>11
  <2>11. CASE AwaitNext BY <2>11 DEF AwaitNext
  <2>12. CASE Return BY <2>12 DEF Return
  <2>13. CASE UNCHANGED vars BY <2>13
  <2> QED
    BY <2>1, <2>2, <2>3, <2>4, <2>5, <2>6, <2>7, <2>8, <2>9, <2>10, <2>11, <2>12, <2>13
    DEF Next, ProducerStep, WorkerStep, CollectorStep
<1> QED
  BY <1>1, <1>2, PTL DEF Spec

\* The states of Parallel are well typed, for every pool and all inputs.
THEOREM TypeCorrect == Spec => []TypeOK
  BY TypeInvariant, PTL

-------------------------------------------------------------------------------
(* The inductive invariant.  OnePlace, PrintedInOrder and ReturnsComplete   *)
(* are not inductive: that nothing is lost on return needs to know how far *)
(* the shutdown has come (Shutdown), and that the collector left nothing   *)
(* printable in pending (Waiting); the order needs what pending holds.     *)

\* pending holds the results of inputs that were read, each its own.
PendingResults ==
    /\ next <= seq
    /\ \A i \in DOMAIN pending : i <= seq /\ pending[i] = world[i].result

\* A collector that waits has printed all it can, unless a halt cut it short.
Waiting ==
    collector \in {"receive", "returned"} /\ ~halted => next + 1 \notin DOMAIN pending

\* How the shutdown proceeds.
Shutdown ==
    /\ quit /\ ~halted => collector = "returned"
    /\ collector = "returned" => closed
    /\ closed => \A w \in Workers : worker[w] = "done"
    /\ ~halted => \A w \in Workers : worker[w] = "done" => producer = "done"
    /\ ~halted /\ producer = "done" => seq = Len(world)

\* How far stdout is: with the collector until a halt, at the halt from then on.
Printed ==
    /\ \A i \in 1..Len(stdout) : stdout[i] = world[i].result.vals
    /\ Len(stdout) <= next
    /\ ~halted => Len(stdout) = next
    /\ ~halted => \A i \in 1..next : world[i].result.err \notin Halts
    /\ halted => /\ Len(stdout) >= 1
                 /\ world[Len(stdout)].result.err \in Halts
                 /\ \A i \in 1..(Len(stdout) - 1) : world[i].result.err \notin Halts

IInv == OnePlace /\ PendingResults /\ Waiting /\ Shutdown /\ Printed

\* Every step of Parallel preserves the inductive invariant.
LEMMA Inductive == TypeOK /\ Busy /\ IInv /\ [Next]_vars => IInv'
<1> SUFFICES ASSUME TypeOK, Busy, IInv, [Next]_vars PROVE IInv'
  OBVIOUS
<1>0. /\ Len(world) \in Nat /\ Len(stdout) \in Nat
      /\ seq \in 0..Len(world) /\ next \in 0..Len(world)
  BY WorldTypes DEF TypeOK
<1> USE DEF IInv, vars, pool, output
<1>1. CASE Read
  <2>1. OnePlace'
    <3>1. \A w \in Workers : \A i : Holds(w, i)' <=> Holds(w, i)
      BY <1>1 DEF Read, Holds
    <3>2. \A w \in Workers : ~Holds(w, seq + 1)
      BY <1>0, <1>1 DEF Read, Holds, Busy
    <3>3. seq + 1 \notin DOMAIN pending /\ next < seq + 1
      BY <1>0 DEF PendingResults, TypeOK
    <3>4. producer = "read" /\ producer' = "send" /\ seq' = seq + 1
      BY <1>1 DEF Read
    <3>5. UNCHANGED <<next, pending, halted>>
      BY <1>1 DEF Read
    <3>6. NothingTwice'
      <4>1. \A i \in 1..seq' : i \in 1..seq \/ i = seq + 1
        BY <1>0, <3>4
      <4>2. \A w, v \in Workers : \A i \in 1..seq' : Holds(w, i)' /\ Holds(v, i)' => w = v
        BY <3>1, <3>2, <4>1 DEF OnePlace, NothingTwice
      <4>3. \A w \in Workers : \A i \in 1..seq' :
                Holds(w, i)' => next' < i /\ i \notin DOMAIN pending'
        BY <3>1, <3>2, <3>5, <4>1 DEF OnePlace, NothingTwice
      <4>4. \A i \in DOMAIN pending' : next' < i
        BY <3>5 DEF OnePlace, NothingTwice
      <4>5. next' < seq' /\ seq' \notin DOMAIN pending' /\ \A w \in Workers : ~Holds(w, seq)'
        BY <1>1, <3>1, <3>2, <3>3, <3>4, <3>5 DEF Read, Holds
      <4> QED
        BY <4>2, <4>3, <4>4, <4>5 DEF NothingTwice
    <3>7. NothingLost'
      BY <1>0, <3>1, <3>2, <3>3, <3>4, <3>5 DEF OnePlace, NothingLost
    <3> QED
      BY <3>6, <3>7 DEF OnePlace
  <2>2. PendingResults'
    BY <1>0, <1>1 DEF Read, PendingResults, TypeOK, Busy
  <2>3. Waiting'
    BY <1>0, <1>1 DEF Read, Waiting, TypeOK, Busy
  <2>4. Shutdown'
    BY <1>0, <1>1 DEF Read, Shutdown, TypeOK, Busy
  <2>5. Printed'
    BY <1>0, <1>1 DEF Read, Printed, TypeOK, Busy
  <2> QED
    BY <2>1, <2>2, <2>3, <2>4, <2>5
<1>2. CASE ReadEnd
  <2>1. OnePlace'
    BY <1>0, <1>2 DEF ReadEnd, OnePlace, NothingTwice, NothingLost, Holds, TypeOK, Busy
  <2>2. PendingResults'
    BY <1>0, <1>2 DEF ReadEnd, PendingResults, TypeOK, Busy
  <2>3. Waiting'
    BY <1>0, <1>2 DEF ReadEnd, Waiting, TypeOK, Busy
  <2>4. Shutdown'
    BY <1>0, <1>2 DEF ReadEnd, Shutdown, TypeOK, Busy
  <2>5. Printed'
    BY <1>0, <1>2 DEF ReadEnd, Printed, TypeOK, Busy
  <2> QED
    BY <2>1, <2>2, <2>3, <2>4, <2>5
<1>3. CASE ProducerQuit
  <2>0. halted
    BY <1>3, WorkersAssumption DEF ProducerQuit, Shutdown
  <2>1. OnePlace'
    <3>1. \A v \in Workers : \A i \in 1..seq : Holds(v, i)' => Holds(v, i)
      BY <1>3 DEF ProducerQuit, Holds, TypeOK
    <3>2. UNCHANGED <<seq, next, pending, halted>> /\ (producer' = "send" => producer = "send")
      BY <1>3 DEF ProducerQuit
    <3> QED
      BY <1>0, <2>0, <3>1, <3>2 DEF OnePlace, NothingTwice, NothingLost, TypeOK
  <2>2. PendingResults'
    BY <1>0, <1>3 DEF ProducerQuit, PendingResults, TypeOK, Busy
  <2>3. Waiting'
    BY <1>0, <1>3 DEF ProducerQuit, Waiting, TypeOK, Busy
  <2>4. Shutdown'
    BY <2>0, <1>3 DEF ProducerQuit, Shutdown
  <2>5. Printed'
    BY <1>0, <1>3 DEF ProducerQuit, Printed, TypeOK, Busy
  <2> QED
    BY <2>1, <2>2, <2>3, <2>4, <2>5
<1>4. ASSUME NEW w \in Workers, Dispatch(w) PROVE IInv'
  <2>1. OnePlace'
    BY <1>0, <1>4, SMTT(60) DEF Dispatch, OnePlace, NothingTwice, NothingLost, Holds, TypeOK, Busy
  <2>2. PendingResults'
    BY <1>0, <1>4 DEF Dispatch, PendingResults, TypeOK, Busy
  <2>3. Waiting'
    BY <1>0, <1>4 DEF Dispatch, Waiting, TypeOK, Busy
  <2>4. Shutdown'
    BY <1>0, <1>4 DEF Dispatch, Shutdown, TypeOK, Busy
  <2>5. Printed'
    BY <1>0, <1>4 DEF Dispatch, Printed, TypeOK, Busy
  <2> QED
    BY <2>1, <2>2, <2>3, <2>4, <2>5
<1>5. ASSUME NEW w \in Workers, RunQuery(w) PROVE IInv'
  <2>1. OnePlace'
    BY <1>0, <1>5 DEF RunQuery, OnePlace, NothingTwice, NothingLost, Holds, TypeOK, Busy
  <2>2. PendingResults'
    BY <1>0, <1>5 DEF RunQuery, PendingResults, TypeOK, Busy
  <2>3. Waiting'
    BY <1>0, <1>5 DEF RunQuery, Waiting, TypeOK, Busy
  <2>4. Shutdown'
    BY <1>0, <1>5 DEF RunQuery, Shutdown, TypeOK, Busy
  <2>5. Printed'
    BY <1>0, <1>5 DEF RunQuery, Printed, TypeOK, Busy
  <2> QED
    BY <2>1, <2>2, <2>3, <2>4, <2>5
<1>6. ASSUME NEW w \in Workers, SendResult(w) PROVE IInv'
  <2>1. OnePlace'
    BY <1>0, <1>6 DEF SendResult, OnePlace, NothingTwice, NothingLost, Holds, TypeOK, Busy
  <2>2. PendingResults'
    BY <1>0, <1>6 DEF SendResult, PendingResults, TypeOK, Busy
  <2>3. Waiting'
    BY <1>0, <1>6 DEF SendResult, Waiting, TypeOK, Busy
  <2>4. Shutdown'
    BY <1>0, <1>6 DEF SendResult, Shutdown, TypeOK, Busy
  <2>5. Printed'
    BY <1>0, <1>6 DEF SendResult, Printed, TypeOK, Busy
  <2> QED
    BY <2>1, <2>2, <2>3, <2>4, <2>5
<1>7. ASSUME NEW w \in Workers, WorkerQuit(w) PROVE IInv'
  <2>0. halted
    BY <1>7, WorkersAssumption DEF WorkerQuit, Shutdown
  <2>1. OnePlace'
    <3>1. \A v \in Workers : \A i \in 1..seq : Holds(v, i)' => Holds(v, i)
      BY <1>7 DEF WorkerQuit, Holds, TypeOK
    <3>2. UNCHANGED <<seq, next, pending, halted>> /\ (producer' = "send" => producer = "send")
      BY <1>7 DEF WorkerQuit
    <3> QED
      BY <1>0, <2>0, <3>1, <3>2 DEF OnePlace, NothingTwice, NothingLost, TypeOK
  <2>2. PendingResults'
    BY <1>0, <1>7 DEF WorkerQuit, PendingResults, TypeOK, Busy
  <2>3. Waiting'
    BY <1>0, <1>7 DEF WorkerQuit, Waiting, TypeOK, Busy
  <2>4. Shutdown'
    BY <1>0, <1>7 DEF WorkerQuit, Shutdown, TypeOK, Busy
  <2>5. Printed'
    BY <1>0, <1>7 DEF WorkerQuit, Printed, TypeOK, Busy
  <2> QED
    BY <2>1, <2>2, <2>3, <2>4, <2>5
<1>8. ASSUME NEW w \in Workers, WorkerEnd(w) PROVE IInv'
  <2>1. OnePlace'
    <3>1. \A v \in Workers : \A i \in 1..seq : Holds(v, i)' <=> Holds(v, i)
      BY <1>8 DEF WorkerEnd, Holds, TypeOK
    <3>2. UNCHANGED <<seq, next, pending, halted, producer>>
      BY <1>8 DEF WorkerEnd
    <3> QED
      BY <1>0, <3>1, <3>2 DEF OnePlace, NothingTwice, NothingLost
  <2>2. PendingResults'
    BY <1>0, <1>8 DEF WorkerEnd, PendingResults, TypeOK, Busy
  <2>3. Waiting'
    BY <1>0, <1>8 DEF WorkerEnd, Waiting, TypeOK, Busy
  <2>4. Shutdown'
    BY <1>0, <1>8 DEF WorkerEnd, Shutdown, TypeOK, Busy
  <2>5. Printed'
    BY <1>0, <1>8 DEF WorkerEnd, Printed, TypeOK, Busy
  <2> QED
    BY <2>1, <2>2, <2>3, <2>4, <2>5
<1>9. CASE CloseResults
  <2>1. OnePlace'
    BY <1>0, <1>9 DEF CloseResults, OnePlace, NothingTwice, NothingLost, Holds, TypeOK, Busy
  <2>2. PendingResults'
    BY <1>0, <1>9 DEF CloseResults, PendingResults, TypeOK, Busy
  <2>3. Waiting'
    BY <1>0, <1>9 DEF CloseResults, Waiting, TypeOK, Busy
  <2>4. Shutdown'
    BY <1>0, <1>9 DEF CloseResults, Shutdown, TypeOK, Busy
  <2>5. Printed'
    BY <1>0, <1>9 DEF CloseResults, Printed, TypeOK, Busy
  <2> QED
    BY <2>1, <2>2, <2>3, <2>4, <2>5
<1>10. CASE PrintNext
  <2>1. OnePlace'
    <3>1. \A v \in Workers : \A i \in 1..seq : Holds(v, i)' <=> Holds(v, i)
      BY <1>10 DEF PrintNext, HandleResult, Holds
    <3>2. /\ UNCHANGED <<seq, producer>>
          /\ next' = next + 1
          /\ next + 1 \in DOMAIN pending
          /\ DOMAIN pending' = DOMAIN pending \ {next + 1}
          /\ halted => halted'
      BY <1>10 DEF PrintNext, HandleResult, TypeOK
    <3>3. DOMAIN pending \subseteq 1..seq
      BY <1>0 DEF PendingResults, TypeOK
    <3>4. \A v \in Workers : ~Holds(v, next + 1)
      BY <1>0, <3>2, <3>3 DEF OnePlace, NothingTwice
    <3>5. NothingTwice'
      BY <1>0, <3>1, <3>2, <3>3, <3>4 DEF OnePlace, NothingTwice
    <3>6. NothingLost'
      BY <1>0, <3>1, <3>2, <3>3 DEF OnePlace, NothingLost, TypeOK
    <3> QED
      BY <3>5, <3>6 DEF OnePlace
  <2>2. PendingResults'
    BY <1>0, <1>10 DEF PrintNext, HandleResult, PendingResults, TypeOK, Busy
  <2>3. Waiting'
    BY <1>0, <1>10 DEF PrintNext, HandleResult, Waiting, TypeOK, Busy
  <2>4. Shutdown'
    BY <1>0, <1>10 DEF PrintNext, HandleResult, Shutdown, TypeOK, Busy
  <2>5. Printed'
    <3> DEFINE result == pending[next + 1]
    <3>1. /\ next + 1 \in 1..Len(world)
          /\ result = world[next + 1].result
          /\ world' = world
          /\ next' = next + 1
      BY <1>0, <1>10 DEF PrintNext, HandleResult, PendingResults, TypeOK
    <3>2. CASE halted
      <4>1. stdout' = stdout /\ halted'
        BY <3>2, <1>10 DEF PrintNext, HandleResult
      <4> QED
        BY <1>0, <3>1, <3>2, <4>1 DEF Printed
    <3>3. CASE ~halted
      <4>1. stdout' = Append(stdout, result.vals) /\ halted' = (result.err \in Halts)
        BY <3>3, <1>10 DEF PrintNext, HandleResult
      <4>2. /\ Len(stdout') = Len(stdout) + 1
            /\ \A i \in 1..Len(stdout) : stdout'[i] = stdout[i]
            /\ stdout'[Len(stdout) + 1] = result.vals
        BY <4>1 DEF TypeOK
      <4>3. Len(stdout) = next
        BY <3>3 DEF Printed
      <4>4. \A i \in 1..Len(stdout') : stdout'[i] = world'[i].result.vals
        <5>1. \A i \in 1..Len(stdout') : i \in 1..Len(stdout) \/ i = Len(stdout) + 1
          BY <1>0, <4>2
        <5> QED
          BY <3>1, <4>2, <4>3, <5>1 DEF Printed
      <4>5. \A i \in 1..next : world[i].result.err \notin Halts
        BY <3>3 DEF Printed
      <4>6. Len(stdout') = next + 1 /\ next' = next + 1
        BY <4>2, <4>3, <3>1
      <4>7. halted' <=> world'[next + 1].result.err \in Halts
        BY <3>1, <4>1
      <4>8. \A i \in 1..(next + 1) : i \in 1..next \/ i = next + 1
        BY <1>0
      <4>9. \A i \in 1..next : world'[i].result.err \notin Halts
        BY <3>1, <4>5
      <4> HIDE DEF result
      <4>10. ~halted' => \A i \in 1..next' : world'[i].result.err \notin Halts
        BY <4>6, <4>7, <4>8, <4>9
      <4>11. halted' => /\ Len(stdout') >= 1
                        /\ world'[Len(stdout')].result.err \in Halts
                        /\ \A i \in 1..(Len(stdout') - 1) : world'[i].result.err \notin Halts
        <5>1. Len(stdout') - 1 = next /\ Len(stdout') >= 1
          BY <1>0, <4>6
        <5> QED
          BY <4>6, <4>7, <4>9, <5>1
      <4>12. Len(stdout') <= next' /\ Len(stdout') = next'
        BY <1>0, <4>6
      <4> QED
        BY <4>4, <4>10, <4>11, <4>12 DEF Printed
    <3> QED
      BY <3>2, <3>3
  <2> QED
    BY <2>1, <2>2, <2>3, <2>4, <2>5
<1>11. CASE AwaitNext
  <2>1. OnePlace'
    BY <1>0, <1>11 DEF AwaitNext, OnePlace, NothingTwice, NothingLost, Holds, TypeOK, Busy
  <2>2. PendingResults'
    BY <1>0, <1>11 DEF AwaitNext, PendingResults, TypeOK, Busy
  <2>3. Waiting'
    BY <1>0, <1>11 DEF AwaitNext, Waiting, TypeOK, Busy
  <2>4. Shutdown'
    BY <1>0, <1>11 DEF AwaitNext, Shutdown, TypeOK, Busy
  <2>5. Printed'
    BY <1>0, <1>11 DEF AwaitNext, Printed, TypeOK, Busy
  <2> QED
    BY <2>1, <2>2, <2>3, <2>4, <2>5
<1>12. CASE Return
  <2>1. OnePlace'
    BY <1>0, <1>12 DEF Return, OnePlace, NothingTwice, NothingLost, Holds, TypeOK, Busy
  <2>2. PendingResults'
    BY <1>0, <1>12 DEF Return, PendingResults, TypeOK, Busy
  <2>3. Waiting'
    BY <1>0, <1>12 DEF Return, Waiting, TypeOK, Busy
  <2>4. Shutdown'
    BY <1>0, <1>12 DEF Return, Shutdown, TypeOK, Busy
  <2>5. Printed'
    BY <1>0, <1>12 DEF Return, Printed, TypeOK, Busy
  <2> QED
    BY <2>1, <2>2, <2>3, <2>4, <2>5
<1>13. CASE UNCHANGED vars
  BY <1>13 DEF OnePlace, NothingTwice, NothingLost, Holds, PendingResults, Waiting,
     Shutdown, Printed
<1> QED
  BY <1>1, <1>2, <1>3, <1>4, <1>5, <1>6, <1>7, <1>8, <1>9, <1>10, <1>11, <1>12, <1>13
  DEF Next, ProducerStep, WorkerStep, CollectorStep

\* The inductive invariant holds, for every pool and all inputs.
LEMMA Invariance == Spec => []IInv
<1>1. Init => IInv
  <2> SUFFICES ASSUME Init PROVE IInv
    OBVIOUS
  <2>1. DOMAIN pending = {} /\ Len(stdout) = 0
    BY DEF Init
  <2> QED
    BY <2>1, WorkersAssumption
    DEF Init, IInv, OnePlace, NothingTwice, NothingLost, Holds, PendingResults,
        Waiting, Shutdown, Printed
<1> QED
  BY <1>1, Inductive, TypeInvariant, PTL DEF Spec

\* No interleaving of the channel operations of processParallel loses an input
\* or takes it twice, whatever the size of the pool.
THEOREM OnePlaceHolds == Spec => []OnePlace
<1>1. IInv => OnePlace
  BY DEF IInv
<1> QED
  BY <1>1, Invariance, PTL

\* Whatever the pool and the inputs, stdout holds the results of the first
\* inputs in the order of the inputs, up to the first whose query halted.
THEOREM PrintedInOrderHolds == Spec => []PrintedInOrder
<1>1. TypeOK /\ IInv => PrintedInOrder
  <2> SUFFICES ASSUME TypeOK, IInv PROVE PrintedInOrder
    OBVIOUS
  <2>1. Len(stdout) \in Nat /\ next \in Nat
    BY WorldTypes DEF TypeOK
  <2>2. \A i \in 1..Len(stdout) : i # Len(stdout) => i \in 1..(Len(stdout) - 1)
    BY <2>1
  <2> QED
    BY <2>1, <2>2 DEF IInv, Printed, PrintedInOrder
<1> QED
  BY <1>1, Invariance, TypeInvariant, PTL

\* Once results is closed, no halt having cut the work short, a collector that
\* is not printing has printed every input.
LEMMA ClosedMeansPrinted ==
    ASSUME TypeOK, IInv, closed, ~halted, collector \in {"receive", "returned"}
    PROVE  /\ Len(stdout) = Len(world)
           /\ DOMAIN pending = {}
           /\ producer = "done"
<1>1. \A w \in Workers : worker[w] = "done"
  BY DEF IInv, Shutdown
<1>2. producer = "done" /\ seq = Len(world)
  BY <1>1, WorkersAssumption DEF IInv, Shutdown
<1>3. Len(stdout) = next /\ next <= seq /\ next \in Nat /\ seq \in Nat
  BY WorldTypes DEF IInv, Printed, PendingResults, TypeOK
<1>4. next = seq
  <2>1. next < seq => next + 1 \in 1..seq /\ ~(next + 1 <= next)
    BY <1>3
  <2>2. \A i \in 1..seq : i <= next \/ i \in DOMAIN pending
    BY <1>1, <1>2 DEF IInv, OnePlace, NothingLost, Holds
  <2>3. next + 1 \notin DOMAIN pending
    BY DEF IInv, Waiting
  <2> QED
    BY <1>3, <2>1, <2>2, <2>3
<1>5. DOMAIN pending = {}
  <2>1. \A i \in DOMAIN pending : i \in Nat /\ next < i /\ i <= seq
    <3>1. DOMAIN pending \subseteq Nat
      BY WorldTypes DEF TypeOK
    <3>2. \A i \in DOMAIN pending : next < i
      BY DEF IInv, OnePlace, NothingTwice
    <3>3. \A i \in DOMAIN pending : i <= seq
      BY DEF IInv, PendingResults
    <3> QED
      BY <3>1, <3>2, <3>3
  <2>2. ASSUME NEW i \in DOMAIN pending PROVE FALSE
    BY <1>3, <1>4, <2>1
  <2> QED
    BY <2>2
<1> QED
  BY <1>2, <1>3, <1>4, <1>5

\* Whatever the pool and the inputs, processParallel returns without a halt only
\* once it has printed every input and the producer is done with the iterator.
THEOREM ReturnsCompleteHolds == Spec => []ReturnsComplete
<1>1. TypeOK /\ IInv => ReturnsComplete
  BY ClosedMeansPrinted DEF ReturnsComplete, IInv, Shutdown
<1> QED
  BY <1>1, Invariance, TypeInvariant, PTL

-------------------------------------------------------------------------------
(* The pool implements sequential processing.                              *)

\* On an input both ways agree on, the sequential loop hands printValues every
\* value, and fails as the collector does.
LEMMA AgreedResult ==
    ASSUME NEW input \in InputValues, Agrees(input), ~input.readError
    PROVE  LET result == input.result
               e == S!PrintError(result)
           IN  /\ S!Attempted(result.vals) = result.vals
               /\ e = IF result.err # "none" THEN result.err
                      ELSE IF Refused(result.vals) # {} THEN "nul" ELSE "none"
               /\ (IF e = "nul" THEN "none" ELSE e) = result.err
<1> DEFINE vals == input.result.vals
<1>0. /\ vals \in Seq(Values)
      /\ input.result.err \in (Errors \ {"nul"}) \cup {"none"}
  BY DEF InputValues, Results
<1>1. S!Refused(vals) = Refused(vals)
  BY DEF S!Refused, Refused, S!Printable, Printable
<1>2. CASE Refused(vals) = {}
  BY <1>0, <1>1, <1>2 DEF S!Attempted, S!PrintError, Errors
<1>3. CASE Refused(vals) # {}
  <2>1. Refused(vals) = {Len(vals)} /\ input.result.err = "none"
    BY <1>3 DEF Agrees
  <2>2. (CHOOSE k \in Refused(vals) : \A j \in Refused(vals) : k <= j) = Len(vals)
    BY <1>0, <2>1
  <2>3. SubSeq(vals, 1, Len(vals)) = vals
    BY <1>0
  <2>4. S!Attempted(vals) = vals
    BY <1>1, <1>3, <2>2, <2>3 DEF S!Attempted
  <2>5. S!PrintError(input.result) = "nul"
    BY <1>1, <1>3 DEF S!PrintError
  <2> QED
    BY <1>3, <2>1, <2>4, <2>5
<1> QED
  BY <1>2, <1>3

\* Sequential's shared definitions are those of Parallel.
LEMMA SameOutput ==
    /\ \A block : S!Refused(block) = Refused(block)
    /\ \A status, block : S!StatusAfter(status, block) = StatusAfter(status, block)
    /\ \A refused, err : S!Report(refused, err) = Report(refused, err)
    /\ S!Halts = Halts
<1>1. \A block : S!Refused(block) = Refused(block)
  BY DEF S!Refused, Refused, S!Printable, Printable
<1>2. \A status, block : S!StatusAfter(status, block) = StatusAfter(status, block)
  BY <1>1 DEF S!StatusAfter, StatusAfter
<1>3. \A refused, err : S!Report(refused, err) = Report(refused, err)
  BY DEF S!Report, Report
<1> QED
  BY <1>1, <1>2, <1>3 DEF S!Halts, Halts

\* Printing a result is the sequential iteration on its input, as long as
\* nothing has halted; a halt's own result is the last iteration.
LEMMA PrintIsIteration ==
    ASSUME WorldsAgree, TypeOK, IInv, ~halted, PrintNext
    PROVE  S!ReadError \/ S!Process
<1> DEFINE n == next + 1
           input == world[n]
<1>0. /\ n \in 1..Len(world) /\ Len(stdout) = next /\ next < Len(world)
      /\ pending[n] = input.result
      /\ collector = "print"
  BY WorldTypes DEF PrintNext, HandleResult, IInv, PendingResults, Printed, TypeOK
<1>1. /\ input \in InputValues /\ Agrees(input)
      /\ input.result.vals \in Seq(Values)
  BY <1>0, WorldTypes, WorldsAssumption DEF WorldsAgree, TypeOK
<1>2. /\ stdout' = Append(stdout, input.result.vals)
      /\ exitStatus' = StatusAfter(exitStatus, input.result.vals)
      /\ stderr' = stderr \o Report(Refused(input.result.vals), input.result.err)
      /\ procErr' = ErrorAfter(input.result)
      /\ halted' <=> input.result.err \in Halts
      /\ collector' # "returned"
      /\ world' = world
  BY <1>0 DEF PrintNext, HandleResult, Reported
<1>3. Len(stdout') = Len(stdout) + 1
  BY <1>1, <1>2 DEF TypeOK
<1>4. /\ ErrorAfter(input.result) =
             IF input.result.err # "none" THEN input.result.err
             ELSE IF Refused(input.result.vals) # {} THEN "nul" ELSE procErr
      /\ input.result.err \in (Errors \ {"nul"}) \cup {"none"}
  BY <1>1 DEF ErrorAfter, Reported, InputValues, Results
<1>5. world'[Len(stdout')] = input
  BY <1>0, <1>2, <1>3
<1> DEFINE mapped == IF halted THEN world[Len(stdout)].result.err ELSE procErr
<1>6. mapped = procErr
      /\ mapped' = IF input.result.err \in Halts THEN input.result.err ELSE procErr'
  BY <1>2, <1>5
<1>7. ~(halted \/ collector = "returned")
      /\ ((halted \/ collector = "returned")' <=> input.result.err \in Halts)
  BY <1>0, <1>2
<1> HIDE DEF mapped
<1>8. CASE input.readError
  <2>1. input.result.vals = <<>> /\ input.result.err = "read"
    BY <1>1, <1>8 DEF Agrees
  <2>2. Refused(<<>>) = {}
    BY DEF Refused
  <2>3. /\ "read" \notin Halts
        /\ procErr' = "read"
    BY <1>2, <1>4, <2>1 DEF Halts
  <2>4. mapped' = "read"
    BY <1>6, <2>1, <2>3
  <2>5. S!Emit(<<>>) /\ stderr' = stderr \o S!Report({}, "read")
    BY <1>2, <2>1, <2>2, SameOutput DEF S!Emit
  <2>6. S!Fail("read")
    BY <2>4 DEF S!Fail, mapped
  <2> QED
    BY <1>0, <1>2, <1>3, <1>7, <1>8, <2>1, <2>3, <2>5, <2>6 DEF S!ReadError
<1>9. CASE ~input.readError
  <2> DEFINE e == S!PrintError(input.result)
  <2>1. /\ S!Attempted(input.result.vals) = input.result.vals
        /\ e = IF input.result.err # "none" THEN input.result.err
               ELSE IF Refused(input.result.vals) # {} THEN "nul" ELSE "none"
        /\ (IF e = "nul" THEN "none" ELSE e) = input.result.err
    BY <1>1, <1>9, AgreedResult
  <2> HIDE DEF e
  <2>2. e \in Halts <=> input.result.err \in Halts
    BY <2>1 DEF Halts
  <2>3. mapped' = IF e = "none" THEN mapped ELSE e
    BY <1>2, <1>4, <1>6, <2>1 DEF Halts
  <2>4. S!Fail(e)
    BY <2>3 DEF S!Fail, mapped
  <2>5. S!Emit(S!Attempted(input.result.vals))
    BY <1>2, <2>1, SameOutput DEF S!Emit
  <2>6. stderr' = stderr \o S!Report(S!Refused(S!Attempted(input.result.vals)),
                                     IF e = "nul" THEN "none" ELSE e)
    BY <1>2, <2>1, SameOutput
  <2>7. (halted \/ collector = "returned")' = (e \in S!Halts)
    BY <1>7, <2>2, SameOutput
  <2> QED
    BY <1>0, <1>2, <1>3, <1>7, <1>9, <2>4, <2>5, <2>6, <2>7 DEF S!Process, e
<1> QED
  BY <1>8, <1>9

\* For every pool, on inputs both agree on, processParallel prints to stdout and,
\* up to the first halt, reports and returns what sequential processing does.
THEOREM Implements == ASSUME WorldsAgree PROVE Spec => SequentialUpToHalt
<1>1. Init => S!Init
  BY DEF Init, S!Init
<1>2. TypeOK /\ IInv /\ [Next]_vars => [S!Next]_S!vars
  <2> SUFFICES ASSUME TypeOK, IInv, [Next]_vars PROVE [S!Next]_S!vars
    OBVIOUS
  <2> USE DEF vars, pool, output
  <2>1. CASE PrintNext /\ ~halted
    BY <2>1, PrintIsIteration DEF S!Next
  <2>2. CASE PrintNext /\ halted
    <3>1. halted' /\ UNCHANGED <<world, stdout, exitStatus, stderr>>
      BY <2>2 DEF PrintNext, HandleResult
    <3> QED
      BY <2>2, <3>1 DEF S!vars
  <2>3. CASE Return
    <3>1. CASE halted
      BY <2>3, <3>1 DEF Return, S!vars
    <3>2. CASE ~halted
      <4>1. Len(stdout) = Len(world)
        BY <2>3, <3>2, ClosedMeansPrinted DEF Return
      <4> QED
        BY <2>3, <3>2, <4>1 DEF Return, S!Next, S!Finish
    <3> QED
      BY <3>1, <3>2
  <2>4. ASSUME UNCHANGED <<world, stdout, stderr, exitStatus, halted, procErr>>,
               (collector = "returned")' <=> collector = "returned"
        PROVE  UNCHANGED S!vars
    BY <2>4 DEF S!vars
  <2>5. CASE Read \/ ReadEnd \/ ProducerQuit \/ CloseResults \/ AwaitNext
    BY <2>4, <2>5 DEF Read, ReadEnd, ProducerQuit, CloseResults, AwaitNext
  <2>6. ASSUME NEW w \in Workers, WorkerStep(w) PROVE UNCHANGED S!vars
    BY <2>4, <2>6 DEF WorkerStep, Dispatch, RunQuery, SendResult, WorkerQuit, WorkerEnd
  <2>7. CASE UNCHANGED vars
    BY <2>4, <2>7
  <2> QED
    BY <2>1, <2>2, <2>3, <2>5, <2>6, <2>7
    DEF Next, ProducerStep, WorkerStep, CollectorStep
<1> QED
  BY <1>1, <1>2, TypeInvariant, Invariance, PTL DEF Spec, SequentialUpToHalt, S!Spec
===============================================================================
