---------------------------- MODULE DecidersProofs ----------------------------
(***************************************************************************)
(* Theorems about Deciders for any number of calls, chunks and retries and *)
(* any answers of the services: what the counters, the verdicts, the exit  *)
(* code and the warnings come to.                                          *)
(***************************************************************************)
EXTENDS Deciders, FiniteSetTheorems, TLAPS

Losing    == {"failed", "warn", "print", "mark"}

\* What the local state of a call says of where it is.
CallOK(c) ==
    /\ pc[c] \in {"start", "chunked", "chunkedPrint"} => attempt[c] = 0
    /\ pc[c] = "request" => attempt[c] < MaxRetries
    /\ pc[c] = "request" => attempt[c] = 0 \/ cause[c] \in Retried(Svc(c))
    /\ pc[c] = "backoff" => cause[c] \in Retried(Svc(c))
    /\ pc[c] \in Losing => cause[c] # Undecided
    /\ pc[c] \in {"chunked", "chunkedPrint"} => task[c].builtin # "llm"
    /\ result[c] # Undecided <=> pc[c] = "done"
    /\ pc[c] \notin {"start", "done"} => Svc(c) \in shared

Local == TypeOK /\ \A c \in Calls : CallOK(c)

LEMMA TaskTypes ==
    ASSUME task \in [Calls -> Tasks], NEW c \in Calls
    PROVE  /\ task[c] \in TaskType
           /\ task[c].builtin \in {"llm", "select", "classify"}
           /\ task[c].chunks \in Nat \ {0}
           /\ task[c].builtin = "llm" => task[c].chunks = 1
           /\ Svc(c) \in Services
<1>1. task[c] \in Tasks
  OBVIOUS
<1>2. task[c] \in TaskType /\ (task[c].builtin = "llm" => task[c].chunks = 1)
  BY <1>1, TasksAssumption
<1> QED
  BY <1>2 DEF TaskType, Svc, Service, Services

\* What a call warns about is one of the texts.
LEMMA TextTypes ==
    ASSUME TypeOK, NEW c \in Calls, CallOK(c),
           pc[c] \in {"chunked", "chunkedPrint", "warn", "print"}
    PROVE  Text(c) \in WarnText /\ Text(c) \in Messages
<1>1. task[c].builtin \in {"llm", "select", "classify"}
  BY TaskTypes DEF TypeOK
<1>2. CASE pc[c] \in {"chunked", "chunkedPrint"}
  BY <1>1, <1>2, MessagesAssumption DEF Text, WarnText, CallOK
<1>3. CASE pc[c] \in {"warn", "print"}
  <2>1. cause[c] \in Causes
    BY <1>3 DEF TypeOK, CallOK, Losing
  <2> QED
    BY <1>1, <1>3, <2>1, MessagesAssumption DEF Text, WarnText
<1> QED
  BY <1>2, <1>3

\* Warning about any set of texts keeps the types.
LEMMA WarnTypes ==
    ASSUME WarningsTypeOK
    PROVE  /\ \A m \in Messages : Record(m) => WarningsTypeOK'
           /\ \A m \in Messages : PrintMessage(m) => WarningsTypeOK'
           /\ \A M \in SUBSET Messages : WarnAll(M) => WarningsTypeOK'
           /\ Flush => WarningsTypeOK'
<1>1. \A m \in Messages : Record(m) => WarningsTypeOK'
  BY DEF WarningsTypeOK, Record
<1>2. \A m \in Messages : PrintMessage(m) => WarningsTypeOK'
  BY DEF WarningsTypeOK, PrintMessage
<1>3. \A M \in SUBSET Messages : WarnAll(M) => WarningsTypeOK'
  BY DEF WarningsTypeOK, WarnAll
<1>4. Flush => WarningsTypeOK'
  BY DEF WarningsTypeOK, Flush
<1> QED
  BY <1>1, <1>2, <1>3, <1>4

LEMMA LocalInit == Init => Local
<1> SUFFICES ASSUME Init PROVE Local
  OBVIOUS
<1>1. WarningsTypeOK
  BY DEF Init, WarningsInit, WarningsTypeOK
<1>2. TypeOK
  <2>1. exitCode \in -1..6 /\ ended \in BOOLEAN /\ processErr \in {"none", "error", "halt"}
    <3>1. exitCode = -1 /\ ended = FALSE /\ processErr = "none"
      BY DEF Init
    <3>2. exitCode \in -1..6
      BY <3>1
    <3>3. ended \in BOOLEAN
      BY <3>1
    <3> QED
      BY <3>1, <3>2, <3>3
  <2>2. attempt \in [Calls -> 0..MaxRetries] /\ chunk \in [Calls -> Nat \ {0}]
    BY RetriesAssumption DEF Init
  <2>3. calls \in [Services -> Nat] /\ failures \in [Services -> Nat]
    BY DEF Init
  <2>4. /\ pc \in [Calls -> {"start", "chunked", "chunkedPrint", "request", "await", "backoff",
                         "failed", "warn", "print", "mark", "done"}]
        /\ verdict \in [Calls -> {Undecided, "yes", "no"}]
        /\ cause \in [Calls -> Causes \cup {Undecided}]
        /\ result \in [Calls -> {Undecided, "yes", "no", "discard", "silent", "error"}]
        /\ carried \in [Calls -> SUBSET {"yes", "no"}]
        /\ spoilt \in [Calls -> SUBSET {"yes", "no"}]
    BY DEF Init
  <2>5. task \in [Calls -> Tasks] /\ flags \in Flags /\ configured \in Configurations
        /\ shared \subseteq Services /\ marked \subseteq Calls
    BY DEF Init
  <2> QED
    BY <1>1, <2>1, <2>2, <2>3, <2>4, <2>5 DEF TypeOK
<1>3. \A c \in Calls : CallOK(c)
  BY RetriesAssumption DEF Init, CallOK, Undecided, Losing
<1> QED
  BY <1>2, <1>3 DEF Local

LEMMA LocalStep == Local /\ [Next]_vars => Local'
<1> SUFFICES ASSUME Local, [Next]_vars PROVE Local'
  OBVIOUS
<1> USE RetriesAssumption
<1> USE DEF Local
<1>0. \A c \in Calls :
         /\ task[c] \in TaskType
         /\ task[c].builtin \in {"llm", "select", "classify"}
         /\ task[c].chunks \in Nat \ {0}
         /\ task[c].builtin = "llm" => task[c].chunks = 1
         /\ Svc(c) \in Services
  BY TaskTypes DEF TypeOK
<1>1. ASSUME NEW c \in Calls, Construct(c) PROVE Local'
  <2>1. {<<Svc(c), "started">>} \in SUBSET Messages
    BY <1>0, MessagesAssumption DEF WarnText
  <2>2. WarningsTypeOK'
    BY <1>1, <2>1, WarnTypes DEF Construct, TypeOK
  <2>3. TypeOK'
    BY <1>1, <1>0, <2>2 DEF Construct, TypeOK, given, local, said, end
  <2>4. \A d \in Calls : CallOK(d)'
    BY <1>1 DEF Construct, CallOK, given, local, Svc
  <2> QED
    BY <2>3, <2>4
<1>2. ASSUME NEW c \in Calls, NotConfigured(c) \/ Reject(c) PROVE Local'
  <2>1. WarningsTypeOK'
    BY <1>2 DEF NotConfigured, Reject, warnings, WarningsTypeOK, TypeOK
  <2>2. TypeOK'
    BY <1>2, <2>1 DEF NotConfigured, Reject, ReturnAs, Goto, TypeOK, given, said, end
  <2>3. \A d \in Calls : CallOK(d)'
    BY <1>2 DEF NotConfigured, Reject, ReturnAs, Goto, CallOK, TypeOK, given, Svc, Undecided, Losing
  <2> QED
    BY <2>2, <2>3
<1>3. ASSUME NEW c \in Calls, TooLarge(c) PROVE Local'
  <2>1. WarningsTypeOK'
    BY <1>3 DEF TooLarge, warnings, WarningsTypeOK, TypeOK
  <2>2. TypeOK'
    BY <1>3, <1>0, <2>1 DEF TooLarge, Goto, TypeOK, given, said, end, Causes
  <2>3. \A d \in Calls : CallOK(d)'
    BY <1>3 DEF TooLarge, Goto, CallOK, TypeOK, given, Svc, Undecided, Losing
  <2> QED
    BY <2>2, <2>3
<1>4. ASSUME NEW c \in Calls, Accept(c) PROVE Local'
  <2>1. WarningsTypeOK'
    BY <1>4 DEF Accept, warnings, WarningsTypeOK, TypeOK
  <2>2. TypeOK'
    BY <1>4, <2>1 DEF Accept, Goto, TypeOK, given, said, end
  <2>3. \A d \in Calls : CallOK(d)'
    BY <1>4, <1>0 DEF Accept, Goto, CallOK, TypeOK, given, Svc, Undecided, Losing
  <2> QED
    BY <2>2, <2>3
<1>5. ASSUME NEW c \in Calls, Request(c) PROVE Local'
  <2>1. WarningsTypeOK'
    BY <1>5 DEF Request, warnings, WarningsTypeOK, TypeOK
  <2>2. TypeOK'
    BY <1>5, <1>0, <2>1 DEF Request, Goto, TypeOK, CallOK, given, said, end
  <2>3. \A d \in Calls : CallOK(d)'
    BY <1>5 DEF Request, Goto, CallOK, TypeOK, given, Svc, Undecided, Losing
  <2> QED
    BY <2>2, <2>3
<1>6. ASSUME NEW c \in Calls, LlmAnswer(c) PROVE Local'
  <2>1. WarningsTypeOK'
    BY <1>6 DEF LlmAnswer, warnings, WarningsTypeOK, TypeOK
  <2> DEFINE Answered ==
        \/ \E r \in {"yes", "no"} : ReturnAs(c, r) /\ UNCHANGED <<attempt, chunk, cause>>
        \/ \E o \in Causes : o # Undecided /\ \E retryable \in BOOLEAN :
              (retryable => o \in Retried(Svc(c))) /\ FailAttempt(c, o, retryable)
  <2>2. Answered
    BY <1>6 DEF LlmAnswer, TypeOK, Causes, Retried, Undecided
  <2>3. verdict' \in [Calls -> {Undecided, "yes", "no"}]
    BY <1>6 DEF LlmAnswer, Spoil, TypeOK
  <2>4. /\ carried' \in [Calls -> SUBSET {"yes", "no"}]
        /\ spoilt' \in [Calls -> SUBSET {"yes", "no"}]
    <3>1. \/ UNCHANGED said
          \/ \E v \in {"yes", "no"} : Carry(c, v) \/ Spoil(c, v)
      BY <1>6 DEF LlmAnswer
    <3> QED
      BY <3>1 DEF Carry, Spoil, said, TypeOK
  <2>5. /\ pc[c] = "await"
        /\ UNCHANGED <<given, shared, calls, failures, marked, end>>
    BY <1>6 DEF LlmAnswer
  <2>6. TypeOK'
    BY <2>1, <2>2, <2>3, <2>4, <2>5 DEF ReturnAs, FailAttempt, Goto, TypeOK, given, said, end
  <2>7. \A d \in Calls : CallOK(d)'
    BY <2>2, <2>5 DEF ReturnAs, FailAttempt, Goto, CallOK, TypeOK, given, Svc, Undecided, Losing
  <2> QED
    BY <2>6, <2>7
<1>7. ASSUME NEW c \in Calls, JevAnswer(c) PROVE Local'
  <2>1. WarningsTypeOK'
    BY <1>7 DEF JevAnswer, warnings, WarningsTypeOK, TypeOK
  <2> DEFINE Answered ==
        \/ \E r \in {"yes", "no"} : ReturnAs(c, r) /\ UNCHANGED <<attempt, chunk, cause>>
        \/ /\ Goto(c, "request")
           /\ chunk' = [chunk EXCEPT ![c] = @ + 1]
           /\ attempt' = [attempt EXCEPT ![c] = 0]
           /\ UNCHANGED <<cause, result>>
        \/ \E o \in Causes : o # Undecided /\ \E retryable \in BOOLEAN :
              (retryable => o \in Retried(Svc(c))) /\ FailAttempt(c, o, retryable)
  <2>2. Answered
    <3>1. PICK o \in Outcomes(task[c]) :
            \/ o \in {"yes", "no"} /\ ChunkJudged(c, o)
            \/ /\ o \notin {"yes", "no"}
               /\ FailAttempt(c, o, o \in {"transient", "spentReading"})
      BY <1>7 DEF JevAnswer
    <3>2. CASE o \in {"yes", "no"} /\ ChunkJudged(c, o)
      BY <3>2 DEF ChunkJudged
    <3>3. CASE o \notin {"yes", "no"} /\ FailAttempt(c, o, o \in {"transient", "spentReading"})
      <4>1. Svc(c) = "jev" /\ task[c].builtin # "llm"
        BY <1>7 DEF JevAnswer, Svc, Service
      <4>2. o \in {"omitted", "transient", "spent", "final", "spentReading"}
        BY <3>3, <4>1 DEF Outcomes
      <4> DEFINE again == o \in {"transient", "spentReading"}
      <4>3. o \in Causes /\ o # Undecided
        BY <4>2 DEF Causes, Undecided
      <4>4. again \in BOOLEAN /\ (again => o \in Retried(Svc(c)))
        BY <4>1 DEF Retried
      <4>5. FailAttempt(c, o, again)
        BY <3>3
      <4> QED
        BY <4>3, <4>4, <4>5
    <3> QED
      BY <3>1, <3>2, <3>3
  <2>3. verdict' \in [Calls -> {Undecided, "yes", "no"}]
    BY <1>7 DEF JevAnswer, ChunkJudged, TypeOK
  <2>4. /\ carried' \in [Calls -> SUBSET {"yes", "no"}]
        /\ spoilt' \in [Calls -> SUBSET {"yes", "no"}]
    BY <1>7 DEF JevAnswer, ChunkJudged, Carry, said, TypeOK
  <2>5. /\ pc[c] = "await"
        /\ UNCHANGED <<given, shared, calls, failures, marked, end>>
    BY <1>7 DEF JevAnswer
  <2>6. TypeOK'
    BY <2>1, <2>2, <2>3, <2>4, <2>5 DEF ReturnAs, FailAttempt, Goto, TypeOK, given, said, end
  <2>7. ASSUME NEW d \in Calls PROVE CallOK(d)'
    <3>1. CallOK(d)
      OBVIOUS
    <3>2. CASE \E r \in {"yes", "no"} : ReturnAs(c, r) /\ UNCHANGED <<attempt, chunk, cause>>
      BY <2>5, <3>1, <3>2 DEF ReturnAs, Goto, CallOK, TypeOK, given, Svc, Undecided, Losing
    <3>3. CASE /\ Goto(c, "request")
               /\ chunk' = [chunk EXCEPT ![c] = @ + 1]
               /\ attempt' = [attempt EXCEPT ![c] = 0]
               /\ UNCHANGED <<cause, result>>
      BY <2>5, <3>1, <3>3 DEF Goto, CallOK, TypeOK, given, Svc, Undecided, Losing
    <3>4. CASE \E o \in Causes : o # Undecided /\ \E retryable \in BOOLEAN :
                  (retryable => o \in Retried(Svc(c))) /\ FailAttempt(c, o, retryable)
      BY <2>5, <3>1, <3>4 DEF FailAttempt, Goto, CallOK, TypeOK, given, Svc, Undecided, Losing
    <3> QED
      BY <2>2, <3>2, <3>3, <3>4
  <2> QED
    BY <2>6, <2>7
<1>8. ASSUME NEW c \in Calls, Backoff(c) PROVE Local'
  <2>1. WarningsTypeOK'
    BY <1>8 DEF Backoff, warnings, WarningsTypeOK, TypeOK
  <2>2. TypeOK'
    BY <1>8, <2>1 DEF Backoff, Goto, TypeOK, given, said, end
  <2>3. Undecided \notin Retried(Svc(c))
    BY DEF Retried, Undecided
  <2>4. \A d \in Calls : CallOK(d)'
    BY <1>8, <2>3 DEF Backoff, Goto, CallOK, TypeOK, given, Svc, Undecided, Losing
  <2> QED
    BY <2>2, <2>4
<1>9. ASSUME NEW c \in Calls, CountFailure(c) PROVE Local'
  <2>1. WarningsTypeOK'
    BY <1>9 DEF CountFailure, warnings, WarningsTypeOK, TypeOK
  <2>2. TypeOK'
    BY <1>9, <1>0, <2>1 DEF CountFailure, Goto, TypeOK, given, said, end
  <2>3. \A d \in Calls : CallOK(d)'
    BY <1>9 DEF CountFailure, Goto, CallOK, TypeOK, given, Svc, Undecided, Losing
  <2> QED
    BY <2>2, <2>3
<1>10. ASSUME NEW c \in Calls, Warn(c) PROVE Local'
  <2>1. Text(c) \in Messages /\ Record(Text(c))
    BY <1>10, TextTypes DEF Warn
  <2>2. WarningsTypeOK'
    BY <2>1, WarnTypes DEF TypeOK
  <2>3. TypeOK'
    BY <1>10, <2>2 DEF Warn, Goto, TypeOK, given, said, end
  <2>4. \A d \in Calls : CallOK(d)'
    BY <1>10 DEF Warn, Goto, CallOK, TypeOK, given, Svc, Undecided, Losing
  <2> QED
    BY <2>3, <2>4
<1>11. ASSUME NEW c \in Calls, PrintWarning(c) PROVE Local'
  <2>1. Text(c) \in Messages /\ PrintMessage(Text(c))
    BY <1>11, TextTypes DEF PrintWarning
  <2>2. WarningsTypeOK'
    BY <2>1, WarnTypes DEF TypeOK
  <2>3. TypeOK'
    BY <1>11, <2>2 DEF PrintWarning, Goto, TypeOK, given, said, end
  <2>4. \A d \in Calls : CallOK(d)'
    BY <1>11 DEF PrintWarning, Goto, CallOK, TypeOK, given, Svc, Undecided, Losing
  <2> QED
    BY <2>3, <2>4
<1>12. ASSUME NEW c \in Calls, MarkFailed(c) PROVE Local'
  <2>1. WarningsTypeOK'
    BY <1>12 DEF MarkFailed, warnings, WarningsTypeOK, TypeOK
  <2>2. TypeOK'
    BY <1>12, <2>1 DEF MarkFailed, ReturnAs, Goto, TypeOK, given, said, end
  <2>3. \A d \in Calls : CallOK(d)'
    BY <1>12 DEF MarkFailed, ReturnAs, Goto, CallOK, TypeOK, given, Svc, Undecided, Losing
  <2> QED
    BY <2>2, <2>3
<1>13. CASE Exit
  <2>1. WarningsTypeOK'
    BY <1>13 DEF Exit, warnings, WarningsTypeOK, TypeOK
  <2>2. exitCode' \in -1..6 /\ processErr' \in {"none", "error", "halt"}
    BY <1>13 DEF Exit, ExitCode
  <2>3. TypeOK'
    BY <1>13, <2>1, <2>2 DEF Exit, TypeOK, given, local, said
  <2>4. \A d \in Calls : CallOK(d)'
    BY <1>13 DEF Exit, CallOK, given, local, Svc
  <2> QED
    BY <2>3, <2>4
<1>14. CASE Summarise
  <2>1. {<<s, "summary">> : s \in {s \in shared : failures[s] > 0}} \in SUBSET Messages
    BY MessagesAssumption DEF WarnText, TypeOK
  <2>2. WarningsTypeOK'
    BY <1>14, <2>1, WarnTypes DEF Summarise, TypeOK
  <2>3. TypeOK'
    BY <1>14, <2>2 DEF Summarise, TypeOK, given, local, said, end
  <2>4. \A d \in Calls : CallOK(d)'
    BY <1>14 DEF Summarise, CallOK, given, local, Svc
  <2> QED
    BY <2>3, <2>4
<1>15. CASE FlushWarnings
  <2>1. WarningsTypeOK'
    BY <1>15, WarnTypes DEF FlushWarnings, TypeOK
  <2>2. TypeOK'
    BY <1>15, <2>1 DEF FlushWarnings, TypeOK, given, local, said
  <2>3. \A d \in Calls : CallOK(d)'
    BY <1>15 DEF FlushWarnings, CallOK, given, local, Svc
  <2> QED
    BY <2>2, <2>3
<1>16. CASE UNCHANGED vars
  <2>1. WarningsTypeOK'
    BY <1>16 DEF vars, warnings, WarningsTypeOK, TypeOK
  <2>2. TypeOK' /\ \A d \in Calls : CallOK(d)'
    BY <1>16, <2>1 DEF vars, TypeOK, CallOK, given, local, said, end, Svc
  <2> QED
    BY <2>2
<1> QED
  BY <1>1, <1>2, <1>3, <1>4, <1>5, <1>6, <1>7, <1>8, <1>9, <1>10, <1>11, <1>12, <1>13, <1>14, <1>15, <1>16
     DEF Next, EndStep, CallStep

\* The state of the calls and of the counters stays within its type; no call makes more than MaxRetries
\* attempts at a request (decide, jevCall).
THEOREM TypeCorrect == Spec => []TypeOK
<1>1. Spec => []Local
  BY LocalInit, LocalStep, PTL DEF Spec
<1> QED
  BY <1>1, PTL DEF Local

-------------------------------------------------------------------------------
\* The calls that a service's failures count, and those that its counter of calls counts for certain.
IsLost(c)  == result[c] = "discard" \/ pc[c] \in {"warn", "print", "mark"}
IsTried(c) == result[c] = "discard" \/ pc[c] \in {"await", "backoff"} \cup Losing
Lost(s)    == {c \in Calls : Svc(c) = s /\ IsLost(c)}
Tried(s)   == {c \in Calls : Svc(c) = s /\ IsTried(c)}

Counted ==
    \A s \in Services : /\ failures[s] = Cardinality(Lost(s))
                        /\ Cardinality(Tried(s)) <= calls[s]

LEMMA FiniteCounts ==
    ASSUME NEW s
    PROVE  /\ IsFiniteSet(Lost(s)) /\ IsFiniteSet(Tried(s))
           /\ Cardinality(Lost(s)) \in Nat /\ Cardinality(Tried(s)) \in Nat
           /\ Cardinality(Lost(s)) <= Cardinality(Tried(s))
<1>1. Tried(s) \in SUBSET Calls
  BY DEF Tried
<1>2. IsFiniteSet(Tried(s))
  BY <1>1, CallsAssumption, FS_Subset
<1>3. Lost(s) \in SUBSET Tried(s)
  BY DEF Lost, Tried, IsLost, IsTried, Losing
<1>4. IsFiniteSet(Lost(s)) /\ Cardinality(Lost(s)) <= Cardinality(Tried(s))
  BY <1>2, <1>3, FS_Subset
<1> QED
  BY <1>2, <1>4, FS_CardinalityType

\* A step that counts nothing: no call gets lost, none is tried that was not.
LEMMA NothingCounted ==
    ASSUME Local, Counted, UNCHANGED <<task, calls, failures>>,
           \A c \in Calls : (IsLost(c)' <=> IsLost(c)) /\ (IsTried(c)' => IsTried(c))
    PROVE  Counted'
<1> SUFFICES ASSUME NEW s \in Services
             PROVE  /\ failures'[s] = Cardinality(Lost(s)')
                    /\ Cardinality(Tried(s)') <= calls'[s]
  BY DEF Counted
<1>1. Lost(s)' = Lost(s)
  BY DEF Lost, Svc
<1>2. Tried(s)' \in SUBSET Tried(s)
  BY DEF Tried, Svc
<1>3. Cardinality(Tried(s)') <= Cardinality(Tried(s))
  BY <1>2, FiniteCounts, FS_Subset
<1>4. Cardinality(Tried(s)') \in Nat
  BY <1>2, FiniteCounts, FS_Subset, FS_CardinalityType
<1>5. calls[s] \in Nat
  BY DEF Local, TypeOK
<1> QED
  BY <1>1, <1>3, <1>4, <1>5, FiniteCounts DEF Counted

\* A step that counts a call: it is tried now.
LEMMA CallCounted ==
    ASSUME Local, Counted, NEW c \in Calls, UNCHANGED <<task, failures>>,
           calls' = [calls EXCEPT ![Svc(c)] = @ + 1],
           \A d \in Calls : (IsLost(d)' <=> IsLost(d)) /\ (IsTried(d)' => IsTried(d) \/ d = c)
    PROVE  Counted'
<1> SUFFICES ASSUME NEW s \in Services
             PROVE  /\ failures'[s] = Cardinality(Lost(s)')
                    /\ Cardinality(Tried(s)') <= calls'[s]
  BY DEF Counted
<1>1. Lost(s)' = Lost(s)
  BY DEF Lost, Svc
<1>2. calls \in [Services -> Nat] /\ Svc(c) \in Services
  BY TaskTypes DEF Local, TypeOK
<1>3. CASE s = Svc(c)
  <2>1. Tried(s)' \in SUBSET (Tried(s) \cup {c})
    BY DEF Tried, Svc
  <2>2. IsFiniteSet(Tried(s) \cup {c}) /\ Cardinality(Tried(s) \cup {c}) <= Cardinality(Tried(s)) + 1
    <3>1. Cardinality(Tried(s)) \in Nat /\ IsFiniteSet(Tried(s))
      BY FiniteCounts
    <3>2. /\ IsFiniteSet(Tried(s) \cup {c})
          /\ Cardinality(Tried(s) \cup {c}) = IF c \in Tried(s) THEN Cardinality(Tried(s)) ELSE Cardinality(Tried(s)) + 1
      BY <3>1, FS_AddElement
    <3> QED
      BY <3>1, <3>2
  <2>3. /\ Cardinality(Tried(s)') <= Cardinality(Tried(s) \cup {c})
        /\ Cardinality(Tried(s)') \in Nat /\ Cardinality(Tried(s) \cup {c}) \in Nat
    BY <2>1, <2>2, FS_Subset, FS_CardinalityType
  <2>4. calls'[s] = calls[s] + 1
    BY <1>2, <1>3
  <2> QED
    BY <1>1, <1>2, <2>2, <2>3, <2>4, FiniteCounts DEF Counted
<1>4. CASE s # Svc(c)
  <2>1. Tried(s)' \in SUBSET Tried(s)
    BY <1>4 DEF Tried, Svc
  <2>2. Cardinality(Tried(s)') <= Cardinality(Tried(s)) /\ Cardinality(Tried(s)') \in Nat
    BY <2>1, FiniteCounts, FS_Subset, FS_CardinalityType
  <2>3. calls'[s] = calls[s]
    BY <1>2, <1>4
  <2> QED
    BY <1>1, <1>2, <2>2, <2>3, FiniteCounts DEF Counted
<1> QED
  BY <1>3, <1>4

LEMMA CountedStep == Local /\ Counted /\ [Next]_vars => Counted'
<1> SUFFICES ASSUME Local, Counted, [Next]_vars PROVE Counted'
  OBVIOUS
<1> USE DEF Local
<1>1. ASSUME NEW c \in Calls, Construct(c) PROVE Counted'
  BY <1>1, NothingCounted DEF Construct, IsLost, IsTried, given, local
<1>2. ASSUME NEW c \in Calls, NotConfigured(c) \/ Reject(c) \/ Accept(c) \/ Backoff(c) PROVE Counted'
  <2>1. \A d \in Calls : (IsLost(d)' <=> IsLost(d)) /\ (IsTried(d)' => IsTried(d))
    BY <1>2 DEF NotConfigured, Reject, Accept, Backoff, ReturnAs, Goto, TypeOK, CallOK, IsLost, IsTried, Losing, Undecided
  <2>2. UNCHANGED <<task, calls, failures>>
    BY <1>2 DEF NotConfigured, Reject, Accept, Backoff, given
  <2> QED
    BY <2>1, <2>2, NothingCounted
<1>3. ASSUME NEW c \in Calls, TooLarge(c) \/ Request(c) PROVE Counted'
  <2>1. \A d \in Calls : (IsLost(d)' <=> IsLost(d)) /\ (IsTried(d)' => IsTried(d) \/ d = c)
    BY <1>3 DEF TooLarge, Request, Goto, TypeOK, CallOK, IsLost, IsTried, Losing, Undecided
  <2>2. /\ UNCHANGED <<task, failures>>
        /\ calls' = [calls EXCEPT ![Svc(c)] = @ + 1]
    BY <1>3 DEF TooLarge, Request, given
  <2> QED
    BY <2>1, <2>2, CallCounted
<1>4. ASSUME NEW c \in Calls, LlmAnswer(c) \/ JevAnswer(c) PROVE Counted'
  <2>1. \/ \E r \in {"yes", "no"} : ReturnAs(c, r)
        \/ Goto(c, "request") /\ UNCHANGED result
        \/ Goto(c, "backoff") /\ UNCHANGED result
        \/ Goto(c, "failed") /\ UNCHANGED result
    BY <1>4 DEF LlmAnswer, JevAnswer, ChunkJudged, FailAttempt, TypeOK, Undecided
  <2>2. \A d \in Calls : (IsLost(d)' <=> IsLost(d)) /\ (IsTried(d)' => IsTried(d))
    <3>1. pc[c] = "await"
      BY <1>4 DEF LlmAnswer, JevAnswer
    <3> QED
      BY <2>1, <3>1 DEF ReturnAs, Goto, TypeOK, CallOK, IsLost, IsTried, Losing, Undecided
  <2>3. UNCHANGED <<task, calls, failures>>
    BY <1>4 DEF LlmAnswer, JevAnswer, given
  <2> QED
    BY <2>2, <2>3, NothingCounted
<1>5. ASSUME NEW c \in Calls, CountFailure(c) PROVE Counted'
  <2> SUFFICES ASSUME NEW s \in Services
               PROVE  /\ failures'[s] = Cardinality(Lost(s)')
                      /\ Cardinality(Tried(s)') <= calls'[s]
    BY DEF Counted
  <2>1. \A d \in Calls : /\ IsLost(d)' <=> IsLost(d) \/ d = c
                         /\ IsTried(d)' <=> IsTried(d)
    BY <1>5 DEF CountFailure, Goto, TypeOK, IsLost, IsTried, Losing
  <2>2. ~IsLost(c)
    BY <1>5 DEF CountFailure, CallOK, IsLost, Undecided
  <2>3. Tried(s)' = Tried(s) /\ calls' = calls
    BY <1>5, <2>1 DEF Tried, Svc, CountFailure, given
  <2>4. failures \in [Services -> Nat] /\ failures' = [failures EXCEPT ![Svc(c)] = @ + 1]
    BY <1>5 DEF CountFailure, TypeOK
  <2>5. CASE s = Svc(c)
    <3>1. Lost(s)' = Lost(s) \cup {c} /\ c \notin Lost(s)
      BY <1>5, <2>1, <2>2, <2>5 DEF Lost, Svc, CountFailure, given
    <3>2. Cardinality(Lost(s)') = Cardinality(Lost(s)) + 1
      BY <3>1, FiniteCounts, FS_AddElement
    <3>3. failures'[s] = failures[s] + 1
      BY <2>4, <2>5
    <3> QED
      BY <2>3, <3>2, <3>3 DEF Counted
  <2>6. CASE s # Svc(c)
    <3>1. Lost(s)' = Lost(s)
      BY <1>5, <2>1, <2>6 DEF Lost, Svc, CountFailure, given
    <3>2. failures'[s] = failures[s]
      BY <2>4, <2>6
    <3> QED
      BY <2>3, <3>1, <3>2 DEF Counted
  <2> QED
    BY <2>5, <2>6
<1>6. ASSUME NEW c \in Calls, Warn(c) \/ PrintWarning(c) PROVE Counted'
  <2>1. \A d \in Calls : (IsLost(d)' <=> IsLost(d)) /\ (IsTried(d)' => IsTried(d))
    BY <1>6 DEF Warn, PrintWarning, Goto, TypeOK, CallOK, IsLost, IsTried, Losing
  <2>2. UNCHANGED <<task, calls, failures>>
    BY <1>6 DEF Warn, PrintWarning, given
  <2> QED
    BY <2>1, <2>2, NothingCounted
<1>7. ASSUME NEW c \in Calls, MarkFailed(c) PROVE Counted'
  <2>1. \A d \in Calls : (IsLost(d)' <=> IsLost(d)) /\ (IsTried(d)' => IsTried(d))
    BY <1>7 DEF MarkFailed, ReturnAs, Goto, TypeOK, CallOK, IsLost, IsTried, Losing
  <2>2. UNCHANGED <<task, calls, failures>>
    BY <1>7 DEF MarkFailed, given
  <2> QED
    BY <2>1, <2>2, NothingCounted
<1>8. CASE EndStep \/ UNCHANGED vars
  BY <1>8, NothingCounted DEF EndStep, Exit, Summarise, FlushWarnings, vars, given, local, IsLost, IsTried
<1> QED
  BY <1>1, <1>2, <1>3, <1>4, <1>5, <1>6, <1>7, <1>8 DEF Next, CallStep

LEMMA CountedInit == Init => Counted
<1> SUFFICES ASSUME Init, NEW s \in Services
             PROVE  failures[s] = Cardinality(Lost(s)) /\ Cardinality(Tried(s)) <= calls[s]
  BY DEF Counted
<1>1. Lost(s) = {} /\ Tried(s) = {}
  BY DEF Init, Lost, Tried, IsLost, IsTried, Losing, Undecided
<1>2. failures[s] = 0 /\ calls[s] = 0
  BY DEF Init
<1> QED
  BY <1>1, <1>2, FS_EmptySet

\* The failure counter of a service is the number of calls that lost their item, and no larger than that of its
\* calls, for any number of concurrent calls (the counters of decide and jevCall).
THEOREM FailuresAreDiscardsHolds == Spec => []FailuresAreDiscards
<1>1. Local /\ Counted => FailuresAreDiscards
  <2> SUFFICES ASSUME Local, Counted, NEW s \in Services
               PROVE  /\ failures[s] = Cardinality({c \in Calls :
                             Svc(c) = s /\ (result[c] = "discard" \/ pc[c] \in {"warn", "print", "mark"})})
                      /\ failures[s] <= calls[s]
    BY DEF FailuresAreDiscards
  <2>1. Lost(s) = {c \in Calls : Svc(c) = s /\ (result[c] = "discard" \/ pc[c] \in {"warn", "print", "mark"})}
    BY DEF Lost, IsLost
  <2>2. failures[s] = Cardinality(Lost(s)) /\ Cardinality(Tried(s)) <= calls[s] /\ calls[s] \in Nat
    BY DEF Counted, Local, TypeOK
  <2> QED
    BY <2>1, <2>2, FiniteCounts
<1> QED
  BY <1>1, LocalInit, LocalStep, CountedInit, CountedStep, PTL DEF Spec

-------------------------------------------------------------------------------
\* What the answers so far say of a call's verdict.
VerdictOK(c) ==
    /\ verdict[c] # Undecided => verdict[c] \in carried[c] \/ (Svc(c) = "llm" /\ verdict[c] \in spoilt[c])
    /\ Svc(c) = "jev" /\ verdict[c] = Undecided => carried[c] = {}
    /\ Svc(c) = "jev" /\ verdict[c] = "no" => "yes" \notin carried[c]
    /\ result[c] \in {"yes", "no"} => /\ result[c] = verdict[c]
                                      /\ Svc(c) = "jev" => chunk[c] = task[c].chunks

Decided == \A c \in Calls : VerdictOK(c)

LEMMA DecidedStep == Local /\ Decided /\ [Next]_vars => Decided'
<1> SUFFICES ASSUME Local, Decided, [Next]_vars PROVE Decided'
  OBVIOUS
<1> USE DEF Local, Decided
<1>1. ASSUME UNCHANGED <<task, verdict, carried, spoilt, chunk>>,
             \A d \in Calls : result'[d] \in {"yes", "no"} => result'[d] = result[d]
      PROVE  Decided'
  BY <1>1 DEF VerdictOK, Svc
<1>2. ASSUME NEW c \in Calls,
             \/ Construct(c) \/ NotConfigured(c) \/ Reject(c) \/ TooLarge(c) \/ Accept(c) \/ Request(c)
             \/ Backoff(c) \/ CountFailure(c) \/ Warn(c) \/ PrintWarning(c) \/ MarkFailed(c)
      PROVE  Decided'
  <2>1. UNCHANGED <<task, verdict, carried, spoilt, chunk>>
    BY <1>2 DEF Construct, NotConfigured, Reject, TooLarge, Accept, Request, Backoff, CountFailure, Warn,
                PrintWarning, MarkFailed, given, local, said
  <2>2. \/ UNCHANGED result
        \/ \E r \in {"error", "silent", "discard"} : result' = [result EXCEPT ![c] = r]
    BY <1>2 DEF Construct, NotConfigured, Reject, TooLarge, Accept, Request, Backoff, CountFailure, Warn,
                PrintWarning, MarkFailed, ReturnAs, local
  <2>3. \A d \in Calls : result'[d] \in {"yes", "no"} => result'[d] = result[d]
    BY <2>2 DEF TypeOK
  <2> QED
    BY <1>1, <2>1, <2>3
<1>3. ASSUME NEW c \in Calls, LlmAnswer(c) PROVE Decided'
  <2> SUFFICES ASSUME NEW d \in Calls PROVE VerdictOK(d)'
    OBVIOUS
  <2>1. /\ task' = task /\ chunk' = chunk
        /\ Svc(c) = "llm" /\ result[c] = Undecided
    BY <1>3 DEF LlmAnswer, ReturnAs, FailAttempt, given, CallOK
  <2>2. \/ \E v \in {"yes", "no"} :
              /\ verdict' = [verdict EXCEPT ![c] = v] /\ Carry(c, v)
              /\ result' = [result EXCEPT ![c] = v]
        \/ \E v \in {"yes", "no"} : Spoil(c, v) /\ result' = result
        \/ /\ UNCHANGED <<verdict, said>>
           /\ result' = result \/ result' = [result EXCEPT ![c] = verdict[c]]
        \/ /\ verdict' = [verdict EXCEPT ![c] = Undecided]
           /\ UNCHANGED <<said, result>>
    BY <1>3 DEF LlmAnswer, ReturnAs, FailAttempt
  <2>3. CASE d = c
    BY <2>1, <2>2, <2>3 DEF VerdictOK, Svc, Carry, Spoil, said, TypeOK, Undecided
  <2>4. CASE d # c
    BY <2>1, <2>2, <2>4 DEF VerdictOK, Svc, Carry, Spoil, said, TypeOK
  <2> QED
    BY <2>3, <2>4
<1>4. ASSUME NEW c \in Calls, JevAnswer(c) PROVE Decided'
  <2>1. /\ task' = task
        /\ Svc(c) = "jev" /\ result[c] = Undecided
    BY <1>4 DEF JevAnswer, given, CallOK
  <2>2. PICK o \in Outcomes(task[c]) :
            \/ o \in {"yes", "no"} /\ ChunkJudged(c, o)
            \/ FailAttempt(c, o, o \in {"transient", "spentReading"}) /\ UNCHANGED <<verdict, said>>
    BY <1>4 DEF JevAnswer
  <2>3. CASE FailAttempt(c, o, o \in {"transient", "spentReading"}) /\ UNCHANGED <<verdict, said>>
    BY <1>1, <2>1, <2>3 DEF FailAttempt, said
  <2>4. CASE o \in {"yes", "no"} /\ ChunkJudged(c, o)
    <3> DEFINE v == IF verdict[c] = "yes" THEN "yes" ELSE o
    <3>1. /\ verdict' = [verdict EXCEPT ![c] = v]
          /\ carried' = [carried EXCEPT ![c] = @ \cup {o}]
          /\ spoilt' = spoilt
          /\ \/ /\ chunk[c] = task[c].chunks
                /\ result' = [result EXCEPT ![c] = v]
                /\ UNCHANGED chunk
             \/ /\ chunk' = [chunk EXCEPT ![c] = @ + 1]
                /\ UNCHANGED result
      BY <2>4 DEF ChunkJudged, Carry, ReturnAs
    <3> SUFFICES ASSUME NEW d \in Calls PROVE VerdictOK(d)'
      OBVIOUS
    <3>2. CASE d = c
      <4>1. VerdictOK(c)
        OBVIOUS
      <4>2. verdict'[c] = v /\ carried'[c] = carried[c] \cup {o}
        BY <3>1 DEF TypeOK
      <4>3. verdict'[c] \in carried'[c]
        BY <2>1, <4>1, <4>2 DEF VerdictOK, TypeOK, Undecided
      <4>4. verdict'[c] = "no" => "yes" \notin carried'[c]
        BY <2>1, <2>4, <4>1, <4>2 DEF VerdictOK, TypeOK, Undecided
      <4>5. v # Undecided
        BY <2>4 DEF Undecided
      <4>6. result'[c] \in {"yes", "no"} => result'[c] = verdict'[c] /\ chunk'[c] = task[c].chunks
        BY <2>1, <3>1, <4>2 DEF TypeOK, Undecided
      <4> QED
        BY <2>1, <3>2, <4>2, <4>3, <4>4, <4>5, <4>6 DEF VerdictOK, Svc
    <3>3. CASE d # c
      BY <2>1, <3>1, <3>3 DEF VerdictOK, Svc, TypeOK
    <3> QED
      BY <3>2, <3>3
  <2> QED
    BY <2>2, <2>3, <2>4
<1>5. CASE EndStep \/ UNCHANGED vars
  BY <1>1, <1>5 DEF EndStep, Exit, Summarise, FlushWarnings, vars, given, local, said
<1> QED
  BY <1>2, <1>3, <1>4, <1>5 DEF Next, CallStep

\* A verdict a call returns was in a response that was decoded, or, for the llm builtins, in one that failed
\* to decode and left it in out; an item in chunks is refused only when every chunk was judged and none kept,
\* whatever answers came late, half or not at all (decide, decideNoul, decideChoice).
THEOREM VerdictIsAnsweredHolds == Spec => []VerdictIsAnswered
<1>1. Init => Decided
  BY DEF Init, Decided, VerdictOK, Undecided
<1>2. Decided /\ Local => VerdictIsAnswered
  BY DEF Decided, Local, TypeOK, VerdictOK, VerdictIsAnswered, Undecided
<1> QED
  BY <1>1, <1>2, LocalInit, LocalStep, DecidedStep, PTL DEF Spec

\* Only what a service retries is followed by another attempt: no final answer and no budget spent, except for
\* jev one spent while the body was read (the retry loops of decide and jevCall).
THEOREM NoRetryAfterFinalHolds == Spec => NoRetryAfterFinal
<1> DEFINE Again == \A c \in Calls : attempt'[c] > attempt[c] =>
                        attempt[c] = 0 \/ cause[c] \in Retried(Svc(c))
<1>1. Local /\ [Next]_vars => [Again]_vars
  <2> SUFFICES ASSUME Local, Next PROVE Again
    OBVIOUS
  <2> USE DEF Local
  <2>1. ASSUME NEW c \in Calls, Request(c) PROVE Again
    BY <2>1 DEF Request, CallOK, TypeOK
  <2>2. ASSUME NEW c \in Calls,
               \/ Construct(c) \/ NotConfigured(c) \/ Reject(c) \/ TooLarge(c) \/ Accept(c) \/ LlmAnswer(c)
               \/ Backoff(c) \/ CountFailure(c) \/ Warn(c) \/ PrintWarning(c) \/ MarkFailed(c)
        PROVE  Again
    <3>1. attempt' = attempt
      BY <2>2 DEF Construct, NotConfigured, Reject, TooLarge, Accept, LlmAnswer, FailAttempt, Backoff,
                  CountFailure, Warn, PrintWarning, MarkFailed, local
    <3> QED
      BY <3>1 DEF TypeOK
  <2>3. ASSUME NEW c \in Calls, JevAnswer(c) PROVE Again
    <3>1. attempt' = attempt \/ attempt' = [attempt EXCEPT ![c] = 0]
      BY <2>3 DEF JevAnswer, ChunkJudged, FailAttempt
    <3> QED
      BY <3>1, RetriesAssumption DEF TypeOK
  <2>4. CASE EndStep
    <3>1. attempt' = attempt
      BY <2>4 DEF EndStep, Exit, Summarise, FlushWarnings, local
    <3> QED
      BY <3>1 DEF TypeOK
  <2> QED
    BY <2>1, <2>2, <2>3, <2>4 DEF Next, CallStep
<1> QED
  BY <1>1, LocalInit, LocalStep, PTL DEF Spec, NoRetryAfterFinal

-------------------------------------------------------------------------------
\* The exit code is decided when all calls have returned, from counters that do not change any more.
Exited ==
    /\ exitCode # -1 => \A c \in Calls : pc[c] = "done"
    /\ exitCode # -1 /\ flags.failClosed /\ ~flags.exitStatus /\ processErr = "none" =>
          exitCode = IF totalFailedCalls > 0 THEN 6 ELSE 0
    /\ \A s \in Services : failures[s] > 0 => s \in shared

LEMMA ExitedStep == Local /\ Exited /\ [Next]_vars => Exited'
<1> SUFFICES ASSUME Local, Exited, [Next]_vars PROVE Exited'
  OBVIOUS
<1> USE DEF Local, Exited
<1>1. ASSUME NEW c \in Calls, CallStep(c) PROVE Exited'
  <2>1. pc[c] # "done"
    BY <1>1 DEF CallStep, Construct, NotConfigured, Reject, TooLarge, Accept, Request, LlmAnswer, JevAnswer, Backoff,
                CountFailure, Warn, PrintWarning, MarkFailed
  <2>2. exitCode = -1 /\ exitCode' = exitCode
    BY <1>1, <2>1 DEF CallStep, Construct, NotConfigured, Reject, TooLarge, Accept, Request, LlmAnswer, JevAnswer,
                Backoff, CountFailure, Warn, PrintWarning, MarkFailed, end
  <2>3. shared \subseteq shared'
    BY <1>1 DEF CallStep, Construct, NotConfigured, Reject, TooLarge, Accept, Request, LlmAnswer, JevAnswer, Backoff,
                CountFailure, Warn, PrintWarning, MarkFailed
  <2>4. CASE CountFailure(c)
    BY <2>2, <2>3, <2>4 DEF CountFailure, CallOK, TypeOK
  <2>5. CASE ~CountFailure(c)
    <3>1. failures' = failures
      BY <1>1, <2>5 DEF CallStep, Construct, NotConfigured, Reject, TooLarge, Accept, Request, LlmAnswer, JevAnswer,
                Backoff, Warn, PrintWarning, MarkFailed
    <3> QED
      BY <2>2, <2>3, <3>1
  <2> QED
    BY <2>4, <2>5
<1>2. CASE Exit
  <2>1. /\ \A c \in Calls : pc[c] = "done"
        /\ UNCHANGED <<pc, flags, shared, failures>>
        /\ \E status \in {0, 1, 4} : exitCode' = ExitCode(processErr', status)
    BY <1>2 DEF Exit, given, local
  <2>2. totalFailedCalls' = totalFailedCalls
    BY <2>1 DEF totalFailedCalls
  <2>3. flags.failClosed /\ ~flags.exitStatus /\ processErr' = "none" =>
            exitCode' = IF totalFailedCalls > 0 THEN 6 ELSE 0
    BY <2>1 DEF ExitCode
  <2> QED
    BY <2>1, <2>2, <2>3
<1>3. CASE Summarise \/ FlushWarnings \/ UNCHANGED vars
  BY <1>3 DEF Summarise, FlushWarnings, vars, given, local, end, totalFailedCalls
<1> QED
  BY <1>1, <1>2, <1>3 DEF Next, EndStep

\* Where --fail-closed is heard, it tells exactly the runs that lost an item to a failed call, whichever service
\* failed and however the calls interleaved (run's exit code, cli.go:338).
THEOREM FailClosedAloneHolds == Spec => []FailClosedAlone
<1>1. Init => Exited
  BY DEF Init, Exited
<1>2. Local /\ Counted /\ Exited => FailClosedAlone
  <2> SUFFICES ASSUME Local, Counted, Exited, exitCode # -1, flags.failClosed, ~flags.exitStatus, processErr = "none"
               PROVE  exitCode = 6 <=> \E c \in Calls : result[c] = "discard"
    BY DEF FailClosedAlone
  <2>1. \A c \in Calls : pc[c] = "done" /\ Svc(c) \in Services
    BY TaskTypes DEF Exited, Local, TypeOK
  <2>2. \A s \in Services : failures[s] \in Nat /\ (failures[s] > 0 <=> \E c \in Calls : Svc(c) = s /\ result[c] = "discard")
    <3> TAKE s \in Services
    <3>1. failures[s] = Cardinality(Lost(s)) /\ IsFiniteSet(Lost(s)) /\ failures[s] \in Nat
      BY FiniteCounts DEF Counted, Local, TypeOK
    <3>2. failures[s] = 0 <=> Lost(s) = {}
      BY <3>1, FS_EmptySet
    <3>3. Lost(s) # {} <=> \E c \in Calls : Svc(c) = s /\ result[c] = "discard"
      BY <2>1 DEF Lost, IsLost
    <3> QED
      BY <3>1, <3>2, <3>3
  <2>3. totalFailedCalls > 0 <=> \E s \in Services : failures[s] > 0
    <3>1. /\ failures["llm"] \in Nat /\ failures["jev"] \in Nat
          /\ failures["llm"] > 0 => "llm" \in shared
          /\ failures["jev"] > 0 => "jev" \in shared
      BY <2>2 DEF Exited, Services
    <3>2. (\E s \in Services : failures[s] > 0) <=> failures["llm"] > 0 \/ failures["jev"] > 0
      BY DEF Services
    <3> QED
      BY <3>1, <3>2 DEF totalFailedCalls
  <2>4. exitCode = IF totalFailedCalls > 0 THEN 6 ELSE 0
    BY DEF Exited
  <2>5. exitCode = 6 <=> totalFailedCalls > 0
    BY <2>4
  <2>6. (\E s \in Services : failures[s] > 0) <=> \E c \in Calls : result[c] = "discard"
    BY <2>1, <2>2
  <2> QED
    BY <2>3, <2>5, <2>6
<1> QED
  BY <1>1, <1>2, LocalInit, LocalStep, CountedInit, CountedStep, ExitedStep, PTL DEF Spec

-------------------------------------------------------------------------------
\* A call that found its message new and has yet to print it.
Printing(c) == pc[c] \in {"chunkedPrint", "print"}

\* Until the flush: what is seen was raised, all but the first time is counted, and the first is printed or
\* about to be, by one call only.
Coalesced(m) ==
    /\ m \in warnSeen <=> raised[m] > 0
    /\ warnRepeated[m] = IF raised[m] > 0 THEN raised[m] - 1 ELSE 0
    /\ reported[m] = 0
    /\ m \notin warnSeen => printed[m] = 0
    /\ m \in warnSeen => \/ printed[m] = 1
                         \/ printed[m] = 0 /\ \E c \in Calls : Printing(c) /\ Text(c) = m

OnePrinter ==
    /\ \A c \in Calls : Printing(c) => Text(c) \in warnSeen /\ printed[Text(c)] = 0
    /\ \A c, d \in Calls : Printing(c) /\ Printing(d) /\ Text(c) = Text(d) => c = d

\* After the flush.
Settled(m) ==
    /\ printed[m] = IF raised[m] > 0 THEN 1 ELSE 0
    /\ reported[m] = IF raised[m] > 1 THEN raised[m] ELSE 0

Accounted ==
    /\ ~ended => OnePrinter /\ \A m \in Messages : Coalesced(m)
    /\ ended => exitCode # -1 /\ \A m \in Messages : Settled(m)

\* Steps after which the same calls have the same messages to print.
LEMMA SamePrinters ==
    ASSUME \A c \in Calls : (Printing(c)' <=> Printing(c)) /\ (Printing(c) => Text(c)' = Text(c)),
           UNCHANGED <<warnings, ended, exitCode>>, Accounted
    PROVE  Accounted'
<1>1. OnePrinter => OnePrinter'
  BY DEF OnePrinter, warnings
<1>2. ASSUME NEW m \in Messages PROVE (Coalesced(m) => Coalesced(m)') /\ (Settled(m) => Settled(m)')
  <2>1. (\E c \in Calls : Printing(c) /\ Text(c) = m) => \E c \in Calls : Printing(c)' /\ Text(c)' = m
    OBVIOUS
  <2>2. /\ warnSeen' = warnSeen /\ warnRepeated' = warnRepeated /\ printed' = printed
        /\ reported' = reported /\ raised' = raised
    BY DEF warnings
  <2> QED
    BY <2>1, <2>2 DEF Coalesced, Settled
<1> QED
  BY <1>1, <1>2 DEF Accounted

\* The same where messages are raised that are printed at once.
LEMMA WarnedAtOnce ==
    ASSUME Local, OnePrinter, \A m \in Messages : Coalesced(m), NEW M \in SUBSET Messages, WarnAll(M),
           UNCHANGED <<pc, task, cause>>
    PROVE  OnePrinter' /\ \A m \in Messages : Coalesced(m)'
<1>1. \A c \in Calls : /\ Printing(c)' <=> Printing(c)
                       /\ Printing(c) => Text(c)' = Text(c) /\ Text(c) \in Messages
  BY TextTypes DEF Printing, Text, Local
<1>2. /\ raised \in [Messages -> Nat] /\ warnRepeated \in [Messages -> Nat]
      /\ printed \in [Messages -> Nat]
  BY DEF Local, TypeOK, WarningsTypeOK
<1>3. /\ warnSeen' = warnSeen \cup M /\ reported' = reported
      /\ \A m \in Messages :
            /\ raised'[m] = raised[m] + IF m \in M THEN 1 ELSE 0
            /\ warnRepeated'[m] = warnRepeated[m] + IF m \in M \cap warnSeen THEN 1 ELSE 0
            /\ printed'[m] = printed[m] + IF m \in M \ warnSeen THEN 1 ELSE 0
  BY DEF WarnAll
<1>4. OnePrinter'
  <2>1. ASSUME NEW c \in Calls, Printing(c)' PROVE Text(c)' \in warnSeen' /\ printed'[Text(c)'] = 0
    BY <1>1, <1>3, <2>1 DEF OnePrinter
  <2>2. \A c, d \in Calls : Printing(c)' /\ Printing(d)' /\ Text(c)' = Text(d)' => c = d
    BY <1>1 DEF OnePrinter
  <2> QED
    BY <2>1, <2>2 DEF OnePrinter
<1>5. ASSUME NEW m \in Messages PROVE Coalesced(m)'
  <2>1. Coalesced(m) /\ raised[m] \in Nat /\ warnRepeated[m] \in Nat /\ printed[m] \in Nat
    BY <1>2
  <2>2. (\E c \in Calls : Printing(c) /\ Text(c) = m) => \E c \in Calls : Printing(c)' /\ Text(c)' = m
    BY <1>1
  <2> QED
    BY <1>3, <2>1, <2>2, SMTT(30) DEF Coalesced
<1> QED
  BY <1>4, <1>5

LEMMA AccountedStep == Local /\ Exited /\ Accounted /\ [Next]_vars => Accounted'
<1> SUFFICES ASSUME Local, Exited, Accounted, [Next]_vars PROVE Accounted'
  OBVIOUS
<1> USE DEF Local
<1>0. /\ WarningsTypeOK
      /\ pc \in [Calls -> {"start", "chunked", "chunkedPrint", "request", "await", "backoff",
                            "failed", "warn", "print", "mark", "done"}]
      /\ cause \in [Calls -> Causes \cup {Undecided}]
  BY DEF TypeOK
<1>1. ASSUME NEW c \in Calls, CallStep(c)
      PROVE  ~ended /\ ~ended' /\ OnePrinter /\ \A m \in Messages : Coalesced(m)
  <2>1. pc[c] # "done"
    BY <1>1 DEF CallStep, Construct, NotConfigured, Reject, TooLarge, Accept, Request, LlmAnswer, JevAnswer, Backoff,
                CountFailure, Warn, PrintWarning, MarkFailed
  <2>2. exitCode = -1
    BY <2>1 DEF Exited
  <2>3. ended' = ended
    BY <1>1 DEF CallStep, Construct, NotConfigured, Reject, TooLarge, Accept, Request, LlmAnswer, JevAnswer, Backoff,
                CountFailure, Warn, PrintWarning, MarkFailed, end
  <2> QED
    BY <2>2, <2>3 DEF Accounted
<1>2. ASSUME NEW c \in Calls, Construct(c) PROVE Accounted'
  <2>1. {<<Svc(c), "started">>} \in SUBSET Messages
    <3>1. Svc(c) \in Services
      BY TaskTypes DEF TypeOK
    <3> QED
      BY <3>1, MessagesAssumption DEF WarnText
  <2>2. OnePrinter' /\ \A m \in Messages : Coalesced(m)'
    BY <1>1, <1>2, <2>1, WarnedAtOnce DEF Construct, CallStep, given, local
  <2> QED
    BY <1>1, <1>2, <2>2 DEF Accounted, CallStep
<1>3. ASSUME NEW c \in Calls,
             \/ NotConfigured(c) \/ Reject(c) \/ TooLarge(c) \/ Accept(c) \/ Request(c) \/ LlmAnswer(c)
             \/ JevAnswer(c) \/ Backoff(c) \/ CountFailure(c) \/ MarkFailed(c)
      PROVE  Accounted'
  <2>1. UNCHANGED <<warnings, ended, exitCode, task>>
    BY <1>3 DEF NotConfigured, Reject, TooLarge, Accept, Request, LlmAnswer, JevAnswer, Backoff, CountFailure,
                MarkFailed, given, end
  <2>2. \E l \in {"done", "failed", "chunked", "request", "await", "backoff", "warn"} : Goto(c, l)
    BY <1>3 DEF NotConfigured, Reject, TooLarge, Accept, Request, LlmAnswer, JevAnswer, Backoff, CountFailure,
                MarkFailed, ReturnAs, FailAttempt, ChunkJudged
  <2>3. cause' = cause \/ \E o : cause' = [cause EXCEPT ![c] = o]
    BY <1>3 DEF NotConfigured, Reject, TooLarge, Accept, Request, LlmAnswer, JevAnswer, Backoff, CountFailure,
                MarkFailed, FailAttempt, ChunkJudged
  <2>4. ~Printing(c) /\ ~Printing(c)'
    <3>1. ~Printing(c)
      BY <1>3 DEF NotConfigured, Reject, TooLarge, Accept, Request, LlmAnswer, JevAnswer, Backoff, CountFailure,
                  MarkFailed, Printing
    <3>2. ~Printing(c)'
      BY <1>0, <2>2 DEF Goto, Printing
    <3> QED
      BY <3>1, <3>2
  <2>5. \A d \in Calls : d # c => pc'[d] = pc[d] /\ cause'[d] = cause[d]
    BY <1>0, <2>2, <2>3 DEF Goto
  <2>6. \A d \in Calls : (Printing(d)' <=> Printing(d)) /\ (Printing(d) => Text(d)' = Text(d))
    BY <2>1, <2>4, <2>5 DEF Printing, Text
  <2> QED
    BY <2>1, <2>6, SamePrinters
<1>4. ASSUME NEW c \in Calls, Warn(c) PROVE Accounted'
  <2> DEFINE msg == Text(c)
  <2>1. /\ msg \in Messages /\ Record(msg) /\ UNCHANGED <<task, cause>>
        /\ OnePrinter /\ (\A m \in Messages : Coalesced(m)) /\ ~ended'
    BY <1>1, <1>4, TextTypes DEF Warn, CallStep, given
  <2>2. /\ pc[c] \in {"chunked", "warn"} /\ ~Printing(c)
        /\ \A d \in Calls : d # c => pc'[d] = pc[d]
    BY <1>0, <1>4 DEF Warn, Goto, Printing
  <2>3. /\ Printing(c)' <=> msg \notin warnSeen
        /\ Printing(c)' => Text(c)' = msg
    <3>1. pc'[c] = IF pc[c] = "chunked" THEN IF msg \notin warnSeen THEN "chunkedPrint" ELSE "request"
                   ELSE IF msg \notin warnSeen THEN "print" ELSE "mark"
      BY <1>0, <1>4 DEF Warn, Goto
    <3> QED
      BY <2>1, <2>2, <3>1 DEF Printing, Text
  <2>4. \A d \in Calls : d # c => (Printing(d)' <=> Printing(d)) /\ Text(d)' = Text(d)
    BY <2>1, <2>2 DEF Printing, Text
  <2> HIDE DEF msg
  <2>5. /\ raised' = [raised EXCEPT ![msg] = @ + 1]
        /\ warnSeen' = warnSeen \cup {msg} /\ printed' = printed /\ reported' = reported
        /\ warnRepeated' = IF msg \in warnSeen THEN [warnRepeated EXCEPT ![msg] = @ + 1] ELSE warnRepeated
    BY <2>1 DEF Record
  <2>6. OnePrinter'
    <3>1. ASSUME NEW d \in Calls, Printing(d)' PROVE Text(d)' \in warnSeen' /\ printed'[Text(d)'] = 0
      <4>1. CASE d = c
        BY <2>1, <2>3, <2>5, <3>1, <4>1 DEF Coalesced
      <4>2. CASE d # c
        BY <2>1, <2>4, <2>5, <3>1, <4>2 DEF OnePrinter
      <4> QED
        BY <4>1, <4>2
    <3>2. ASSUME NEW d \in Calls, d # c, Printing(d)', Printing(c)' PROVE Text(d)' # Text(c)'
      BY <2>1, <2>3, <2>4, <3>2 DEF OnePrinter
    <3>3. \A d, e \in Calls : Printing(d)' /\ Printing(e)' /\ Text(d)' = Text(e)' => d = e
      BY <2>1, <2>4, <3>2 DEF OnePrinter
    <3> QED
      BY <3>1, <3>3 DEF OnePrinter
  <2>7. ASSUME NEW m \in Messages PROVE Coalesced(m)'
    <3>1. /\ raised[m] \in Nat /\ raised[msg] \in Nat /\ Coalesced(m)
          /\ raised \in [Messages -> Nat] /\ warnRepeated \in [Messages -> Nat]
          /\ warnRepeated[m] \in Nat
      BY <1>0, <2>1 DEF WarningsTypeOK
    <3>2. CASE m = msg
      <4>1. raised'[m] = raised[m] + 1 /\ m \in warnSeen'
        BY <2>1, <2>5, <3>1, <3>2
      <4>2. warnRepeated'[m] = IF m \in warnSeen THEN warnRepeated[m] + 1 ELSE warnRepeated[m]
        BY <2>1, <2>5, <3>1, <3>2
      <4>3. m \in warnSeen => \/ printed'[m] = 1
                              \/ printed'[m] = 0 /\ \E d \in Calls : Printing(d)' /\ Text(d)' = m
        BY <2>2, <2>4, <2>5, <3>1 DEF Coalesced
      <4>4. m \notin warnSeen => printed'[m] = 0 /\ \E d \in Calls : Printing(d)' /\ Text(d)' = m
        BY <2>3, <2>5, <3>1, <3>2 DEF Coalesced
      <4>5. raised'[m] > 0 /\ warnRepeated'[m] = raised'[m] - 1 /\ reported'[m] = 0
        BY <2>5, <3>1, <4>1, <4>2 DEF Coalesced
      <4> QED
        BY <4>1, <4>3, <4>4, <4>5 DEF Coalesced
    <3>3. CASE m # msg
      <4>1. raised'[m] = raised[m] /\ warnRepeated'[m] = warnRepeated[m] /\ (m \in warnSeen' <=> m \in warnSeen)
        BY <2>1, <2>5, <3>1, <3>3
      <4>2. (\E d \in Calls : Printing(d) /\ Text(d) = m) => \E d \in Calls : Printing(d)' /\ Text(d)' = m
        BY <2>2, <2>4
      <4> QED
        BY <2>5, <3>1, <4>1, <4>2 DEF Coalesced
    <3> QED
      BY <3>2, <3>3
  <2> QED
    BY <2>1, <2>6, <2>7 DEF Accounted
<1>5. ASSUME NEW c \in Calls, PrintWarning(c) PROVE Accounted'
  <2> DEFINE msg == Text(c)
  <2>1. /\ msg \in Messages /\ UNCHANGED <<task, cause>>
        /\ printed' = [printed EXCEPT ![msg] = @ + 1]
        /\ UNCHANGED <<warnSeen, warnRepeated, reported, raised>>
        /\ OnePrinter /\ (\A m \in Messages : Coalesced(m)) /\ ~ended'
    BY <1>1, <1>5, TextTypes DEF PrintWarning, PrintMessage, CallStep, given
  <2>2. /\ Printing(c) /\ ~Printing(c)'
        /\ \A d \in Calls : d # c => pc'[d] = pc[d]
    BY <1>0, <1>5 DEF PrintWarning, Goto, Printing
  <2>3. \A d \in Calls : d # c => (Printing(d)' <=> Printing(d)) /\ Text(d)' = Text(d)
    BY <2>1, <2>2 DEF Printing, Text
  <2>4. msg \in warnSeen /\ printed[msg] = 0 /\ \A d \in Calls : d # c /\ Printing(d) => Text(d) # msg
    BY <2>1, <2>2 DEF OnePrinter
  <2>5. printed \in [Messages -> Nat]
    BY <1>0 DEF WarningsTypeOK
  <2> HIDE DEF msg
  <2>6. OnePrinter'
    <3>1. ASSUME NEW d \in Calls, Printing(d)' PROVE Text(d)' \in warnSeen' /\ printed'[Text(d)'] = 0
      <4>1. d # c /\ Printing(d) /\ Text(d)' = Text(d) /\ Text(d) # msg
        BY <2>2, <2>3, <2>4, <3>1
      <4>2. Text(d) \in warnSeen /\ printed[Text(d)] = 0
        BY <2>1, <4>1 DEF OnePrinter
      <4>3. Text(d) \in Messages
        BY <1>0, <4>2 DEF WarningsTypeOK
      <4> QED
        BY <2>1, <2>5, <4>1, <4>2, <4>3
    <3>2. \A d, e \in Calls : Printing(d)' /\ Printing(e)' /\ Text(d)' = Text(e)' => d = e
      BY <2>1, <2>2, <2>3 DEF OnePrinter
    <3> QED
      BY <3>1, <3>2 DEF OnePrinter
  <2>7. ASSUME NEW m \in Messages PROVE Coalesced(m)'
    <3>1. CASE m = msg
      BY <2>1, <2>4, <2>5, <3>1 DEF Coalesced
    <3>2. CASE m # msg
      <4>1. printed'[m] = printed[m]
        BY <2>1, <2>5, <3>2
      <4>2. (\E d \in Calls : Printing(d) /\ Text(d) = m) => \E d \in Calls : Printing(d)' /\ Text(d)' = m
        BY <2>3, <3>2 DEF msg
      <4> QED
        BY <2>1, <4>1, <4>2 DEF Coalesced
    <3> QED
      BY <3>1, <3>2
  <2> QED
    BY <2>1, <2>6, <2>7 DEF Accounted
<1>6. CASE Exit
  <2>1. /\ UNCHANGED <<pc, task, cause, ended, warnings>> /\ exitCode = -1
    BY <1>6 DEF Exit, given, local
  <2>2. ~ended
    BY <2>1 DEF Accounted
  <2> QED
    BY <2>1, <2>2 DEF Accounted, OnePrinter, Coalesced, Printing, Text, warnings
<1>7. CASE Summarise
  <2>1. {<<s, "summary">> : s \in {s \in shared : failures[s] > 0}} \in SUBSET Messages
    BY MessagesAssumption DEF WarnText, TypeOK
  <2>2. OnePrinter' /\ \A m \in Messages : Coalesced(m)'
    BY <1>7, <2>1, WarnedAtOnce DEF Summarise, Accounted, given, local
  <2> QED
    BY <1>7, <2>2 DEF Accounted, Summarise, end
<1>8. CASE FlushWarnings
  <2>1. /\ ended' /\ exitCode' = exitCode /\ exitCode # -1 /\ ~ended
        /\ printed' = printed /\ raised' = raised
        /\ \A m \in Messages : reported'[m] = IF warnRepeated[m] > 0 THEN warnRepeated[m] + 1 ELSE reported[m]
    BY <1>8 DEF FlushWarnings, Flush
  <2>2. \A c \in Calls : ~Printing(c)
    BY <2>1 DEF Exited, Printing
  <2>3. ASSUME NEW m \in Messages
        PROVE  Settled(m)'
    <3>1. raised[m] \in Nat /\ Coalesced(m)
      BY <1>0, <2>1 DEF WarningsTypeOK, Accounted
    <3> QED
      BY <2>1, <2>2, <3>1 DEF Coalesced, Settled
  <2> QED
    BY <2>1, <2>3 DEF Accounted
<1>9. CASE UNCHANGED vars
  <2>1. UNCHANGED <<pc, task, cause, ended, exitCode, warnings>>
    BY <1>9 DEF vars, given, local, end
  <2> QED
    BY <2>1, SamePrinters DEF Printing, Text
<1> QED
  BY <1>2, <1>3, <1>4, <1>5, <1>6, <1>7, <1>8, <1>9 DEF Next, EndStep, CallStep

\* Once the warnings are flushed, stderr accounts for every warning raised, in full once and with its count if it
\* came again, although each is looked up under the lock and printed after it (llmWarnOnce, warnFlushSuppressed).
THEOREM WarningsAddUpHolds == Spec => []WarningsAddUp
<1>1. Init => Accounted
  <2> SUFFICES ASSUME Init PROVE Accounted
    OBVIOUS
  <2>1. ~ended /\ \A c \in Calls : ~Printing(c)
    BY DEF Init, Printing
  <2>2. \A m \in Messages : Coalesced(m)
    <3>1. /\ warnSeen = {} /\ warnRepeated = [m \in Messages |-> 0] /\ printed = [m \in Messages |-> 0]
          /\ reported = [m \in Messages |-> 0] /\ raised = [m \in Messages |-> 0]
      BY DEF Init, WarningsInit
    <3>2. \A m \in Messages : /\ m \notin warnSeen /\ warnRepeated[m] = 0 /\ printed[m] = 0
                             /\ reported[m] = 0 /\ raised[m] = 0
      BY <3>1
    <3> TAKE m \in Messages
    <3>3. /\ m \in warnSeen <=> raised[m] > 0
          /\ warnRepeated[m] = IF raised[m] > 0 THEN raised[m] - 1 ELSE 0
      BY <3>2
    <3> QED
      BY <3>2, <3>3 DEF Coalesced
  <2>3. OnePrinter
    BY <2>1 DEF OnePrinter
  <2> QED
    BY <2>1, <2>2, <2>3 DEF Accounted
<1>2. Accounted => WarningsAddUp
  <2>1. \A m \in WarnText : m \in Messages
    BY MessagesAssumption
  <2> QED
    BY <2>1 DEF Accounted, Settled, WarningsAddUp
<1>3. Init => Exited
  BY DEF Init, Exited
<1> QED
  BY <1>1, <1>2, <1>3, LocalInit, LocalStep, ExitedStep, AccountedStep, PTL DEF Spec
===============================================================================
