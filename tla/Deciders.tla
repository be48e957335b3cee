------------------------------- MODULE Deciders -------------------------------
(***************************************************************************)
(* The llm_* and jev_* builtins: concurrent calls of llmDecider.decide,    *)
(* jevDecider.decideNoul and decideChoice, their retries, the counters     *)
(* they share, the warnings they raise, and the end of the run that reads  *)
(* the counters: exit code, summaries and the flush of the warnings.       *)
(*                                                                         *)
(* A call is one evaluation of a builtin by a worker.  Its task says which *)
(* builtin it is and what it is given; the provider answers as it likes.   *)
(***************************************************************************)
EXTENDS Warnings, Integers, FiniteSets

CONSTANTS Calls,       \* the evaluations of a builtin in this run
          Configurations,  \* the sets of services that may have a usable configuration
          Tasks,       \* what the calls may be given
          Flags,       \* the settings of --exit-status, --fail-closed, --mark-failed
          MaxRetries   \* attempts per request (JQLM_MAX_RETRIES, JEV_MAX_RETRIES)

\* builtin: "llm" is llm_select/llm_judge, "select" jev_select/jev_judge and
\* "classify" jev_classify.
\* input: what the checks before the first request make of the arguments,
\*   "ok", "badArgs" (prompt or options of the wrong type), "noDocument" (an
\*   error value or a value json.Marshal refuses), "tooLarge" (over the limit of
\*   the llm builtins).
\* chunks: the pieces a jev item is judged in, one request each.
TaskType == [builtin : {"llm", "select", "classify"},
             input   : {"ok", "badArgs", "noDocument", "tooLarge"},
             chunks  : Nat \ {0}]

ASSUME TasksAssumption ==
    /\ Tasks \subseteq TaskType
    /\ \A t \in Tasks : t.builtin = "llm" => t.chunks = 1
    /\ \A t \in Tasks : t.input = "tooLarge" => t.builtin = "llm"
ASSUME RetriesAssumption == MaxRetries \in Nat \ {0}
ASSUME CallsAssumption == IsFiniteSet(Calls)

FlagType == [exitStatus : BOOLEAN, failClosed : BOOLEAN, markFailed : BOOLEAN]
Services == {"llm", "jev"}
ASSUME SettingsAssumption == Flags \subseteq FlagType /\ Configurations \subseteq SUBSET Services

Service(t) == IF t.builtin = "llm" THEN "llm" ELSE "jev"

\* What a request may come to.
\*   "yes", "no"  a verdict: shouldkeep, or noul against the threshold, or
\*                evidence for an option;
\*   "omitted"    a well-formed answer without the verdict;
\*   "null"       one whose shouldkeep is null (llm only);
\*   "half"       an answer that fails to decode after its shouldkeep was
\*                stored (llm only);
\*   "transient"  429, 5xx, or an error that is neither the provider's nor the
\*                context's: of the transport, of decoding for llm;
\*   "spent"      the context's deadline or its cancellation, before there is a
\*                response, or at any time for llm;
\*   "spentReading"  the same while the body is read (jev only);
\*   "final"      another status, an undecodable jev body.
Outcomes(t) == {"yes", "no", "omitted", "transient", "spent", "final"}
                   \cup (IF t.builtin = "llm" THEN {"null", "half"} ELSE {"spentReading"})

\* Warning texts: per service and cause, so equal causes coalesce.
Causes   == {"tooLarge", "omitted", "half", "transient", "spent", "spentReading", "final"}
WarnText == {<<t, c>> : t \in {"llm", "select", "classify"}, c \in Causes}
                \cup {<<t, "chunked">> : t \in {"select", "classify"}}
                \cup {<<s, k>> : s \in Services, k \in {"started", "summary"}}
ASSUME MessagesAssumption == WarnText \subseteq Messages

VARIABLES task,      \* what each call is given
          flags,     \* the flags of the command line
          configured,  \* the services that can be constructed
          pc,        \* where each call is
          attempt,   \* attempts of the current request
          chunk,     \* the chunk a call is judging, from 1
          verdict,   \* llm: out.ShouldKeep; jev: whether maxNoul (or bestProb) suffices
          cause,     \* lastErr: why the last attempt failed
          result,    \* what the call returned
          shared,    \* the deciders constructed (llmShared, jevShared)
          calls, failures,  \* the counters of each decider
          marked,    \* calls whose item --mark-failed emitted
          carried,   \* history: the verdicts in a call's responses that were decoded
          spoilt,    \* history: those in its responses that failed to decode
          processErr,  \* what process returned: "none" for nil
          exitCode,  \* of the process; -1 while queries run
          ended      \* the deferred summaries and the flush have run

given == <<task, flags, configured>>
local == <<pc, attempt, chunk, verdict, cause, result>>
said  == <<carried, spoilt>>
end   == <<processErr, exitCode, ended>>
vars  == <<given, local, shared, calls, failures, marked, said, end, warnings>>

Undecided == "none"

TypeOK ==
    /\ WarningsTypeOK
    /\ task \in [Calls -> Tasks]
    /\ flags \in Flags
    /\ configured \in Configurations
    /\ pc \in [Calls -> {"start", "chunked", "chunkedPrint", "request", "await", "backoff",
                         "failed", "warn", "print", "mark", "done"}]
    /\ attempt \in [Calls -> 0..MaxRetries]
    /\ chunk \in [Calls -> Nat \ {0}]
    /\ verdict \in [Calls -> {Undecided, "yes", "no"}]
    /\ cause \in [Calls -> Causes \cup {Undecided}]
    /\ result \in [Calls -> {Undecided, "yes", "no", "discard", "silent", "error"}]
    /\ shared \subseteq Services
    /\ calls \in [Services -> Nat]
    /\ failures \in [Services -> Nat]
    /\ marked \subseteq Calls
    /\ carried \in [Calls -> SUBSET {"yes", "no"}]
    /\ spoilt \in [Calls -> SUBSET {"yes", "no"}]
    /\ processErr \in {"none", "error", "halt"}
    /\ exitCode \in -1..6
    /\ ended \in BOOLEAN

Init ==
    /\ WarningsInit
    /\ task \in [Calls -> Tasks]
    /\ flags \in Flags
    /\ configured \in Configurations
    /\ pc = [c \in Calls |-> "start"]
    /\ attempt = [c \in Calls |-> 0]
    /\ chunk = [c \in Calls |-> 1]
    /\ verdict = [c \in Calls |-> Undecided]
    /\ cause = [c \in Calls |-> Undecided]
    /\ result = [c \in Calls |-> Undecided]
    /\ shared = {}
    /\ calls = [s \in Services |-> 0]
    /\ failures = [s \in Services |-> 0]
    /\ marked = {}
    /\ carried = [c \in Calls |-> {}]
    /\ spoilt = [c \in Calls |-> {}]
    /\ processErr = "none"
    /\ exitCode = -1
    /\ ended = FALSE

Goto(c, label) == pc' = [pc EXCEPT ![c] = label]
Svc(c) == Service(task[c])

\* The builtin returns; nothing else of the call changes.
ReturnAs(c, r) ==
    /\ Goto(c, "done")
    /\ result' = [result EXCEPT ![c] = r]

-------------------------------------------------------------------------------
(* A call.                                                                 *)

\* getDecider, getJevDecider: the first use of a service constructs its decider
\* and announces it; a sync.Once makes the others wait for that.
Construct(c) ==
    /\ pc[c] = "start"
    /\ Svc(c) \in configured \ shared
    /\ shared' = shared \cup {Svc(c)}
    /\ WarnAll({<<Svc(c), "started">>})
    /\ UNCHANGED <<given, local, calls, failures, marked, said, end>>

\* Mutant: only the call that tried to construct the decider gets the error.
ErrorOnlyOnce(c) ==
    /\ pc[c] = "start"
    /\ Svc(c) \notin configured
    /\ \A d \in Calls : result[d] # "error"
    /\ ReturnAs(c, "error")
    /\ UNCHANGED <<given, attempt, chunk, verdict, cause, shared, calls, failures,
                   marked, said, end, warnings>>

\* A service that cannot be configured is an error of the query.
NotConfigured(c) ==
    /\ pc[c] = "start"
    /\ Svc(c) \notin configured
    /\ ReturnAs(c, "error")
    /\ UNCHANGED <<given, attempt, chunk, verdict, cause, shared, calls, failures,
                   marked, said, end, warnings>>

\* The checks that return before anything is counted.  Arguments of the wrong
\* type are a query error for the llm builtins and for options that are no
\* array; elsewhere the item is discarded like one that is no document.
Reject(c) ==
    /\ pc[c] = "start" /\ Svc(c) \in shared
    /\ \/ /\ task[c].input = "noDocument"
          /\ ReturnAs(c, "silent")
       \/ /\ task[c].input = "badArgs"
          /\ task[c].builtin \in {"llm", "classify"}
          /\ ReturnAs(c, "error")
       \/ /\ task[c].input = "badArgs"
          /\ Svc(c) = "jev"
          /\ ReturnAs(c, "silent")
    /\ UNCHANGED <<given, attempt, chunk, verdict, cause, shared, calls, failures,
                   marked, said, end, warnings>>

\* Mutant: an oversized item is discarded without being counted as a failure.
TooLargeUncounted(c) ==
    /\ pc[c] = "start" /\ Svc(c) \in shared
    /\ task[c].input = "tooLarge"
    /\ calls' = [calls EXCEPT ![Svc(c)] = @ + 1]
    /\ ReturnAs(c, "discard")
    /\ UNCHANGED <<given, attempt, chunk, verdict, cause, shared, failures,
                   marked, said, end, warnings>>

\* decide's guard against oversized items: counted as a call that failed.
TooLarge(c) ==
    /\ pc[c] = "start" /\ Svc(c) \in shared
    /\ task[c].input = "tooLarge"
    /\ calls' = [calls EXCEPT ![Svc(c)] = @ + 1]
    /\ cause' = [cause EXCEPT ![c] = "tooLarge"]
    /\ Goto(c, "failed")
    /\ UNCHANGED <<given, attempt, chunk, verdict, result, shared, failures,
                   marked, said, end, warnings>>

\* The item passes; one that is cut in chunks is announced first (chunkStates).
Accept(c) ==
    /\ pc[c] = "start" /\ Svc(c) \in shared
    /\ task[c].input = "ok"
    /\ Goto(c, IF task[c].chunks > 1 THEN "chunked" ELSE "request")
    /\ UNCHANGED <<given, attempt, chunk, verdict, cause, result, shared, calls,
                   failures, marked, said, end, warnings>>

\* One attempt: it is counted, and the request is sent.
Request(c) ==
    /\ pc[c] = "request"
    /\ calls' = [calls EXCEPT ![Svc(c)] = @ + 1]
    /\ attempt' = [attempt EXCEPT ![c] = @ + 1]
    /\ Goto(c, "await")
    /\ UNCHANGED <<given, chunk, verdict, cause, result, shared, failures,
                   marked, said, end, warnings>>

\* Mutant: every failed attempt is retried.
RetryAlways(c, o, retryable) ==
    /\ cause' = [cause EXCEPT ![c] = o]
    /\ Goto(c, "backoff")
    /\ UNCHANGED <<attempt, chunk, result>>

\* The attempt failed for a reason; a retryable one sleeps before it goes on.
FailAttempt(c, o, retryable) ==
    /\ cause' = [cause EXCEPT ![c] = o]
    /\ Goto(c, IF retryable THEN "backoff" ELSE "failed")
    /\ UNCHANGED <<attempt, chunk, result>>

Carry(c, v) ==
    /\ carried' = [carried EXCEPT ![c] = @ \cup {v}]
    /\ UNCHANGED spoilt

\* A response that fails to decode: what it stored in out stays there.
Spoil(c, v) ==
    /\ verdict' = [verdict EXCEPT ![c] = v]
    /\ spoilt' = [spoilt EXCEPT ![c] = @ \cup {v}]
    /\ UNCHANGED carried

\* The answer to an llm request.  out outlives the attempt: an answer without
\* the verdict leaves what an earlier one stored, one with null clears it.
LlmAnswer(c) ==
    /\ pc[c] = "await" /\ Svc(c) = "llm"
    /\ \E o \in Outcomes(task[c]) :
        \/ /\ o \in {"yes", "no"}
           /\ verdict' = [verdict EXCEPT ![c] = o]
           /\ Carry(c, o)
           /\ ReturnAs(c, o)
           /\ UNCHANGED <<attempt, chunk, cause>>
        \/ /\ o = "omitted" /\ verdict[c] # Undecided
           /\ ReturnAs(c, verdict[c])
           /\ UNCHANGED <<attempt, chunk, verdict, cause, said>>
        \/ /\ o = "null" \/ (o = "omitted" /\ verdict[c] = Undecided)
           /\ verdict' = [verdict EXCEPT ![c] = Undecided]
           /\ FailAttempt(c, "omitted", TRUE)
           /\ UNCHANGED said
        \/ /\ o = "half"
           /\ \E v \in {"yes", "no"} : Spoil(c, v)
           /\ FailAttempt(c, o, TRUE)
        \/ /\ o \in {"transient", "spent", "final"}
           /\ FailAttempt(c, o, o = "transient")
           /\ UNCHANGED <<verdict, said>>
    /\ UNCHANGED <<given, shared, calls, failures, marked, end, warnings>>

\* Mutant: the last chunk decides.
LastChunkDecides(c, o) ==
    /\ verdict' = [verdict EXCEPT ![c] = o]
    /\ Carry(c, o)
    /\ IF chunk[c] = task[c].chunks
       THEN /\ ReturnAs(c, o)
            /\ UNCHANGED <<attempt, chunk, cause>>
       ELSE /\ Goto(c, "request")
            /\ chunk' = [chunk EXCEPT ![c] = @ + 1]
            /\ attempt' = [attempt EXCEPT ![c] = 0]
            /\ UNCHANGED <<cause, result>>

\* A chunk was judged: the verdict is "yes" once any chunk's is.
ChunkJudged(c, o) ==
    LET v == IF verdict[c] = "yes" THEN "yes" ELSE o
    IN  /\ verdict' = [verdict EXCEPT ![c] = v]
        /\ Carry(c, o)
        /\ IF chunk[c] = task[c].chunks
           THEN /\ ReturnAs(c, v)
                /\ UNCHANGED <<attempt, chunk, cause>>
           ELSE /\ Goto(c, "request")
                /\ chunk' = [chunk EXCEPT ![c] = @ + 1]
                /\ attempt' = [attempt EXCEPT ![c] = 0]
                /\ UNCHANGED <<cause, result>>

\* The answer to a jev request: jevCall, and what its callers make of it.  An
\* error of reading the body is retried whatever it is.
JevAnswer(c) ==
    /\ pc[c] = "await" /\ Svc(c) = "jev"
    /\ \E o \in Outcomes(task[c]) :
        \/ /\ o \in {"yes", "no"}
           /\ ChunkJudged(c, o)
        \/ /\ o \notin {"yes", "no"}
           /\ FailAttempt(c, o, o \in {"transient", "spentReading"})
           /\ UNCHANGED <<verdict, said>>
    /\ UNCHANGED <<given, shared, calls, failures, marked, end, warnings>>

\* Mutant: one attempt too many.
OneMoreAttempt(c) ==
    /\ pc[c] = "backoff"
    /\ Goto(c, IF attempt[c] <= MaxRetries THEN "request" ELSE "failed")
    /\ UNCHANGED <<given, attempt, chunk, verdict, cause, result, shared, calls,
                   failures, marked, said, end, warnings>>

\* After the sleep: the next attempt, or the loop ends.
Backoff(c) ==
    /\ pc[c] = "backoff"
    /\ Goto(c, IF attempt[c] < MaxRetries THEN "request" ELSE "failed")
    /\ UNCHANGED <<given, attempt, chunk, verdict, cause, result, shared, calls,
                   failures, marked, said, end, warnings>>

\* The item is lost: counted ...
CountFailure(c) ==
    /\ pc[c] = "failed"
    /\ failures' = [failures EXCEPT ![Svc(c)] = @ + 1]
    /\ Goto(c, "warn")
    /\ UNCHANGED <<given, attempt, chunk, verdict, cause, result, shared, calls,
                   marked, said, end, warnings>>

Text(c) == IF pc[c] \in {"chunked", "chunkedPrint"} THEN <<task[c].builtin, "chunked">>
           ELSE <<task[c].builtin, cause[c]>>

\* ... and warned about, as are items cut in chunks; llmWarnOnce up to the unlock ...
Warn(c) ==
    /\ pc[c] \in {"chunked", "warn"}
    /\ Record(Text(c))
    /\ LET new == Text(c) \notin warnSeen
       IN  Goto(c, IF pc[c] = "chunked" THEN IF new THEN "chunkedPrint" ELSE "request"
                   ELSE IF new THEN "print" ELSE "mark")
    /\ UNCHANGED <<given, attempt, chunk, verdict, cause, result, shared, calls,
                   failures, marked, said, end>>

\* ... and after it ...
PrintWarning(c) ==
    /\ pc[c] \in {"chunkedPrint", "print"}
    /\ PrintMessage(Text(c))
    /\ Goto(c, IF pc[c] = "chunkedPrint" THEN "request" ELSE "mark")
    /\ UNCHANGED <<given, attempt, chunk, verdict, cause, result, shared, calls,
                   failures, marked, said, end>>

\* ... and marked, unless a jev answer lacked the verdict.
MarkFailed(c) ==
    /\ pc[c] = "mark"
    /\ marked' = IF flags.markFailed /\ ~(Svc(c) = "jev" /\ cause[c] = "omitted")
                 THEN marked \cup {c} ELSE marked
    /\ ReturnAs(c, "discard")
    /\ UNCHANGED <<given, attempt, chunk, verdict, cause, shared, calls, failures,
                   said, end, warnings>>

-------------------------------------------------------------------------------
(* The end of the run.                                                     *)

\* Mutant: the failures of jev calls are forgotten.
LlmFailuresOnly == IF "llm" \in shared THEN failures["llm"] ELSE 0

totalFailedCalls ==
    (IF "llm" \in shared THEN failures["llm"] ELSE 0)
        + (IF "jev" \in shared THEN failures["jev"] ELSE 0)

\* cli.run's result.  err is what process returned; status is the code tracked
\* for --exit-status.  The deferred function of runInternal turns nil into the
\* status, and only nil gets to --fail-closed.  (A halt stands for halt, whose
\* code is 0; halt_error brings a code of its own.)
ExitCode(err, status) ==
    IF err = "error" THEN 5
    ELSE IF err = "halt" THEN 0
    ELSE IF flags.exitStatus THEN status
    ELSE IF flags.failClosed /\ totalFailedCalls > 0 THEN 6
    ELSE 0

\* All inputs are processed: the exit code is decided.  Any query may go with
\* these calls, so process may return any error and leave any status.
Exit ==
    /\ exitCode = -1
    /\ \A c \in Calls : pc[c] = "done"
    /\ \E err \in {"none", "error", "halt"}, status \in {0, 1, 4} :
           /\ processErr' = err
           /\ exitCode' = ExitCode(err, status)
    /\ UNCHANGED <<given, local, shared, calls, failures, marked, said, ended,
                   warnings>>

\* The deferred jevSummaryWarn and llmSummaryWarn.
Summarise ==
    /\ exitCode # -1
    /\ raised[<<"jev", "summary">>] + raised[<<"llm", "summary">>] = 0
    /\ \E s \in shared : failures[s] > 0
    /\ ~ended
    /\ WarnAll({<<s, "summary">> : s \in {s \in shared : failures[s] > 0}})
    /\ UNCHANGED <<given, local, shared, calls, failures, marked, said, end>>

\* The deferred warnFlushSuppressed, which runs last.
FlushWarnings ==
    /\ exitCode # -1
    /\ ~ended
    /\ \A s \in shared : failures[s] > 0 => raised[<<s, "summary">>] > 0
    /\ Flush
    /\ ended' = TRUE
    /\ UNCHANGED <<given, local, shared, calls, failures, marked, said, processErr,
                   exitCode>>

-------------------------------------------------------------------------------
CallStep(c) ==
    \/ Construct(c) \/ NotConfigured(c) \/ Reject(c) \/ TooLarge(c) \/ Accept(c)
    \/ Request(c) \/ LlmAnswer(c) \/ JevAnswer(c) \/ Backoff(c)
    \/ CountFailure(c) \/ Warn(c) \/ PrintWarning(c) \/ MarkFailed(c)

EndStep == Exit \/ Summarise \/ FlushWarnings

Next == EndStep \/ \E c \in Calls : CallStep(c)

Spec == Init /\ [][Next]_vars

\* Every goroutine that can run does, and every request ends: the context's
\* timeout bounds it.
FairSpec == Spec /\ WF_vars(EndStep) /\ \A c \in Calls : WF_vars(CallStep(c))

-------------------------------------------------------------------------------
(* Properties.                                                             *)

\* A service's failure counter is the number of its calls that lost their item
\* to a failure, each once, however many attempts and chunks it took; the
\* summary never claims more of them than calls.
FailuresAreDiscards ==
    \A s \in Services :
        /\ failures[s] = Cardinality({c \in Calls :
               Svc(c) = s /\ (result[c] = "discard" \/ pc[c] \in {"warn", "print", "mark"})})
        /\ failures[s] <= calls[s]

\* A call returns a verdict only if a response that was decoded carried it, and
\* refuses a jev item only when every chunk was judged and none was kept; a call
\* that failed is never kept.  The llm builtins are excepted when an earlier
\* response failed to decode: decide returns what that one left in out.
VerdictIsAnswered ==
    \A c \in Calls : result[c] \in {"yes", "no"} =>
        /\ result[c] \in carried[c] \/ (Svc(c) = "llm" /\ result[c] \in spoilt[c])
        /\ Svc(c) = "jev" => chunk[c] = task[c].chunks
        /\ Svc(c) = "jev" /\ result[c] = "no" => "yes" \notin carried[c]

\* "a model response that OMITS shouldkeep (or sends null) must not silently
\* decode to false": without the exception.  No run has it, as decide violates it.
VerdictIsDecoded ==
    \A c \in Calls : result[c] \in {"yes", "no"} => result[c] \in carried[c]

\* Once the warnings are flushed, stderr accounts for every warning raised: in
\* full once, and in the flush with its count if it came again.
WarningsAddUp ==
    ended => \A m \in WarnText :
        /\ printed[m] = IF raised[m] > 0 THEN 1 ELSE 0
        /\ reported[m] = IF raised[m] > 1 THEN raised[m] ELSE 0

\* Where --fail-closed is heard - no --exit-status, and process returned nil -
\* it tells exactly the runs that lost an item to a failed call, whichever
\* service failed and however the calls interleaved.
FailClosedAlone ==
    exitCode # -1 /\ flags.failClosed /\ ~flags.exitStatus /\ processErr = "none" =>
        (exitCode = 6 <=> \E c \in Calls : result[c] = "discard")

\* "--fail-closed - exit with code 6 if any call failed."
\* Even where no error and no halt of the query decides the code.
FailClosed ==
    exitCode # -1 /\ flags.failClosed /\ processErr = "none"
        /\ (\E c \in Calls : result[c] = "discard") => exitCode = 6

\* "--mark-failed - each discarded item is emitted to stderr."
EveryDiscardMarked ==
    \A c \in Calls : flags.markFailed /\ result[c] = "discard" => c \in marked

\* Why a service tries again.
Retried(s) == IF s = "llm" THEN {"transient", "half", "omitted"} ELSE {"transient", "spentReading"}

\* No attempt follows an answer that is final, nor one that spent the budget
\* (llmRetryable, jevRetryable), except in jevCall when it was spent while the
\* body was read: that one error is retried as if it were the transport's.
NoRetryAfterFinal ==
    [][\A c \in Calls : attempt'[c] > attempt[c] =>
          attempt[c] = 0 \/ cause[c] \in Retried(Svc(c))]_vars

\* "spent budget / canceled: retrying with a fresh timeout would double it":
\* without the exception.  No run has it, as jevCall violates it.
BudgetSpentOnce ==
    [][\A c \in Calls : attempt'[c] > attempt[c] =>
          attempt[c] = 0 \/ cause[c] \notin {"spent", "spentReading"}]_vars

\* Every call returns and the run ends.
RunEnds == <>ended
===============================================================================
