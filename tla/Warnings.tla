------------------------------- MODULE Warnings -------------------------------
(***************************************************************************)
(* The coalesced warnings of cli/llm.go: the first occurrence of a message *)
(* is printed at once, the others are counted and reported at the end of   *)
(* the run.  llmWarnOnce looks the message up and counts it under warnMu   *)
(* (Record), but prints it after the unlock (PrintMessage), so other       *)
(* goroutines may run in between.                                          *)
(***************************************************************************)
EXTENDS Naturals

CONSTANT Messages    \* the texts of the warnings

VARIABLES warnSeen,      \* messages that occurred
          warnRepeated,  \* how often each occurred after the first time
          printed,       \* how often each was written to stderr in full
          reported,      \* the count of each in the lines of the final flush
          raised         \* history: how often llmWarnOnce was called with each

warnings == <<warnSeen, warnRepeated, printed, reported, raised>>

WarningsTypeOK ==
    /\ warnSeen \subseteq Messages
    /\ warnRepeated \in [Messages -> Nat]
    /\ printed \in [Messages -> Nat]
    /\ reported \in [Messages -> Nat]
    /\ raised \in [Messages -> Nat]

WarningsInit ==
    /\ warnSeen = {}
    /\ warnRepeated = [m \in Messages |-> 0]
    /\ printed = [m \in Messages |-> 0]
    /\ reported = [m \in Messages |-> 0]
    /\ raised = [m \in Messages |-> 0]

\* Mutant: the first occurrence of a message counts as a repetition too.
RecordFirstToo(msg) ==
    /\ raised' = [raised EXCEPT ![msg] = @ + 1]
    /\ warnRepeated' = [warnRepeated EXCEPT ![msg] = @ + 1]
    /\ warnSeen' = warnSeen \cup {msg}
    /\ UNCHANGED <<printed, reported>>

\* The locked part of llmWarnOnce; the message is to be printed iff it is new.
Record(msg) ==
    /\ raised' = [raised EXCEPT ![msg] = @ + 1]
    /\ IF msg \in warnSeen
       THEN /\ warnRepeated' = [warnRepeated EXCEPT ![msg] = @ + 1]
            /\ UNCHANGED warnSeen
       ELSE /\ warnSeen' = warnSeen \cup {msg}
            /\ UNCHANGED warnRepeated
    /\ UNCHANGED <<printed, reported>>

\* The rest of llmWarnOnce for a new message.
PrintMessage(msg) ==
    /\ printed' = [printed EXCEPT ![msg] = @ + 1]
    /\ UNCHANGED <<warnSeen, warnRepeated, reported, raised>>

\* llmWarnOnce where no other goroutine warns: a set of distinct messages.
WarnAll(msgs) ==
    /\ raised' = [m \in Messages |-> raised[m] + IF m \in msgs THEN 1 ELSE 0]
    /\ warnRepeated' = [m \in Messages |->
                           warnRepeated[m] + IF m \in msgs \cap warnSeen THEN 1 ELSE 0]
    /\ printed' = [m \in Messages |-> printed[m] + IF m \in msgs \ warnSeen THEN 1 ELSE 0]
    /\ warnSeen' = warnSeen \cup msgs
    /\ UNCHANGED reported

\* warnFlushSuppressed.
Flush ==
    /\ reported' = [m \in Messages |->
                       IF warnRepeated[m] > 0 THEN warnRepeated[m] + 1 ELSE reported[m]]
    /\ warnSeen' = {}
    /\ warnRepeated' = [m \in Messages |-> 0]
    /\ UNCHANGED <<printed, raised>>
===============================================================================
