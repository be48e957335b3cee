------------------------------ MODULE Snapshots ------------------------------
(***************************************************************************)
(* What the interpreter needs of its stacks: the values of each stack, and *)
(* a copy of all of them for every fork that is pending.  Backtracking     *)
(* puts back the stacks as they were when the last fork was pushed.        *)
(***************************************************************************)
EXTENDS Naturals, Sequences

CONSTANTS Stacks,  \* the stacks of an env: stack, paths and scopes
          Values   \* what they hold

VARIABLES contents,  \* the values of each stack, the top last
          saved,     \* the contents when each pending fork was pushed
          returned   \* what the last pop returned

vars == <<contents, saved, returned>>

Init ==
    /\ contents = [k \in Stacks |-> <<>>]
    /\ saved = <<>>
    /\ returned \in Values

Push(k, v) ==
    /\ contents' = [contents EXCEPT ![k] = Append(@, v)]
    /\ UNCHANGED <<saved, returned>>

Pop(k) ==
    /\ contents[k] # <<>>
    /\ returned' = contents[k][Len(contents[k])]
    /\ contents' = [contents EXCEPT ![k] = SubSeq(@, 1, Len(@) - 1)]
    /\ UNCHANGED saved

PushFork ==
    /\ saved' = Append(saved, contents)
    /\ UNCHANGED <<contents, returned>>

PopFork ==
    /\ saved # <<>>
    /\ contents' = saved[Len(saved)]
    /\ saved' = SubSeq(saved, 1, Len(saved) - 1)
    /\ UNCHANGED returned

Next ==
    \/ \E k \in Stacks : Pop(k) \/ \E v \in Values : Push(k, v)
    \/ PushFork
    \/ PopFork

Spec == Init /\ [][Next]_vars
===============================================================================
