-------------------------------- MODULE Forks --------------------------------
(***************************************************************************)
(* The stacks of the interpreter (stack.go, scope_stack.go) and the forks  *)
(* that save and restore them (pushfork and popfork of execute.go).        *)
(*                                                                         *)
(* A stack is a list of blocks linked through next inside a slice that     *)
(* only grows.  Saving it costs two integers and copies nothing: slots up  *)
(* to limit are not written again until the fork that needs them is gone.  *)
(* Slots are numbered from 0, -1 is no block.                              *)
(***************************************************************************)
EXTENDS Integers, Sequences

CONSTANTS Stacks,     \* the stacks of an env: stack, paths and scopes
          Values,     \* what they hold
          MaxBlocks,  \* bound on the slots of a stack
          MaxForks    \* bound on the pending forks

ASSUME BoundsAssumption == MaxBlocks \in Nat /\ MaxForks \in Nat

VARIABLES data,      \* the slice of blocks of each stack
          index,     \* the top block of each stack
          limit,     \* the highest slot of each that a pending fork may need
          forks,     \* the pending forks
          returned,  \* what the last pop returned
          view       \* history: the whole stack below and with each block

vars == <<data, index, limit, forks, returned, view>>

Slots  == 0 .. MaxBlocks - 1
Blocks == [value : Values, next : Slots \cup {-1}]
Tops   == [Stacks -> Slots \cup {-1}]
Saved  == [index : Tops, limit : Tops]

\* s is a Go slice with elements in X.
IsSlice(s, X) == \E n \in 0..MaxBlocks : s \in [0 .. n-1 -> X]

TypeOK ==
    /\ data = [k \in Stacks |-> data[k]]
    /\ view = [k \in Stacks |-> view[k]]
    /\ \A k \in Stacks : IsSlice(data[k], Blocks) /\ IsSlice(view[k], Seq(Values))
    /\ index \in Tops
    /\ limit \in Tops
    /\ forks \in Seq(Saved)
    /\ returned \in Values

Init ==
    /\ data = [k \in Stacks |-> <<>>]
    /\ index = [k \in Stacks |-> -1]
    /\ limit = [k \in Stacks |-> -1]
    /\ forks = <<>>
    /\ returned \in Values
    /\ view = [k \in Stacks |-> <<>>]

Larger(i, j) == IF i < j THEN j ELSE i

\* Mutant: the slot above the top, whether a fork needs it or not.
SlotAboveTop(k) == index[k] + 1

\* The slot the next push writes.
Slot(k) == Larger(index[k], limit[k]) + 1

\* A slice with slot i written; the slice grows by one when i is its length.
Put(slice, i, x) == [j \in DOMAIN slice \cup {i} |-> IF j = i THEN x ELSE slice[j]]

\* The stack whose top is block i of stack k.
Contents(k, i) == IF i = -1 THEN <<>> ELSE view[k][i]

Push(k, v) ==
    /\ Slot(k) < MaxBlocks
    /\ data' = [data EXCEPT ![k] = Put(@, Slot(k), [value |-> v, next |-> index[k]])]
    /\ view' = [view EXCEPT ![k] = Put(@, Slot(k), Append(Contents(k, index[k]), v))]
    /\ index' = [index EXCEPT ![k] = Slot(k)]
    /\ UNCHANGED <<limit, forks, returned>>

\* Compiled code never pops an empty stack.
Pop(k) ==
    /\ index[k] # -1
    /\ returned' = data[k][index[k]].value
    /\ index' = [index EXCEPT ![k] = data[k][index[k]].next]
    /\ UNCHANGED <<data, limit, forks, view>>

\* Mutant: save lowers limit when the top is below it.
SaveTop(k) == index[k]

\* Mutant: save protects one slot too many.
SaveOneTooMany(k) == Larger(index[k], limit[k]) + 1

\* The limit save sets.
Protected(k) == Larger(index[k], limit[k])

\* pushfork: save every stack.
PushFork ==
    /\ Len(forks) < MaxForks
    /\ forks' = Append(forks, [index |-> index, limit |-> limit])
    /\ limit' = [k \in Stacks |-> Protected(k)]
    /\ UNCHANGED <<data, index, returned, view>>

\* Mutant: restore puts back the index only.
RestoreIndex ==
    /\ forks # <<>>
    /\ index' = forks[Len(forks)].index
    /\ forks' = SubSeq(forks, 1, Len(forks) - 1)
    /\ UNCHANGED <<data, limit, returned, view>>

\* popfork: restore every stack from the last fork.
PopFork ==
    /\ forks # <<>>
    /\ index' = forks[Len(forks)].index
    /\ limit' = forks[Len(forks)].limit
    /\ forks' = SubSeq(forks, 1, Len(forks) - 1)
    /\ UNCHANGED <<data, returned, view>>

Next ==
    \/ \E k \in Stacks : Pop(k) \/ \E v \in Values : Push(k, v)
    \/ PushFork
    \/ PopFork

Spec == Init /\ [][Next]_vars

-------------------------------------------------------------------------------
(* Properties.                                                             *)

\* No pending fork, not only the last, has its top above limit, where a push
\* would overwrite it, and limit itself lies inside the slice.
ForksProtected ==
    \A k \in Stacks :
        /\ \A j \in DOMAIN forks : forks[j].index[k] <= limit[k]
        /\ Larger(index[k], limit[k]) >= 0 => Larger(index[k], limit[k]) \in DOMAIN data[k]

\* The history is what the blocks say: every slot a push may not write holds the
\* value on top of the stack it is linked to, links go down, and nothing a
\* pending fork or the top can reach was overwritten.
ViewFollowsBlocks ==
    \A k \in Stacks : \A i \in 0..Larger(index[k], limit[k]) :
        /\ data[k][i].next < i
        /\ view[k][i] = Append(Contents(k, data[k][i].next), data[k][i].value)

\* The blocks of a chain, followed from block i through next.
Chain(k) ==
    LET chain[i \in DOMAIN data[k] \cup {-1}] ==
            IF i = -1 THEN {} ELSE {i} \cup chain[data[k][i].next]
    IN  chain

\* popscope frees the variables of the scope it pops when index > limit: exactly
\* when no pending fork can come back to that scope.
FreeWhenUnshared ==
    \A k \in Stacks : index[k] # -1 =>
        (index[k] > limit[k] <=>
            \A j \in DOMAIN forks : index[k] \notin Chain(k)[forks[j].index[k]])

\* Saving two integers is as good as copying the stacks: whatever is pushed and
\* popped in between, and however the forks nest, backtracking finds each stack
\* as it was, and every pop returns what it would return on a stack of its own.
Copies == INSTANCE Snapshots WITH
    contents <- [k \in Stacks |-> Contents(k, index[k])],
    saved <- [j \in DOMAIN forks |-> [k \in Stacks |-> Contents(k, forks[j].index[k])]]

SavedLikeCopies == Copies!Spec
===============================================================================
