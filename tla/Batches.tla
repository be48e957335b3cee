------------------------------- MODULE Batches -------------------------------
(***************************************************************************)
(* chunkStates of cli/jev.go with batchElements and batchObject: an item   *)
(* larger than JEV_MAX_ITEM_BYTES becomes several states, each sent to the *)
(* API by itself.  A string is cut by chunkString (module Chunk), the      *)
(* elements of an array and the entries of an object are collected in      *)
(* batches, and a string among them that is too large alone is cut too.    *)
(*                                                                         *)
(* A value is a string or something else of which the length of its JSON   *)
(* is all that matters.  An item is a value or a list of entries; the      *)
(* entries of an object come in the order of their keys, those of a string *)
(* (itself, as the only one) and of an array have no key.                  *)
(***************************************************************************)
EXTENDS Chunk

CONSTANTS Items,   \* the items to classify
          Limits   \* values of JEV_MAX_ITEM_BYTES

StringValue(t) == [type |-> "string", text |-> t]
OtherValue(n)  == [type |-> "other", len |-> n]
Entry(k, v)    == [key |-> k, val |-> v]

IsString(v) == v.type = "string"

VARIABLES item,     \* the item
          limit,    \* JEV_MAX_ITEM_BYTES
          phase,    \* "begin", "group", "pieces" (chunkString is called) or "done"
          at,       \* the entry that is next
          cur,      \* the batch being filled
          curLen,   \* its length, as the code counts it
          batches,  \* the batches so far
          chunked   \* the item was split

vars == <<chunkVars, item, limit, phase, at, cur, curLen, batches, chunked>>

IsEntry(e) ==
    e.key \in Seq(Bytes) /\ IF IsString(e.val) THEN e.val.text \in Seq(Bytes) ELSE e.val.len \in Nat

ASSUME LimitsAssumption == Limits \subseteq Int

ASSUME ItemsAssumption ==
    \A i \in Items : /\ i.type \in {"string", "array", "object", "other"}
                     /\ i.entries \in Seq(ToSet(i.entries))
                     /\ \A k \in DOMAIN i.entries : IsEntry(i.entries[k])

Init ==
    /\ item \in Items /\ limit \in Limits
    /\ phase = "begin"
    /\ at = 1
    /\ cur = <<>> /\ curLen = 2
    /\ batches = <<>>
    /\ chunked = FALSE
    /\ Idle

-------------------------------------------------------------------------------
(* Lengths of JSON.                                                        *)

ValueLen(v) == IF IsString(v) THEN MarshalLen(v.text) ELSE v.len

\* An element, or an entry as an object of its own: {"k":v}.
EntryLen(e) == IF item.type = "object" THEN MarshalLen(e.key) + ValueLen(e.val) + 3
               ELSE ValueLen(e.val)

EntriesLen(entries) ==
    LET sum[n \in 0 .. Len(entries)] == IF n = 0 THEN 0 ELSE sum[n - 1] + EntryLen(entries[n])
    IN  sum[Len(entries)]

\* A state: the string, [a,b] or {"k":a,"l":b}.
StateLen(entries) ==
    CASE item.type \in {"string", "other"} -> ValueLen(entries[1].val)
      [] item.type = "array" -> EntriesLen(entries) + Len(entries) + 1
      [] item.type = "object" -> EntriesLen(entries) - Len(entries) + 1

-------------------------------------------------------------------------------
(* The splitting.                                                          *)

\* No limit, or the item fits, or it is a scalar.
SendWhole ==
    /\ phase = "begin"
    /\ limit <= 0 \/ StateLen(item.entries) <= limit \/ item.type = "other"
    /\ phase' = "done"
    /\ UNCHANGED <<chunkVars, item, limit, at, cur, curLen, batches, chunked>>

Begin ==
    /\ phase = "begin"
    /\ limit > 0 /\ StateLen(item.entries) > limit /\ item.type # "other"
    /\ phase' = "group"
    /\ UNCHANGED <<chunkVars, item, limit, at, cur, curLen, batches, chunked>>

Grouping == phase = "group" /\ at <= Len(item.entries)

This == item.entries[at]

\* Too large for any batch.
TooBig(e) ==
    CASE item.type = "string" -> TRUE
      [] item.type = "array"  -> EntryLen(e) + 2 > limit
      [] item.type = "object" -> EntryLen(e) > limit

\* Mutant: nothing is reserved for what goes around a piece.
RoomUnwrapped(e) == limit

\* What is left for a piece in its wrapping: [piece] or {"k":piece}.
Room(e) ==
    CASE item.type = "string" -> limit
      [] item.type = "array"  -> limit - 2
      [] item.type = "object" -> limit - Len(e.key) - 7

Splittable(e) == IsString(e.val) /\ (item.type = "object" => Room(e) >= 8)

\* Mutant: the batch in hand is forgotten.
FlushNothing == batches

\* flush().
Flushed == IF cur = <<>> THEN batches ELSE Append(batches, cur)

\* An entry joins the batch, or begins the next one.
Group ==
    /\ Grouping /\ ~TooBig(This)
    /\ LET size == EntryLen(This) + 1
       IN  IF curLen + size > limit
           THEN batches' = Flushed /\ cur' = <<This>> /\ curLen' = 2 + size
           ELSE batches' = batches /\ cur' = Append(cur, This) /\ curLen' = curLen + size
    /\ at' = at + 1
    /\ UNCHANGED <<chunkVars, item, limit, phase, chunked>>

\* A string too large alone is cut.
Split ==
    /\ Grouping /\ TooBig(This) /\ Splittable(This)
    /\ Call(This.val.text, Room(This))
    /\ batches' = Flushed /\ cur' = <<>> /\ curLen' = 2
    /\ phase' = "pieces"
    /\ UNCHANGED <<item, limit, at, chunked>>

\* Every piece is a batch of its own.
TakePieces ==
    /\ phase = "pieces" /\ pc = "done"
    /\ batches' = batches \o
           [k \in DOMAIN out |-> <<Entry(This.key, StringValue(out[k]))>>]
    /\ at' = at + 1
    /\ phase' = "group"
    /\ UNCHANGED <<chunkVars, item, limit, cur, curLen, chunked>>

\* An element that cannot be split goes alone.
Alone ==
    /\ Grouping /\ TooBig(This) /\ ~Splittable(This) /\ item.type = "array"
    /\ batches' = Append(Flushed, <<This>>) /\ cur' = <<>> /\ curLen' = 2
    /\ at' = at + 1
    /\ UNCHANGED <<chunkVars, item, limit, phase, chunked>>

\* An object with such an entry is not split.
GiveUp ==
    /\ Grouping /\ TooBig(This) /\ ~Splittable(This) /\ item.type = "object"
    /\ phase' = "done"
    /\ UNCHANGED <<chunkVars, item, limit, at, cur, curLen, batches, chunked>>

\* The last batch; fewer than two are none.
End ==
    /\ phase = "group" /\ at > Len(item.entries)
    /\ batches' = Flushed
    /\ chunked' = (Len(Flushed) > 1)
    /\ phase' = "done"
    /\ UNCHANGED <<chunkVars, item, limit, at, cur, curLen>>

Cutting == phase = "pieces" /\ ChunkString
           /\ UNCHANGED <<item, limit, phase, at, cur, curLen, batches, chunked>>

Next == SendWhole \/ Begin \/ Group \/ Split \/ Cutting \/ TakePieces
            \/ Alone \/ GiveUp \/ End

Spec == Init /\ [][Next]_vars

\* The function runs on its own.
FairSpec == Spec /\ WF_vars(Next)

-------------------------------------------------------------------------------
(* Properties.                                                             *)

TypeOK ==
    /\ ChunkTypeOK
    /\ limit \in Limits
    /\ phase \in {"begin", "group", "pieces", "done"}
    /\ at \in 1 .. Len(item.entries) + 1
    /\ curLen \in Nat /\ chunked \in BOOLEAN
    /\ \A b \in {item.entries, cur} \cup ToSet(batches) : \A e \in ToSet(b) : IsEntry(e)

\* What escapes add to the key: the room for a piece does not count it, and has two
\* bytes to spare.
KeyEscapes(e) == MarshalLen(e.key) - Len(e.key) - 2

\* A batch that no splitting makes fit: an element, or a string no piece of which has
\* room, or a key whose escapes take the room reserved.
Unfit(b) ==
    /\ Len(b) = 1
    /\ \/ ~IsString(b[1].val)
       \/ Room(b[1]) < 8
       \/ item.type = "object" /\ KeyEscapes(b[1]) > 2

\* Every piece fits the budget chunkString is given, and with what goes around it, as
\* every batch, fits the limit - but for the batches that cannot fit, each alone.
StatesFit ==
    /\ TypeOK
    /\ PiecesFit
    /\ chunked => \A b \in ToSet(batches) : StateLen(b) <= limit \/ Unfit(b)

ValidItem == \A e \in ToSet(item.entries) : IsString(e.val) => Stray(e.val.text) = {}

\* The bytes of a string, each with the key that it stands under.
Under(key, t) == [i \in DOMAIN t |-> <<key, t[i]>>]

\* What an entry says, and a list of entries: every value and every byte of a string,
\* newlines excepted, with the key it stands under.
Said(e) == IF IsString(e.val) THEN Under(e.key, WithoutNewlines(e.val.text))
           ELSE <<<<e.key, e.val>>>>

Content(entries) == FlattenSeq([i \in DOMAIN entries |-> Said(entries[i])])

\* Nothing of the item is lost or moved: the pieces and the rest are the string that is
\* cut, the batches and the rest of the entries are the item, under the same keys.
StatesKeep ==
    /\ ContentKept
    /\ ValidItem /\ phase \in {"group", "done"} /\ (phase = "done" => chunked) =>
           Content(FlattenSeq(batches))
               \o (IF phase = "group" THEN Content(cur) ELSE <<>>)
               \o Content(From(item.entries, at - 1))
               = Content(item.entries)

\* The function returns: "never hang, whatever the content".
NeverHangs == <>(phase = "done")
===============================================================================
