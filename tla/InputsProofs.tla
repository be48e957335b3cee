------------------------------ MODULE InputsProofs ------------------------------
(***************************************************************************)
(* Theorems about Inputs for any files and command lines: handles are      *)
(* closed whatever fails, every input is taken once and in order, and in   *)
(* the loop a query is told the name of the file that it works on.         *)
(* And about Position, for any input: the line in a message is right.      *)
(* And about Flags, for any options and command lines: what parseFlags     *)
(* makes of a command line is what it says.                                *)
(* And about Stream, for any documents: the events of --stream, the path   *)
(* and the states are those of the document, wherever the input stops.     *)
(***************************************************************************)
EXTENDS Inputs, Position, Phrases, Stream, Induction, SequenceTheorems, FiniteSetTheorems, TLAPS

-------------------------------------------------------------------------------
(* What the results of a file are.                                         *)

Origin == {"value", "whole", "readerror"}

ResultOf(f) == {Value(f, n) : n \in Nat} \cup {Whole(f), ReadError(f), <<"nothing">>}

LEMMA ResultNames ==
    ASSUME NEW f, NEW r \in ResultOf(f), r[1] \in Origin
    PROVE  r[2] = f
BY DEF ResultOf, Value, Whole, ReadError, Origin

LEMMA ReadableTypes ==
    ASSUME NEW f \in DOMAIN Content
    PROVE  Readable(f) \in Seq(ResultOf(f))
<1>1. Content[f].values \in Nat
  BY InputsAssumption
<1>2. \A n \in Nat : Value(f, n) \in ResultOf(f)
  BY DEF ResultOf
<1>3. [n \in 1 .. Content[f].values |-> Value(f, n)] \in Seq(ResultOf(f))
  BY <1>1, <1>2
<1>4. <<ReadError(f)>> \in Seq(ResultOf(f)) /\ <<Whole(f)>> \in Seq(ResultOf(f))
      /\ <<<<"nothing">>>> \in Seq(ResultOf(f)) /\ <<>> \in Seq(ResultOf(f))
  BY DEF ResultOf
<1>5. \A e \in Seq(ResultOf(f)) : [n \in 1 .. Content[f].values |-> Value(f, n)] \o e \in Seq(ResultOf(f))
  BY <1>3
<1> QED
  BY <1>4, <1>5 DEF Readable, Results

-------------------------------------------------------------------------------
(* Types and handles.                                                      *)

QueryOK(q) ==
    /\ q = [n |-> q.n, own |-> q.own, pc |-> q.pc, seen |-> q.seen]
    /\ q.pc \in {"running", "naming", "named"}

LEMMA QueryBecomes ==
    ASSUME NEW q, QueryOK(q), NEW x
    PROVE  /\ QueryOK([q EXCEPT !.own = x])
           /\ QueryOK([q EXCEPT !.pc = "naming"])
           /\ QueryOK(Named(q, x))
<1>1. q = [n |-> q.n, own |-> q.own, pc |-> q.pc, seen |-> q.seen] /\ q.pc \in {"running", "naming", "named"}
  BY DEF QueryOK
<1>2. [q EXCEPT !.own = x] = [n |-> q.n, own |-> x, pc |-> q.pc, seen |-> q.seen]
  BY <1>1
<1>3. [q EXCEPT !.pc = "naming"] = [n |-> q.n, own |-> q.own, pc |-> "naming", seen |-> q.seen]
  BY <1>1
<1>4. \A a, b, d : \A p \in {"running", "naming", "named"} : QueryOK([n |-> a, own |-> b, pc |-> p, seen |-> d])
  BY DEF QueryOK
<1>5. QueryOK([n |-> q.n, own |-> x, pc |-> q.pc, seen |-> q.seen])
  BY <1>1, <1>4
<1>6. /\ QueryOK([n |-> q.n, own |-> q.own, pc |-> "naming", seen |-> q.seen])
      /\ QueryOK(Named(q, x))
  BY <1>4 DEF Named
<1> QED
  BY <1>2, <1>3, <1>5, <1>6

\* Whatever is done with a result, the queries stay queries, and only the caller's state changes.
LEMMA CallerSteps ==
    ASSUME InputsTypeOK,
           (\E r : Pass(r)) \/ PassEnd
    PROVE  /\ \A q \in queries' : QueryOK(q)
           /\ serr' \in BOOLEAN
           /\ pc' \in {"idle", "files", "closed"}
<1>1. \A q \in queries : QueryOK(q)
  BY DEF InputsTypeOK, QueryOK
<1>2. \A n, r : QueryOK(Query(n, r))
  BY DEF Query, QueryOK
<1>3. \A q \in queries : \A r : QueryOK([q EXCEPT !.own = r])
  BY <1>1, QueryBecomes
<1>4. ASSUME NEW r, Deliver(r) PROVE (\A q \in queries' : QueryOK(q)) /\ pc' = "idle"
  <2>1. CASE queries' = queries
    BY <1>1, <1>4, <2>1 DEF Deliver
  <2>2. CASE queries' = queries \cup {Query(Len(taken) + 1, r)}
    BY <1>1, <1>2, <1>4, <2>2 DEF Deliver
  <2>3. CASE \E q \in queries : Takes(q, r)
    BY <1>1, <1>3, <1>4, <2>3 DEF Deliver, Takes
  <2> QED
    BY <1>4, <2>1, <2>2, <2>3 DEF Deliver
<1>5. ASSUME NEW r, Pass(r) PROVE (\A q \in queries' : QueryOK(q)) /\ (serr' = TRUE \/ serr' = serr) /\ (pc' = "idle" \/ pc' = pc)
  BY <1>1, <1>4, <1>5 DEF Pass
<1>6. ASSUME PassEnd PROVE (\A q \in queries' : QueryOK(q)) /\ (serr' = TRUE \/ serr' = serr) /\ (pc' = "idle" \/ pc' = pc)
  <2>1. ASSUME NEW q \in queries, Takes(q, <<"end">>) PROVE \A x \in queries' : QueryOK(x)
    BY <1>1, <1>3, <2>1 DEF Takes
  <2> QED
    BY <1>1, <1>4, <1>6, <2>1 DEF PassEnd
<1> QED
  BY <1>5, <1>6 DEF InputsTypeOK

Inductive ==
    /\ InputsTypeOK
    /\ open = {file} \ {None, Stdin}
    /\ pc = "closed" => file = None

LEMMA InductiveInit == InputsInit => Inductive
<1> SUFFICES ASSUME InputsInit PROVE Inductive
  OBVIOUS
<1>1. PICK a \in ArgLists, k \in Kinds, s \in BOOLEAN, n \in BOOLEAN : InputsStart(a, k, s, n)
  BY DEF InputsInit
<1>2. args \in ArgLists /\ kind \in Kinds /\ fnames \in Seq(DOMAIN Content)
  BY <1>1, InputsAssumption DEF InputsStart
<1>3. {slurp, null, ferr, serr, stdin} \subseteq BOOLEAN
  <2>1. slurp = s /\ null = n /\ ferr = FALSE /\ serr = FALSE /\ stdin = FALSE
    BY <1>1 DEF InputsStart
  <2> QED
    BY <2>1
<1>4. file = None /\ open = {} /\ pc = "idle"
  BY <1>1 DEF InputsStart
<1>5. \A q \in queries : QueryOK(q)
  BY <1>1 DEF InputsStart, Query, QueryOK
<1> QED
  BY <1>2, <1>3, <1>4, <1>5 DEF Inductive, InputsTypeOK, QueryOK

LEMMA InductiveStep == Inductive /\ [InputsNext]_fileVars => Inductive'
<1> SUFFICES ASSUME Inductive, [InputsNext]_fileVars PROVE Inductive'
  OBVIOUS
<1> USE DEF Inductive
<1>0. /\ \A q \in queries : QueryOK(q)
      /\ fnames # <<>> => Head(fnames) \in DOMAIN Content /\ Tail(fnames) \in Seq(DOMAIN Content)
      /\ None \notin DOMAIN Content
  BY InputsAssumption DEF InputsTypeOK, QueryOK
<1>1. ASSUME CallNext PROVE Inductive'
  BY <1>1 DEF CallNext, InputsTypeOK
<1>2. ASSUME OpenFile PROVE Inductive'
  <2>1. CASE ~Content[Head(fnames)].opens
    <3>1. Pass(OpenError(Head(fnames)))
      BY <1>2, <2>1 DEF OpenFile
    <3>2. (\A q \in queries' : QueryOK(q)) /\ serr' \in BOOLEAN /\ pc' \in {"idle", "files", "closed"}
      BY <3>1, CallerSteps
    <3>3. UNCHANGED <<args, kind, slurp, null, ferr, stdin, file, open>> /\ fnames' = Tail(fnames) /\ file = None
      BY <1>2, <2>1 DEF OpenFile
    <3> QED
      BY <1>0, <1>2, <3>2, <3>3 DEF OpenFile, InputsTypeOK, QueryOK
  <2>2. CASE Content[Head(fnames)].opens
    <3>1. /\ file' = Head(fnames) /\ file = None /\ pc' = "files" /\ fnames' = Tail(fnames)
          /\ open' = (IF Head(fnames) = Stdin THEN open ELSE open \cup {Head(fnames)})
          /\ UNCHANGED <<args, kind, slurp, null, ferr, stdin, serr, queries>>
      BY <1>2, <2>2 DEF OpenFile
    <3> QED
      BY <1>0, <1>2, <3>1 DEF OpenFile, InputsTypeOK
  <2> QED
    BY <2>1, <2>2
<1>3. ASSUME NoFileLeft \/ NothingLeft PROVE Inductive'
  <2>1. (\A q \in queries' : QueryOK(q)) /\ serr' \in BOOLEAN /\ pc' \in {"idle", "files", "closed"}
    BY <1>3, CallerSteps DEF NoFileLeft, NothingLeft
  <2>2. ferr' = TRUE \/ ferr' = ferr
    BY <1>3 DEF NoFileLeft, NothingLeft
  <2>3. UNCHANGED <<args, kind, slurp, null, fnames, file, stdin, open>>
    BY <1>3 DEF NoFileLeft, NothingLeft
  <2>4. pc' # "closed"
    BY <1>3 DEF NoFileLeft, NothingLeft, PassEnd, Deliver
  <2> QED
    BY <2>1, <2>2, <2>3, <2>4 DEF InputsTypeOK, QueryOK
<1>4. ASSUME ReadNext PROVE Inductive'
  <2>1. (\A q \in queries' : QueryOK(q)) /\ serr' \in BOOLEAN /\ pc' \in {"idle", "files", "closed"}
    BY <1>4, CallerSteps DEF ReadNext
  <2>2. stdin' \in BOOLEAN
    BY <1>4 DEF ReadNext
  <2>3. UNCHANGED <<args, kind, slurp, null, fnames, file, ferr, open>>
    BY <1>4 DEF ReadNext
  <2>4. pc' # "closed"
    BY <1>4 DEF ReadNext, Pass, Deliver
  <2> QED
    BY <2>1, <2>2, <2>3, <2>4 DEF InputsTypeOK, QueryOK
<1>5. ASSUME CloseFile PROVE Inductive'
  <2>1. stdin' \in BOOLEAN
    BY <1>5 DEF CloseFile
  <2>2. UNCHANGED <<args, kind, slurp, null, fnames, ferr, serr, pc, queries>> /\ file' = None /\ open' = open \ {file}
    BY <1>5 DEF CloseFile
  <2> QED
    BY <2>1, <2>2 DEF InputsTypeOK
<1>6. ASSUME NEW q \in queries, AskName(q) \/ GetName(q) \/ EndQuery(q) PROVE Inductive'
  <2> DEFINE Kept == UNCHANGED <<args, kind, slurp, null, fnames, file, ferr, serr, stdin, open, pc>>
             Fine == \A x \in queries' : QueryOK(x)
  <2>1. QueryOK([q EXCEPT !.pc = "naming"]) /\ \A x : QueryOK(Named(q, x))
    BY QueryBecomes, <1>0
  <2>2. ASSUME AskName(q) PROVE Fine /\ Kept
    <3>1. Kept
      BY <2>2 DEF AskName, Becomes
    <3>2. \/ queries' = (queries \ {q}) \cup {Named(q, "null")}
          \/ queries' = (queries \ {q}) \cup {[q EXCEPT !.pc = "naming"]}
      BY <2>2 DEF AskName, Becomes
    <3> QED
      BY <1>0, <2>1, <3>1, <3>2
  <2>3. ASSUME GetName(q) PROVE Fine /\ Kept
    <3>1. Kept
      BY <2>3 DEF GetName, Becomes
    <3>2. \E x : queries' = (queries \ {q}) \cup {Named(q, x)}
      BY <2>3 DEF GetName, Becomes
    <3> QED
      BY <1>0, <2>1, <3>1, <3>2
  <2>4. ASSUME EndQuery(q) PROVE Fine /\ Kept
    BY <1>0, <2>4 DEF EndQuery, Becomes
  <2>5. Fine /\ Kept
    BY <1>6, <2>2, <2>3, <2>4
  <2> QED
    BY <2>5 DEF InputsTypeOK, QueryOK
<1>7. ASSUME CloseInputs PROVE Inductive'
  <2>1. UNCHANGED <<args, kind, slurp, null, fnames, stdin>> /\ queries' = {} /\ pc' = "closed" /\ serr' = slurp
    BY <1>7 DEF CloseInputs
  <2>2. file' = None /\ open' = open \ {file} /\ ferr' \in BOOLEAN
    <3>1. CASE file # None
      BY <1>7, <3>1 DEF CloseInputs
    <3>2. CASE file = None
      BY <1>7, <3>2 DEF CloseInputs, InputsTypeOK
    <3> QED
      BY <3>1, <3>2
  <2> QED
    BY <2>1, <2>2 DEF InputsTypeOK
<1>8. ASSUME UNCHANGED fileVars PROVE Inductive'
  BY <1>8 DEF fileVars, InputsTypeOK
<1> QED
  BY <1>1, <1>2, <1>3, <1>4, <1>5, <1>6, <1>7, <1>8 DEF InputsNext

THEOREM InductiveHolds == InputsSpec => []Inductive
BY InductiveInit, InductiveStep, PTL DEF InputsSpec

\* The state of the iterators and of their callers stays within its types, for any files and any size of the pool.
THEOREM TypeCorrect == InputsSpec => []InputsTypeOK
<1>1. Inductive => InputsTypeOK
  BY DEF Inductive
<1> QED
  BY <1>1, InductiveHolds, PTL

\* No handle is left open behind the next file or behind Close (filesInputIter.Next and Close).
THEOREM HandlesClosedHolds == InputsSpec => []HandlesClosed
<1>1. Inductive => HandlesClosed
  BY DEF Inductive, HandlesClosed
<1> QED
  BY <1>1, InductiveHolds, PTL

-------------------------------------------------------------------------------
(* The loop, which has no workers: it runs one query at a time.            *)

Solo == Workers = 1

IterOK ==
    \/ iter = NoIter /\ args # <<>>
    \/ /\ iter = [name |-> iter.name, left |-> iter.left]
       /\ iter.name \in DOMAIN Content
       /\ iter.left \in Seq(ResultOf(iter.name))

OwnName(q) ==
    /\ q.own[1] \in Origin => q.seen = IF args = <<>> /\ null THEN "null" ELSE Shown(q.own[2])
    /\ q.own[1] = "null" => q.seen = "null"

\* What the state of the iterator says of a query: it is at the file of the input until the query asks for another one.
Reads(q) ==
    /\ pc = "files" => q.pc = "running"
    /\ q.own[1] = "null" => null
    /\ q.pc = "naming" => iter # NoIter
    /\ q.pc = "named" => OwnName(q)
    /\ pc = "idle" /\ q.pc # "named" =>
          /\ q.own[1] \in Origin => iter # NoIter /\ iter.name = q.own[2]
          /\ q.own[1] = "null" => args = <<>> \/ iter = NoIter

SoloInductive ==
    /\ IterOK
    /\ \A p, q \in queries : p = q
    /\ pc = "closed" => queries = {}
    /\ \A q \in queries : Reads(q)

LEMMA LoopWaits ==
    ASSUME Solo, \A p, q \in queries : p = q
    PROVE  LoopFree => queries = {}
<1> SUFFICES ASSUME LoopFree, NEW q \in queries PROVE FALSE
  OBVIOUS
<1>1. queries = {q}
  OBVIOUS
<1>2. Cardinality(queries) = 1
  BY <1>1, FS_Singleton
<1> QED
  BY <1>2 DEF LoopFree, Solo

\* The iterator after the step is where a result comes from, if it comes from a file.
FromIter(r) ==
    /\ r[1] # "null"
    /\ r[1] \in Origin => iter' # NoIter /\ iter'.name = r[2]

LEMMA TakerReads ==
    ASSUME Solo, Inductive, SoloInductive, pc = "files", pc' = "idle", UNCHANGED <<args, null>>,
           NEW r, FromIter(r),
           \/ queries' = queries /\ queries = {}
           \/ \E n : queries = {} /\ queries' = {Query(n, r)}
           \/ \E q \in queries : Takes(q, r)
    PROVE  (\A p, q \in queries' : p = q) /\ \A q \in queries' : Reads(q)'
<1>1. CASE queries' = {}
  BY <1>1
<1>2. CASE \E n : queries = {} /\ queries' = {Query(n, r)}
  <2>1. PICK n : queries' = {Query(n, r)}
    BY <1>2
  <2>2. Query(n, r).own = r /\ Query(n, r).pc = "running"
    BY DEF Query
  <2>3. Reads(Query(n, r))'
    BY <2>2 DEF Reads, FromIter
  <2> QED
    BY <2>1, <2>3
<1>3. CASE \E q \in queries : Takes(q, r)
  <2>1. PICK q \in queries : Takes(q, r)
    BY <1>3
  <2> DEFINE p == [q EXCEPT !.own = r]
  <2>2. queries' = {p}
    BY <2>1 DEF Takes, SoloInductive
  <2>3. QueryOK(q) /\ q.pc = "running"
    BY DEF Inductive, InputsTypeOK, QueryOK, SoloInductive, Reads
  <2>4. p.own = r /\ p.pc = "running"
    BY <2>3 DEF QueryOK
  <2>5. Reads(p)'
    BY <2>4 DEF Reads, FromIter
  <2> QED
    BY <2>2, <2>5
<1> QED
  BY <1>1, <1>2, <1>3

\* So it is with everything that a call of Next ends with.
LEMMA PassReads ==
    ASSUME Solo, Inductive, SoloInductive, pc = "files", UNCHANGED <<args, null>>,
           NEW r, FromIter(r), Pass(r) \/ Deliver(r)
    PROVE  (\A p, q \in queries' : p = q) /\ (\A q \in queries' : Reads(q)') /\ pc' # "closed"
<1>1. CASE Deliver(r)
  <2>1. pc' = "idle"
    BY <1>1 DEF Deliver
  <2>2. \/ queries' = queries /\ queries = {}
        \/ \E n : queries = {} /\ queries' = {Query(n, r)}
        \/ \E q \in queries : Takes(q, r)
    <3>1. CASE LoopFree
      <4>1. queries = {}
        BY <3>1, LoopWaits DEF SoloInductive
      <4>2. queries' = queries \/ queries' = queries \cup {Query(Len(taken) + 1, r)}
        BY <1>1, <3>1 DEF Deliver, Taker
      <4> QED
        BY <4>1, <4>2
    <3>2. CASE ~LoopFree
      BY <1>1, <3>2 DEF Deliver
    <3> QED
      BY <3>1, <3>2
  <2> QED
    BY <2>1, <2>2, TakerReads
<1>2. CASE UNCHANGED <<pc, queries>>
  BY <1>2 DEF SoloInductive, Reads
<1> QED
  BY <1>1, <1>2 DEF Pass

LEMMA PassEndReads ==
    ASSUME Solo, Inductive, SoloInductive, pc = "files", UNCHANGED <<args, null>>, PassEnd
    PROVE  (\A p, q \in queries' : p = q) /\ (\A q \in queries' : Reads(q)') /\ pc' # "closed"
<1>1. CASE ~slurp
  <2>1. FromIter(<<"end">>)
    BY DEF FromIter, Origin
  <2>2. \/ queries' = queries /\ queries = {}
        \/ \E q \in queries : Takes(q, <<"end">>)
    <3>1. CASE LoopFree
      BY <1>1, <3>1, LoopWaits DEF PassEnd, SoloInductive, Taker
    <3>2. CASE ~LoopFree
      BY <1>1, <3>2 DEF PassEnd
    <3> QED
      BY <3>1, <3>2
  <2>3. pc' = "idle"
    BY <1>1 DEF PassEnd
  <2> QED
    BY <2>1, <2>2, <2>3, TakerReads
<1>2. CASE slurp
  <2>1. FromIter(Slurped(vs))
    BY DEF FromIter, Slurped, Origin
  <2>2. Deliver(Slurped(vs))
    BY <1>2 DEF PassEnd
  <2> QED
    BY <2>1, <2>2, PassReads
<1> QED
  BY <1>1, <1>2 DEF Inductive, InputsTypeOK

LEMMA NoIterNames ==
    ASSUME IterOK, iter # NoIter
    PROVE  /\ iter = [name |-> iter.name, left |-> iter.left]
           /\ iter.name \in DOMAIN Content
           /\ iter.left \in Seq(ResultOf(iter.name))
BY DEF IterOK

\* The iterator on a file has that file's results.
LEMMA NewIterOK ==
    ASSUME NEW f \in DOMAIN Content
    PROVE  /\ NewIter(f) # NoIter
           /\ NewIter(f) = [name |-> NewIter(f).name, left |-> NewIter(f).left]
           /\ NewIter(f).name \in DOMAIN Content
           /\ NewIter(f).left \in Seq(ResultOf(NewIter(f).name))
<1>1. f # None
  BY InputsAssumption
<1> QED
  BY <1>1, ReadableTypes DEF NewIter, NoIter

LEMMA SoloInit == InputsInit => SoloInductive
<1> SUFFICES ASSUME InputsInit PROVE SoloInductive
  OBVIOUS
<1>1. PICK a \in ArgLists, k \in Kinds, s \in BOOLEAN, n \in BOOLEAN : InputsStart(a, k, s, n)
  BY DEF InputsInit
<1>2. IterOK
  <2>1. CASE args = <<>>
    <3>1. iter = NewIter(Stdin)
      BY <1>1, <2>1 DEF InputsStart
    <3> QED
      BY <3>1, NewIterOK, InputsAssumption DEF IterOK
  <2>2. CASE args # <<>>
    BY <1>1, <2>2 DEF InputsStart, IterOK
  <2> QED
    BY <2>1, <2>2
<1>3. pc = "idle" /\ queries = (IF null THEN {Query(0, <<"null">>)} ELSE {}) /\ (args = <<>> \/ iter = NoIter)
  BY <1>1 DEF InputsStart
<1>4. Query(0, <<"null">>).own = <<"null">> /\ Query(0, <<"null">>).pc = "running"
  BY DEF Query
<1>5. null => Reads(Query(0, <<"null">>))
  BY <1>3, <1>4 DEF Reads, Origin
<1> QED
  BY <1>2, <1>3, <1>5 DEF SoloInductive

LEMMA SoloStep == Solo /\ Inductive /\ SoloInductive /\ [InputsNext]_fileVars => SoloInductive'
<1> SUFFICES ASSUME Solo, Inductive, SoloInductive, [InputsNext]_fileVars PROVE SoloInductive'
  OBVIOUS
<1> DEFINE Apart == (\A p, q \in queries' : p = q) /\ (\A q \in queries' : Reads(q)') /\ pc' # "closed"
<1>1. ASSUME CallNext PROVE SoloInductive'
  <2>1. \A q \in queries : q.pc = "running"
    <3>1. CASE LoopFree
      BY <3>1, LoopWaits DEF SoloInductive
    <3>2. CASE \E q \in queries : Reading(q)
      BY <3>2 DEF Reading, SoloInductive
    <3> QED
      BY <1>1, <3>1, <3>2 DEF CallNext
  <2> QED
    BY <1>1, <2>1 DEF CallNext, SoloInductive, Reads, IterOK, OwnName
<1>2. ASSUME OpenFile PROVE SoloInductive'
  <2>1. Head(fnames) \in DOMAIN Content /\ args # <<>> /\ pc = "files" /\ UNCHANGED <<args, null>>
    BY <1>2 DEF OpenFile, Inductive, InputsTypeOK
  <2>2. CASE ~Content[Head(fnames)].opens
    <3>1. Pass(OpenError(Head(fnames))) /\ iter' = iter
      BY <1>2, <2>2 DEF OpenFile
    <3>2. FromIter(OpenError(Head(fnames)))
      BY DEF FromIter, OpenError, Origin
    <3>3. Apart
      BY <2>1, <3>1, <3>2, PassReads
    <3> QED
      BY <2>1, <3>1, <3>3 DEF SoloInductive, IterOK
  <2>3. CASE Content[Head(fnames)].opens
    <3>1. iter' = NewIter(Head(fnames)) /\ UNCHANGED <<args, null, pc, queries>>
      BY <1>2, <2>3 DEF OpenFile
    <3>2. IterOK'
      BY <2>1, <3>1, NewIterOK DEF IterOK
    <3>3. \A q \in queries : Reads(q)'
      BY <2>1, <3>1 DEF SoloInductive, Reads
    <3> QED
      BY <2>1, <3>1, <3>2, <3>3 DEF SoloInductive
  <2> QED
    BY <2>2, <2>3
<1>3. ASSUME NoFileLeft PROVE SoloInductive'
  <2>1. Apart
    BY <1>3, PassEndReads DEF NoFileLeft
  <2> QED
    BY <1>3, <2>1 DEF NoFileLeft, SoloInductive, IterOK
<1>4. ASSUME ReadNext PROVE SoloInductive'
  <2>1. pc = "files" /\ iter.left # <<>> /\ iter' = [iter EXCEPT !.left = Tail(@)] /\ UNCHANGED <<args, null>> /\ Pass(Head(iter.left))
    BY <1>4 DEF ReadNext
  <2>2. iter # NoIter
    BY <2>1 DEF NoIter
  <2>3. iter = [name |-> iter.name, left |-> iter.left] /\ iter.name \in DOMAIN Content /\ iter.left \in Seq(ResultOf(iter.name))
    BY <2>2, NoIterNames DEF SoloInductive
  <2>4. iter' = [name |-> iter.name, left |-> Tail(iter.left)]
    BY <2>1, <2>3
  <2>5. Tail(iter.left) \in Seq(ResultOf(iter.name)) /\ Head(iter.left) \in ResultOf(iter.name)
    BY <2>1, <2>3
  <2>6. FromIter(Head(iter.left))
    <3>1. iter'.name = iter.name /\ iter' # NoIter
      BY <2>3, <2>4, InputsAssumption DEF NoIter
    <3>2. Head(iter.left)[1] # "null"
      BY <2>5 DEF ResultOf, Value, Whole, ReadError
    <3> QED
      BY <2>5, <3>1, <3>2, ResultNames DEF FromIter
  <2>7. Apart
    BY <2>1, <2>6, PassReads
  <2>8. IterOK'
    BY <2>3, <2>4, <2>5 DEF IterOK
  <2> QED
    BY <2>7, <2>8 DEF SoloInductive
<1>5. ASSUME CloseFile PROVE SoloInductive'
  BY <1>5 DEF CloseFile, SoloInductive, Reads, IterOK, OwnName
<1>6. ASSUME NothingLeft PROVE SoloInductive'
  <2>1. Apart
    BY <1>6, PassEndReads DEF NothingLeft
  <2> QED
    BY <1>6, <2>1 DEF NothingLeft, SoloInductive, IterOK
<1>7. ASSUME NEW q \in queries, AskName(q) PROVE SoloInductive'
  <2>1. pc = "idle" /\ q.pc = "running" /\ QueryOK(q) /\ queries = {q} /\ Reads(q)
    BY <1>7 DEF AskName, Steps, Solo, SoloInductive, Inductive, InputsTypeOK, QueryOK
  <2>2. CASE iter = NoIter
    <3>1. queries' = {Named(q, "null")} /\ UNCHANGED <<args, null, iter, pc>>
      BY <1>7, <2>1, <2>2 DEF AskName, Becomes
    <3>2. Named(q, "null").own = q.own /\ Named(q, "null").pc = "named" /\ Named(q, "null").seen = "null"
      BY DEF Named
    <3>3. Reads(Named(q, "null"))'
      BY <2>1, <2>2, <3>1, <3>2 DEF Reads, OwnName
    <3> QED
      BY <2>1, <3>1, <3>3 DEF SoloInductive, IterOK
  <2>3. CASE iter # NoIter
    <3> DEFINE p == [q EXCEPT !.pc = "naming"]
    <3>1. queries' = {p} /\ UNCHANGED <<args, null, iter, pc>>
      BY <1>7, <2>1, <2>3 DEF AskName, Becomes
    <3>2. p.own = q.own /\ p.pc = "naming"
      BY <2>1 DEF QueryOK
    <3>3. Reads(p)'
      BY <2>1, <2>3, <3>1, <3>2 DEF Reads
    <3> QED
      BY <2>1, <3>1, <3>3 DEF SoloInductive, IterOK
  <2> QED
    BY <2>2, <2>3
<1>8. ASSUME NEW q \in queries, GetName(q) PROVE SoloInductive'
  <2>1. pc = "idle" /\ q.pc = "naming" /\ queries = {q} /\ Reads(q) /\ iter # NoIter
    BY <1>8 DEF GetName, Steps, Solo, SoloInductive, Reads
  <2> DEFINE p == Named(q, IF args = <<>> /\ null THEN "null" ELSE Shown(iter.name))
  <2>2. queries' = {p} /\ UNCHANGED <<args, null, iter, pc>>
    <3>1. CASE args = <<>> /\ null
      BY <1>8, <2>1, <3>1 DEF GetName, Becomes
    <3>2. CASE ~(args = <<>> /\ null)
      BY <1>8, <2>1, <3>2 DEF GetName, Becomes
    <3> QED
      BY <3>1, <3>2
  <2>3. p.own = q.own /\ p.pc = "named" /\ p.seen = IF args = <<>> /\ null THEN "null" ELSE Shown(iter.name)
    BY DEF Named
  <2>4. q.own[1] = "null" => args = <<>> /\ null
    BY <2>1 DEF Reads
  <2>5. q.own[1] \in Origin => iter.name = q.own[2]
    BY <2>1 DEF Reads
  <2>6. Reads(p)'
    BY <2>1, <2>2, <2>3, <2>4, <2>5 DEF Reads, OwnName, Shown
  <2> QED
    BY <2>1, <2>2, <2>6 DEF SoloInductive, IterOK
<1>9. ASSUME NEW q \in queries, EndQuery(q) PROVE SoloInductive'
  BY <1>9 DEF EndQuery, Becomes, SoloInductive, Reads, IterOK, OwnName
<1>10. ASSUME CloseInputs PROVE SoloInductive'
  <2>1. queries' = {} /\ UNCHANGED <<args, iter>>
    BY <1>10 DEF CloseInputs
  <2> QED
    BY <2>1 DEF SoloInductive, IterOK
<1>11. ASSUME UNCHANGED fileVars PROVE SoloInductive'
  BY <1>11 DEF fileVars, SoloInductive, Reads, IterOK, OwnName
<1> QED
  BY <1>1, <1>2, <1>3, <1>4, <1>5, <1>6, <1>7, <1>8, <1>9, <1>10, <1>11 DEF InputsNext

\* Without a pool, input_filename is the name of the file that the query's input comes from, also when the query has
\* taken further inputs itself, and after errors and at the end of files.
THEOREM NamesOwnFileHolds == ASSUME Workers = 1 PROVE InputsSpec => []NamesOwnFile
<1>1. InputsInit => SoloInductive
  BY SoloInit
<1>2. Inductive /\ SoloInductive /\ [InputsNext]_fileVars => SoloInductive'
  BY SoloStep DEF Solo
<1>3. SoloInductive => NamesOwnFile
  <2> SUFFICES ASSUME SoloInductive, NEW q \in queries, q.pc = "named"
               PROVE  /\ q.own[1] \in Origin => q.seen = IF args = <<>> /\ null THEN "null" ELSE Shown(q.own[2])
                      /\ q.own[1] = "null" => q.seen = "null"
    BY DEF NamesOwnFile, Origin
  <2> QED
    BY DEF SoloInductive, Reads, OwnName
<1> QED
  BY <1>1, <1>2, <1>3, InductiveHolds, PTL DEF InputsSpec

-------------------------------------------------------------------------------
(* The order of the inputs.                                                *)

AnyResult == UNION {ResultOf(f) \cup {OpenError(f)} : f \in DOMAIN Content}

\* What the first k arguments yield.
Upto(k) == FlattenSeq([i \in 1 .. k |-> Yields(i)])

Opened   == Len(args) - Len(fnames)
Reached  == IF args = <<>> THEN Yielded ELSE Upto(Opened)
Reads1   == args = <<>> \/ file # None
Pending  == IF Reads1 THEN iter.left ELSE <<>>
Consumed == IF slurp THEN vs ELSE taken

NoErrors(s) == \A i \in DOMAIN s : ~IsError(s[i])

StdinAmong(k) == \E i \in 1 .. k : args[i] = Stdin

\* The files that are left are those after the one that is read, and standard input is at its end
\* behind the first argument that names it.
FilesLeft ==
    /\ Opened \in 0 .. Len(args)
    /\ fnames = SubSeq(args, Opened + 1, Len(args))
    /\ file # None => Opened # 0 /\ file = args[Opened]
    /\ ferr /\ pc # "closed" => args # <<>> /\ fnames = <<>> /\ file = None

StdinOnce ==
    Content[Stdin].opens /\ args # <<>> =>
        /\ StdinAmong(Opened - 1) => stdin
        /\ stdin => StdinAmong(Opened)
        /\ file = None /\ pc # "closed" /\ StdinAmong(Opened) => stdin

IterReads == iter = [name |-> iter.name, left |-> iter.left] /\ iter.left \in Seq(AnyResult)

Queue == FilesLeft /\ StdinOnce /\ (Reads1 => IterReads)

\* What has been taken and what the current file still has are what the arguments so far yield.
Held ==
    /\ vs \in Seq(AnyResult)
    /\ slurp => taken = <<>> /\ NoErrors(vs)
    /\ ~slurp => taken \in Seq(AnyResult)

Sums ==
    /\ Held
    /\ slurp /\ pc = "idle" => vs = <<>>
    /\ Consumed \o Pending = Reached

Counts ==
    /\ pc = "closed" => IsPrefix(taken, Expected)
    /\ pc = "files" => ~serr
    /\ pc # "closed" /\ serr => slurp /\ taken = Expected
    /\ pc # "closed" /\ ~serr => Sums

Order == Queue /\ Counts

\* Sequences one after the other are put together step by step.
Joining(T, n, y) == [k \in 1 .. n |-> [s \in Seq(T) |-> s \o y[k]]]

Joins(g, T, n, y) ==
    /\ g \in [0 .. n -> Seq(T)] /\ g[0] = <<>>
    /\ \A k \in 1 .. n : g[k - 1] \in Seq(T) /\ g[k] = g[k - 1] \o y[k]

LEMMA JoiningPath ==
    ASSUME NEW T, NEW n \in Nat, NEW y, NEW g, g \in Paths(Seq(T), <<>>, n, Joining(T, n, y))
    PROVE  Joins(g, T, n, y)
<1>1. /\ g \in [0 .. n -> Seq(T)] /\ g[0] = <<>>
      /\ \A k \in 1 .. n : g[k] = Joining(T, n, y)[k][g[k - 1]]
  BY DEF Paths
<1>2. \A k \in 1 .. n : k - 1 \in 0 .. n
  OBVIOUS
<1>3. \A k \in 1 .. n : g[k - 1] \in Seq(T)
  BY <1>1, <1>2
<1>4. \A k \in 1 .. n : \A s \in Seq(T) : Joining(T, n, y)[k][s] = s \o y[k]
  BY DEF Joining
<1> QED
  BY <1>1, <1>3, <1>4 DEF Joins

LEMMA FlattenIs ==
    ASSUME NEW T, NEW n \in Nat, NEW y \in [1 .. n -> Seq(T)], NEW g, Joins(g, T, n, y)
    PROVE  FlattenSeq(y) = g[n]
<1>1. y \in Seq(Seq(T)) /\ Len(y) = n
  OBVIOUS
<1>2. g[0] = <<>> /\ \A k \in 1 .. n : g[k - 1] \in Seq(T) /\ g[k] = g[k - 1] \o y[k]
  BY DEF Joins
<1>3. CASE n = 0
  BY <1>1, <1>2, <1>3 DEF FlattenSeq
<1>4. CASE n # 0
  <2> DEFINE flatten == CHOOSE f : f = [i \in 1 .. Len(y) |-> IF i = 1 THEN y[i] ELSE f[i - 1] \o y[i]]
  <2>1. FlattenSeq(y) = flatten[Len(y)]
    BY <1>1, <1>4, Zenon DEF FlattenSeq
  <2> DEFINE h == [i \in 1 .. n |-> g[i]]
  <2>2. h = [i \in 1 .. Len(y) |-> IF i = 1 THEN y[i] ELSE h[i - 1] \o y[i]]
    <3>1. ASSUME NEW i \in 1 .. n PROVE h[i] = IF i = 1 THEN y[i] ELSE h[i - 1] \o y[i]
      <4>1. CASE i = 1
        <5>1. 1 \in 1 .. n /\ 1 - 1 = 0
          BY <4>1
        <5>2. g[1] = <<>> \o y[1] /\ y[1] \in Seq(T)
          BY <1>2, <5>1
        <5>3. <<>> \o y[1] = y[1]
          BY <5>2
        <5> QED
          BY <4>1, <5>2, <5>3
      <4>2. CASE i # 1
        <5>1. i - 1 \in 1 .. n
          BY <4>2
        <5> QED
          BY <1>2, <4>2, <5>1
      <4> QED
        BY <4>1, <4>2
    <3> HIDE DEF h
    <3>2. h = [i \in 1 .. n |-> IF i = 1 THEN y[i] ELSE h[i - 1] \o y[i]]
      <4>1. h = [i \in 1 .. n |-> h[i]]
        BY DEF h
      <4> QED
        BY <3>1, <4>1
    <3> QED
      BY <1>1, <3>2
  <2> HIDE DEF h
  <2>3. flatten = [i \in 1 .. Len(y) |-> IF i = 1 THEN y[i] ELSE flatten[i - 1] \o y[i]]
    BY <2>2, Zenon
  <2> HIDE DEF flatten
  <2> DEFINE f == [i \in 0 .. n |-> IF i = 0 THEN <<>> ELSE flatten[i]]
  <2>4. f[0] = g[0]
    BY <1>2
  <2>5. \A k \in 1 .. n : f[k - 1] = g[k - 1] => f[k] = g[k]
    <3> SUFFICES ASSUME NEW k \in 1 .. n, f[k - 1] = g[k - 1] PROVE f[k] = g[k]
      OBVIOUS
    <3>1. f[k] = flatten[k] /\ flatten[k] = IF k = 1 THEN y[k] ELSE flatten[k - 1] \o y[k]
      <4>1. k \in 0 .. n /\ k # 0 /\ k \in 1 .. Len(y)
        BY <1>1
      <4>2. flatten[k] = IF k = 1 THEN y[k] ELSE flatten[k - 1] \o y[k]
        BY <2>3, <4>1
      <4> QED
        BY <4>1, <4>2
    <3>2. CASE k = 1
      <4>1. 1 \in 1 .. n /\ 1 - 1 = 0
        BY <3>2
      <4>2. g[1] = <<>> \o y[1] /\ y[1] \in Seq(T)
        BY <1>2, <4>1
      <4>3. <<>> \o y[1] = y[1]
        BY <4>2
      <4> QED
        BY <3>1, <3>2, <4>2, <4>3
    <3>3. CASE k # 1
      <4>1. k - 1 \in 1 .. n /\ f[k - 1] = flatten[k - 1]
        BY <3>3
      <4> QED
        BY <1>2, <3>1, <3>3, <4>1
    <3> QED
      BY <3>2, <3>3
  <2>6. \A k \in 0 .. n : f[k] = g[k]
    <3> HIDE DEF f
    <3>1. Alike(f, g, n)
      BY <2>4, <2>5 DEF Alike
    <3> QED
      BY <3>1, SameSteps
  <2>7. n \in 0 .. n /\ f[n] = flatten[n]
    BY <1>4
  <2> QED
    BY <1>1, <2>1, <2>6, <2>7
<1> QED
  BY <1>3, <1>4

\* What the first parts of a sequence of sequences flatten to, part by part.
FirstParts(T, n, y) ==
    /\ \A k \in 0 .. n : FlattenSeq([i \in 1 .. k |-> y[i]]) \in Seq(T)
    /\ FlattenSeq([i \in 1 .. 0 |-> y[i]]) = <<>>
    /\ \A k \in 1 .. n : FlattenSeq([i \in 1 .. k |-> y[i]])
                             = FlattenSeq([i \in 1 .. k - 1 |-> y[i]]) \o y[k]

LEMMA FlattenSteps ==
    ASSUME NEW T, NEW n \in Nat, NEW y \in [1 .. n -> Seq(T)]
    PROVE  FirstParts(T, n, y)
<1> DEFINE step == Joining(T, n, y)
           Part(k) == [i \in 1 .. k |-> y[i]]
<1>1. step \in StepsOn(Seq(T), n)
  <2>1. \A k \in 1 .. n : y[k] \in Seq(T)
    OBVIOUS
  <2>2. \A k \in 1 .. n : \A s \in Seq(T) : s \o y[k] \in Seq(T)
    BY <2>1
  <2> QED
    BY <2>2 DEF StepsOn, Joining
<1>2. <<>> \in Seq(T)
  OBVIOUS
<1>3. PICK g : g \in Paths(Seq(T), <<>>, n, step)
  <2> HIDE DEF step
  <2> QED
    BY <1>1, <1>2, StepsExist
<1>4. Joins(g, T, n, y)
  <2> HIDE DEF step
  <2> QED
    BY <1>3, JoiningPath DEF step
<1>5. ASSUME NEW k \in 0 .. n PROVE FlattenSeq(Part(k)) = g[k]
  <2> DEFINE h == [i \in 0 .. k |-> g[i]]
  <2>1. Part(k) \in [1 .. k -> Seq(T)] /\ k \in Nat
    OBVIOUS
  <2>2. Joins(h, T, k, Part(k))
    <3>1. h \in [0 .. k -> Seq(T)] /\ h[0] = <<>>
      BY <1>4 DEF Joins
    <3>2. ASSUME NEW j \in 1 .. k PROVE h[j - 1] \in Seq(T) /\ h[j] = h[j - 1] \o Part(k)[j]
      <4>1. j \in 1 .. n /\ j \in 0 .. k /\ j - 1 \in 0 .. k
        OBVIOUS
      <4>2. g[j - 1] \in Seq(T) /\ g[j] = g[j - 1] \o y[j]
        BY <1>4, <4>1 DEF Joins
      <4>3. h[j] = g[j] /\ h[j - 1] = g[j - 1] /\ Part(k)[j] = y[j]
        BY <4>1
      <4> QED
        BY <4>2, <4>3
    <3> HIDE DEF h, Part
    <3> QED
      BY <3>1, <3>2 DEF Joins
  <2>3. h[k] = g[k]
    OBVIOUS
  <2> HIDE DEF h, Part
  <2> QED
    BY <2>1, <2>2, <2>3, FlattenIs
<1>6. 0 \in 0 .. n /\ \A k \in 1 .. n : k \in 0 .. n /\ k - 1 \in 0 .. n
  OBVIOUS
<1>7. \A k \in 0 .. n : FlattenSeq(Part(k)) \in Seq(T)
  BY <1>4, <1>5 DEF Joins
<1>8. FlattenSeq(Part(0)) = <<>>
  BY <1>4, <1>5, <1>6 DEF Joins
<1>9. \A k \in 1 .. n : FlattenSeq(Part(k)) = FlattenSeq(Part(k - 1)) \o y[k]
  BY <1>4, <1>5, <1>6 DEF Joins
<1> QED
  BY <1>7, <1>8, <1>9 DEF FirstParts

-------------------------------------------------------------------------------
(* What the arguments yield.                                               *)

LEMMA ResultsTypes ==
    ASSUME NEW f \in DOMAIN Content, NEW k
    PROVE  Results(f, k) \in Seq(AnyResult)
<1>1. Content[f].values \in Nat
  BY InputsAssumption
<1>2. /\ \A n \in Nat : Value(f, n) \in AnyResult
      /\ Whole(f) \in AnyResult /\ ReadError(f) \in AnyResult
  BY DEF ResultOf, AnyResult
<1>3. [n \in 1 .. Content[f].values |-> Value(f, n)] \in Seq(AnyResult)
  BY <1>1, <1>2
<1>4. <<ReadError(f)>> \in Seq(AnyResult) /\ <<Whole(f)>> \in Seq(AnyResult) /\ <<>> \in Seq(AnyResult)
  BY <1>2
<1>5. \A e \in Seq(AnyResult) : [n \in 1 .. Content[f].values |-> Value(f, n)] \o e \in Seq(AnyResult)
  BY <1>3
<1> QED
  BY <1>4, <1>5 DEF Results

LEMMA ReadableAny ==
    ASSUME NEW f \in DOMAIN Content
    PROVE  Readable(f) \in Seq(AnyResult)
<1>1. <<"nothing">> \in AnyResult
  BY DEF ResultOf, AnyResult
<1>2. <<<<"nothing">>>> \in Seq(AnyResult) /\ <<>> \in Seq(AnyResult)
  BY <1>1
<1> QED
  BY <1>2, ResultsTypes DEF Readable

LEMMA YieldsTypes ==
    ASSUME NEW i, args[i] \in DOMAIN Content
    PROVE  Yields(i) \in Seq(AnyResult)
<1>1. <<"nothing">> \in AnyResult /\ OpenError(args[i]) \in AnyResult
  BY DEF ResultOf, AnyResult
<1>2. <<<<"nothing">>>> \in Seq(AnyResult) /\ <<>> \in Seq(AnyResult) /\ <<OpenError(args[i])>> \in Seq(AnyResult)
  BY <1>1
<1> QED
  BY <1>2, ResultsTypes DEF Yields

LEMMA UptoSteps ==
    ASSUME args \in Seq(DOMAIN Content)
    PROVE  /\ \A k \in 0 .. Len(args) : Upto(k) \in Seq(AnyResult)
           /\ Upto(0) = <<>>
           /\ \A k \in 1 .. Len(args) : Upto(k) = Upto(k - 1) \o Yields(k)
           /\ args # <<>> => Yielded = Upto(Len(args))
<1> DEFINE n == Len(args)
           y == [i \in 1 .. n |-> Yields(i)]
           Part(k) == [i \in 1 .. k |-> y[i]]
<1>1. n \in Nat /\ DOMAIN args = 1 .. n
  OBVIOUS
<1>2. y \in [1 .. n -> Seq(AnyResult)]
  BY YieldsTypes
<1>3. \A k \in 0 .. n : Part(k) = [i \in 1 .. k |-> Yields(i)]
  <2> SUFFICES ASSUME NEW k \in 0 .. n PROVE Part(k) = [i \in 1 .. k |-> Yields(i)]
    OBVIOUS
  <2>1. \A i \in 1 .. k : y[i] = Yields(i)
    BY <1>1
  <2> HIDE DEF y
  <2> QED
    BY <2>1
<1>4. \A k \in 0 .. n : Upto(k) = FlattenSeq(Part(k))
  BY <1>3 DEF Upto
<1>5. \A k \in 1 .. n : y[k] = Yields(k) /\ k \in 0 .. n /\ k - 1 \in 0 .. n
  BY <1>1
<1>6. 0 \in 0 .. n
  BY <1>1
<1>7. args # <<>> => Yielded = Upto(n)
  BY <1>1 DEF Yielded, Upto
<1>8. /\ \A k \in 0 .. n : FlattenSeq(Part(k)) \in Seq(AnyResult)
      /\ FlattenSeq(Part(0)) = <<>>
      /\ \A k \in 1 .. n : FlattenSeq(Part(k)) = FlattenSeq(Part(k - 1)) \o y[k]
  <2>1. FirstParts(AnyResult, n, y)
    <3> HIDE DEF y, n
    <3> QED
      BY <1>1, <1>2, FlattenSteps
  <2> QED
    BY <2>1 DEF FirstParts
<1> HIDE DEF y, n, Part
<1>9. \A k \in 0 .. n : Upto(k) \in Seq(AnyResult)
  BY <1>4, <1>8
<1>10. Upto(0) = <<>>
  BY <1>4, <1>6, <1>8
<1>11. \A k \in 1 .. n : Upto(k) = Upto(k - 1) \o Yields(k)
  BY <1>4, <1>5, <1>8
<1> QED
  BY <1>7, <1>9, <1>10, <1>11 DEF n

LEMMA Joined3 ==
    ASSUME NEW a \in Seq(AnyResult), NEW b \in Seq(AnyResult), NEW c \in Seq(AnyResult)
    PROVE  (a \o b) \o c = a \o (b \o c) /\ b \o c \in Seq(AnyResult)
BY ConcatAssociative, ConcatProperties, SMTT(60)

\* One sequence is the beginning of another one.
Begins(s, t) == \E more \in Seq(AnyResult) : t = s \o more

LEMMA BeginsJoined ==
    ASSUME NEW a \in Seq(AnyResult), NEW b \in Seq(AnyResult), NEW c \in Seq(AnyResult)
    PROVE  Begins(a, (a \o b) \o c)
<1>1. (a \o b) \o c = a \o (b \o c) /\ b \o c \in Seq(AnyResult)
  BY Joined3
<1> QED
  BY <1>1 DEF Begins

LEMMA BeginsPrefix ==
    ASSUME NEW s \in Seq(AnyResult), NEW t, Begins(s, t)
    PROVE  IsPrefix(s, t) /\ t \in Seq(AnyResult)
<1>1. PICK more \in Seq(AnyResult) : t = s \o more
  BY DEF Begins
<1>2. t \in Seq(AnyResult) /\ Len(s) <= Len(t) /\ Len(s) \in Nat /\ \A i \in 1 .. Len(s) : t[i] = s[i]
  BY <1>1
<1> DEFINE p == SubSeq(s, 1, Len(s))
           q == SubSeq(t, 1, Len(s))
<1>3. \A i \in 1 .. Len(s) : s[i] \in AnyResult /\ t[i] \in AnyResult
  BY <1>2
<1>4. p \in Seq(AnyResult) /\ Len(p) = Len(s) /\ \A i \in 1 .. Len(s) : p[i] = s[i]
  BY <1>2, <1>3
<1>5. q \in Seq(AnyResult) /\ Len(q) = Len(s) /\ \A i \in 1 .. Len(s) : q[i] = t[i]
  BY <1>2, <1>3
<1>6. p = q
  <2> HIDE DEF p, q
  <2> QED
    BY <1>2, <1>4, <1>5, SeqEqual
<1> QED
  BY <1>2, <1>6 DEF IsPrefix

LEMMA UptoBegins ==
    ASSUME args \in Seq(DOMAIN Content), args # <<>>, NEW k \in 0 .. Len(args)
    PROVE  Begins(Upto(k), Yielded)
<1> DEFINE n   == Len(args)
           Bad == {m \in k .. n : ~ Begins(Upto(k), Upto(m))}
<1>1. n \in Nat /\ \A m \in k .. n : m \in 0 .. n
  OBVIOUS
<1>2. Bad = {}
  <2> SUFFICES ASSUME Bad # {} PROVE FALSE
    OBVIOUS
  <2>1. Bad \subseteq Nat
    OBVIOUS
  <2>2. PICK m \in Bad : \A y \in Bad : m <= y
    BY <2>1, LeastExists
  <2>3. m \in k .. n /\ ~ Begins(Upto(k), Upto(m))
    OBVIOUS
  <2>4. CASE m = k
    <3>1. Upto(k) \in Seq(AnyResult)
      BY UptoSteps
    <3>2. Upto(k) = Upto(k) \o <<>> /\ <<>> \in Seq(AnyResult)
      BY <3>1
    <3> QED
      BY <2>3, <2>4, <3>2 DEF Begins
  <2>5. CASE m # k
    <3>1. m - 1 \in k .. n /\ m \in 1 .. n /\ ~ (m <= m - 1)
      BY <2>3, <2>5
    <3>2. Begins(Upto(k), Upto(m - 1))
      BY <2>2, <3>1
    <3>3. PICK more \in Seq(AnyResult) : Upto(m - 1) = Upto(k) \o more
      BY <3>2 DEF Begins
    <3>4. Upto(m) = Upto(m - 1) \o Yields(m)
      BY <3>1, UptoSteps
    <3>5. Yields(m) \in Seq(AnyResult)
      BY <3>1, YieldsTypes
    <3>6. Upto(k) \in Seq(AnyResult)
      BY UptoSteps
    <3>7. Begins(Upto(k), (Upto(k) \o more) \o Yields(m))
      BY <3>3, <3>5, <3>6, BeginsJoined, Zenon
    <3> QED
      BY <2>3, <3>3, <3>4, <3>7
  <2> QED
    BY <2>4, <2>5
<1>3. Begins(Upto(k), Upto(n))
  <2>1. n \in k .. n
    BY <1>1
  <2> QED
    BY <1>2, <2>1
<1> QED
  BY <1>3, UptoSteps

LEMMA BeginsItself ==
    ASSUME NEW s \in Seq(AnyResult)
    PROVE  Begins(s, s) /\ Begins(<<>>, s)
<1>1. s = s \o <<>> /\ s = <<>> \o s /\ <<>> \in Seq(AnyResult)
  OBVIOUS
<1> QED
  BY <1>1 DEF Begins

LEMMA BeginsMore ==
    ASSUME NEW s \in Seq(AnyResult), NEW u \in Seq(AnyResult), NEW t, Begins(s \o u, t)
    PROVE  Begins(s, t)
<1>1. PICK more \in Seq(AnyResult) : t = (s \o u) \o more
  BY DEF Begins
<1> QED
  BY <1>1, BeginsJoined, Zenon

\* Slurped inputs are one result: the first error, or the values.
LEMMA FirstError ==
    ASSUME slurp, NEW s \in Seq(AnyResult), NoErrors(s), NEW r \in AnyResult, IsError(r),
           Begins(Append(s, r), Yielded)
    PROVE  Expected = <<r>>
<1> DEFINE errors == {i \in DOMAIN Yielded : IsError(Yielded[i])}
           n      == Len(s) + 1
<1>1. PICK more \in Seq(AnyResult) : Yielded = Append(s, r) \o more
  BY DEF Begins
<1>2. /\ Yielded \in Seq(AnyResult) /\ n \in DOMAIN Yielded /\ Yielded[n] = r
      /\ \A i \in 1 .. Len(s) : i \in DOMAIN s /\ Yielded[i] = s[i]
  BY <1>1
<1>3. DOMAIN Yielded \subseteq Nat \ {0}
  BY <1>2
<1>4. errors \subseteq Nat /\ n \in errors
  BY <1>2, <1>3
<1>5. \A i \in errors : i >= n
  <2> SUFFICES ASSUME NEW i \in errors, ~ (i >= n) PROVE FALSE
    OBVIOUS
  <2>1. i \in 1 .. Len(s) /\ IsError(Yielded[i])
    BY <1>3
  <2> QED
    BY <1>2, <2>1 DEF NoErrors
<1> HIDE DEF errors
<1>6. Min(errors) \in errors /\ Min(errors) <= n
  BY <1>4, MinOf
<1>7. Min(errors) = n
  <2>1. n \in Nat /\ Min(errors) \in Nat
    BY <1>4, <1>6
  <2>2. Min(errors) >= n
    BY <1>5, <1>6
  <2> QED
    BY <1>6, <2>1, <2>2
<1>8. errors # {}
  BY <1>4
<1>9. Expected = <<Yielded[Min(errors)]>>
  BY <1>8 DEF Expected, errors
<1> QED
  BY <1>2, <1>7, <1>9

LEMMA AllValues ==
    ASSUME slurp, NEW s, NoErrors(s), s = Yielded
    PROVE  Expected = <<Slurped(s)>>
<1>1. {i \in DOMAIN Yielded : IsError(Yielded[i])} = {}
  BY DEF NoErrors
<1> QED
  BY <1>1 DEF Expected

-------------------------------------------------------------------------------
(* The steps.                                                              *)

Fixed == UNCHANGED <<args, kind, slurp>>

LEMMA SameExpected ==
    ASSUME Fixed
    PROVE  /\ Expected' = Expected
           /\ Yielded' = Yielded
           /\ \A k : Upto(k)' = Upto(k)
           /\ \A k : StdinAmong(k)' = StdinAmong(k)
<1>1. \A i : Yields(i)' = Yields(i)
  BY DEF Fixed, Yields, Results
<1>2. Yielded' = Yielded
  BY <1>1 DEF Fixed, Yielded, Results
<1>3. \A k : Upto(k)' = Upto(k)
  BY <1>1 DEF Upto
<1>4. Expected' = Expected
  BY <1>2 DEF Fixed, Expected
<1> QED
  BY <1>2, <1>3, <1>4 DEF Fixed, StdinAmong

LEMMA ArgsTyped == ASSUME InputsTypeOK PROVE args \in Seq(DOMAIN Content)
BY InputsAssumption DEF InputsTypeOK

LEMMA YieldedTyped ==
    ASSUME args \in Seq(DOMAIN Content)
    PROVE  Yielded \in Seq(AnyResult)
<1>1. CASE args = <<>>
  BY <1>1, ResultsTypes, InputsAssumption DEF Yielded
<1>2. CASE args # <<>>
  <2>1. Len(args) \in 0 .. Len(args)
    OBVIOUS
  <2> QED
    BY <1>2, <2>1, UptoSteps
<1> QED
  BY <1>1, <1>2

LEMMA ReachedBegins ==
    ASSUME args \in Seq(DOMAIN Content), FilesLeft
    PROVE  Reached \in Seq(AnyResult) /\ Begins(Reached, Yielded)
<1>1. CASE args = <<>>
  BY <1>1, YieldedTyped, BeginsItself DEF Reached
<1>2. CASE args # <<>>
  <2>1. Opened \in 0 .. Len(args) /\ Reached = Upto(Opened)
    BY <1>2 DEF FilesLeft, Reached
  <2> QED
    BY <1>2, <2>1, UptoSteps, UptoBegins
<1> QED
  BY <1>1, <1>2

\* A result that comes next is taken, collected, or ends the slurping.
Comes(r) == r \in AnyResult /\ Begins(Append(Consumed, r), Yielded)

Taken(r) ==
    /\ pc' # "closed"
    /\ pc' = "files" => ~serr'
    /\ serr' => slurp' /\ taken' = Expected'
    /\ ~serr' => /\ Held'
                 /\ slurp' => pc' # "idle"
                 /\ Consumed' = Append(Consumed, r)

LEMMA PassOrder ==
    ASSUME InputsTypeOK, Held, pc = "files", ~serr, Fixed, NEW r, Comes(r), Pass(r)
    PROVE  Taken(r)
<1>0. r \in AnyResult /\ slurp \in BOOLEAN
  BY DEF Comes, InputsTypeOK
<1>1. CASE ~slurp
  <2>1. taken' = Append(taken, r) /\ pc' = "idle" /\ UNCHANGED <<serr, vs>>
    BY <1>1 DEF Pass, Deliver
  <2>2. taken' \in Seq(AnyResult)
    BY <1>0, <1>1, <2>1 DEF Held
  <2> QED
    BY <1>1, <2>1, <2>2 DEF Taken, Held, Fixed, Consumed
<1>2. CASE slurp /\ IsError(r)
  <2>1. serr' = TRUE /\ taken' = Append(taken, r) /\ pc' = "idle"
    BY <1>2 DEF Pass, Deliver
  <2>2. taken' = <<r>>
    BY <1>2, <2>1 DEF Held
  <2>3. Expected = <<r>>
    BY <1>0, <1>2, FirstError DEF Held, Comes, Consumed
  <2> QED
    BY <1>2, <2>1, <2>2, <2>3, SameExpected DEF Taken, Fixed
<1>3. CASE slurp /\ ~IsError(r)
  <2>1. vs' = Append(vs, r) /\ UNCHANGED <<serr, pc, taken>>
    BY <1>3 DEF Pass
  <2>2. vs' \in Seq(AnyResult) /\ NoErrors(vs')
    BY <1>0, <1>3, <2>1 DEF Held, NoErrors
  <2> QED
    BY <1>3, <2>1, <2>2 DEF Taken, Held, Fixed, Consumed
<1> QED
  BY <1>0, <1>1, <1>2, <1>3

LEMMA PassEndOrder ==
    ASSUME InputsTypeOK, Held, pc = "files", ~serr, Fixed, Consumed = Yielded, PassEnd
    PROVE  /\ pc' = "idle"
           /\ serr' => slurp' /\ taken' = Expected'
           /\ ~serr' => Held' /\ ~slurp' /\ Consumed' = Consumed
<1>0. slurp \in BOOLEAN
  BY DEF InputsTypeOK
<1>1. CASE ~slurp
  <2>1. pc' = "idle" /\ UNCHANGED <<serr, vs, taken>>
    BY <1>1 DEF PassEnd
  <2> QED
    BY <1>1, <2>1 DEF Held, Fixed, Consumed
<1>2. CASE slurp
  <2>1. serr' = TRUE /\ taken' = Append(taken, Slurped(vs)) /\ pc' = "idle"
    BY <1>2 DEF PassEnd, Deliver
  <2>2. taken' = <<Slurped(vs)>>
    BY <1>2, <2>1 DEF Held
  <2>3. Expected = <<Slurped(vs)>>
    BY <1>2, AllValues DEF Held, Consumed
  <2> QED
    BY <1>2, <2>1, <2>2, <2>3, SameExpected DEF Fixed
<1> QED
  BY <1>0, <1>1, <1>2

LEMMA RestOfSeq ==
    ASSUME NEW T, NEW s \in Seq(T), NEW k \in 0 .. Len(s), NEW t, t = SubSeq(s, k + 1, Len(s)), t # <<>>
    PROVE  /\ k + 1 \in 1 .. Len(s)
           /\ Head(t) = s[k + 1]
           /\ Tail(t) = SubSeq(s, k + 2, Len(s))
           /\ Len(Tail(t)) = Len(t) - 1
           /\ Len(t) = Len(s) - k
<1>1. \A i \in k + 1 .. Len(s) : s[i] \in T
  OBVIOUS
<1>2. t \in Seq(T) /\ Len(t) = (IF k + 1 <= Len(s) THEN Len(s) - (k + 1) + 1 ELSE 0)
      /\ \A i \in 1 .. Len(s) - (k + 1) + 1 : t[i] = s[k + 1 + i - 1]
  BY <1>1, SubSeqProperties
<1>3. k + 1 <= Len(s) /\ Len(t) = Len(s) - k /\ \A i \in 1 .. Len(s) - k : t[i] = s[k + i]
  <2>1. Len(t) # 0
    BY <1>2
  <2> QED
    BY <1>2, <2>1
<1> DEFINE u == SubSeq(s, k + 2, Len(s))
<1>4. \A i \in k + 2 .. Len(s) : s[i] \in T
  OBVIOUS
<1>5. u \in Seq(T) /\ Len(u) = (IF k + 2 <= Len(s) THEN Len(s) - (k + 2) + 1 ELSE 0)
      /\ \A i \in 1 .. Len(s) - (k + 2) + 1 : u[i] = s[k + 2 + i - 1]
  BY <1>4, SubSeqProperties
<1>6. Len(u) = Len(s) - k - 1 /\ \A i \in 1 .. Len(s) - k - 1 : u[i] = s[k + 1 + i]
  <2>1. Len(s) \in Nat /\ k \in Nat /\ k + 1 <= Len(s)
    BY <1>3
  <2>2. Len(u) = Len(s) - k - 1
    BY <1>5, <2>1
  <2>3. Len(s) - (k + 2) + 1 = Len(s) - k - 1 /\ \A i \in 1 .. Len(s) - k - 1 : k + 2 + i - 1 = k + 1 + i
    BY <2>1
  <2> HIDE DEF u
  <2>4. ASSUME NEW i \in 1 .. Len(s) - k - 1 PROVE u[i] = s[k + 1 + i]
    <3>1. u[i] = s[k + 2 + i - 1]
      BY Zenon, <1>5, <2>3
    <3> QED
      BY <2>3, <3>1
  <2> QED
    BY <2>2, <2>4
<1>7. Tail(t) \in Seq(T) /\ Len(Tail(t)) = Len(s) - k - 1 /\ \A i \in 1 .. Len(s) - k - 1 : Tail(t)[i] = s[k + 1 + i]
  <2>1. Tail(t) \in Seq(T) /\ Len(Tail(t)) = Len(t) - 1 /\ \A i \in 1 .. Len(t) - 1 : Tail(t)[i] = t[i + 1]
    BY <1>2
  <2>2. \A i \in 1 .. Len(s) - k - 1 : t[i + 1] = s[k + 1 + i]
    BY <1>3
  <2> QED
    BY <1>3, <2>1, <2>2
<1> HIDE DEF u
<1>8. Tail(t) = u
  BY <1>5, <1>6, <1>7, SeqEqual
<1>9. Head(t) = s[k + 1]
  BY <1>2, <1>3
<1> QED
  BY <1>3, <1>7, <1>8, <1>9 DEF u

\* The consumed results and those that the file still has.
LEMMA SumsBegin ==
    ASSUME InputsTypeOK, Queue, Sums
    PROVE  /\ args \in Seq(DOMAIN Content)
           /\ Consumed \in Seq(AnyResult) /\ Pending \in Seq(AnyResult)
           /\ Reached \in Seq(AnyResult) /\ Begins(Reached, Yielded)
<1>1. args \in Seq(DOMAIN Content)
  BY ArgsTyped
<1>2. Reached \in Seq(AnyResult) /\ Begins(Reached, Yielded)
  BY <1>1, ReachedBegins DEF Queue
<1>3. Consumed \in Seq(AnyResult)
  BY DEF Sums, Held, Consumed, InputsTypeOK
<1>4. Pending \in Seq(AnyResult)
  <2>1. <<>> \in Seq(AnyResult)
    OBVIOUS
  <2> QED
    BY <2>1 DEF Pending, Queue, IterReads
<1> QED
  BY <1>1, <1>2, <1>3, <1>4

LEMMA StdinRead ==
    ASSUME FilesLeft, file = Stdin
    PROVE  StdinAmong(Opened)
<1>1. Opened # 0 /\ Opened \in 0 .. Len(args) /\ args[Opened] = Stdin
  BY InputsAssumption DEF FilesLeft
<1>2. Opened \in 1 .. Opened
  BY <1>1
<1> QED
  BY <1>1, <1>2 DEF StdinAmong

LEMMA ReadOrder ==
    ASSUME InputsTypeOK, Order, ReadNext
    PROVE  Order'
<1> DEFINE r    == Head(iter.left)
           more == Tail(iter.left)
<1>1. /\ pc = "files" /\ Reads1 /\ iter.left # <<>>
      /\ iter' = [iter EXCEPT !.left = Tail(@)]
      /\ stdin' = (stdin \/ args = <<>> \/ file = Stdin)
      /\ Pass(r)
      /\ UNCHANGED <<args, kind, slurp, fnames, file, ferr>>
  BY DEF ReadNext, Reads1
<1>2. ~serr /\ Sums /\ Held /\ Queue /\ Fixed
  BY <1>1 DEF Order, Counts, Sums, Fixed
<1>3. IterReads /\ FilesLeft /\ StdinOnce
  BY <1>1, <1>2 DEF Queue
<1>4. iter' = [name |-> iter.name, left |-> more]
  BY <1>1, <1>3 DEF IterReads
<1>5. r \in AnyResult /\ more \in Seq(AnyResult) /\ iter.left = <<r>> \o more
  BY <1>1, <1>3 DEF IterReads
<1>6. Consumed \in Seq(AnyResult) /\ Begins(Reached, Yielded)
  BY <1>2, SumsBegin
<1> HIDE DEF r, more
<1>7. Reached = Append(Consumed, r) \o more
  <2>1. Consumed \o (<<r>> \o more) = Append(Consumed, r) \o more
    BY <1>5, <1>6, SMTT(60)
  <2> QED
    BY <1>1, <1>2, <1>5, <2>1 DEF Sums, Pending
<1>8. Comes(r)
  <2>1. Append(Consumed, r) \in Seq(AnyResult)
    BY <1>5, <1>6
  <2>2. Begins(Append(Consumed, r) \o more, Yielded)
    BY <1>6, <1>7
  <2>3. Begins(Append(Consumed, r), Yielded)
    BY <1>5, <2>1, <2>2, BeginsMore
  <2> QED
    BY <1>5, <2>3 DEF Comes
<1>9. Taken(r)
  BY <1>1, <1>2, <1>8, PassOrder
<1>10. Reached' = Reached /\ Reads1'
  BY <1>1, <1>2, SameExpected DEF Reached, Opened, Reads1
<1>11. IterReads' /\ Pending' = more
  BY <1>4, <1>5, <1>10 DEF IterReads, Pending
<1>12. Queue'
  <2>1. FilesLeft'
    BY <1>1, <1>3 DEF FilesLeft, Opened
  <2>2. StdinOnce'
    <3>1. file = Stdin => StdinAmong(Opened)
      BY <1>3, StdinRead
    <3> QED
      BY <1>1, <1>2, <1>3, <3>1, SameExpected DEF StdinOnce, Opened
  <2> QED
    BY <1>11, <2>1, <2>2 DEF Queue
<1>13. Counts'
  BY <1>7, <1>9, <1>10, <1>11 DEF Counts, Sums, Taken
<1> QED
  BY <1>12, <1>13 DEF Order

\* The arguments up to the one that is opened next.
LEMMA NextArgument ==
    ASSUME args \in Seq(DOMAIN Content), FilesLeft, args # <<>>, fnames # <<>>, UNCHANGED args, fnames' = Tail(fnames)
    PROVE  /\ Opened \in 0 .. Len(args) /\ Opened + 1 \in 1 .. Len(args)
           /\ Opened' = Opened + 1
           /\ Head(fnames) = args[Opened + 1] /\ Head(fnames) \in DOMAIN Content
           /\ fnames' = SubSeq(args, Opened' + 1, Len(args))
           /\ Upto(Opened + 1) = Upto(Opened) \o Yields(Opened + 1)
           /\ StdinAmong(Opened + 1) <=> StdinAmong(Opened) \/ Head(fnames) = Stdin
<1> DEFINE k == Opened
<1>1. k \in 0 .. Len(args) /\ fnames = SubSeq(args, k + 1, Len(args))
  BY DEF FilesLeft
<1> HIDE DEF k
<1>2. /\ k + 1 \in 1 .. Len(args) /\ Head(fnames) = args[k + 1]
      /\ Tail(fnames) = SubSeq(args, k + 2, Len(args))
      /\ Len(Tail(fnames)) = Len(fnames) - 1 /\ Len(fnames) = Len(args) - k
  BY <1>1, RestOfSeq
<1>3. Opened' = k + 1
  BY <1>1, <1>2 DEF Opened
<1>4. Upto(k + 1) = Upto(k) \o Yields(k + 1)
  <2>1. \A j \in 1 .. Len(args) : Upto(j) = Upto(j - 1) \o Yields(j)
    BY UptoSteps
  <2>2. (k + 1) - 1 = k
    BY <1>1
  <2>3. Upto(k + 1) = Upto((k + 1) - 1) \o Yields(k + 1)
    BY <1>2, <2>1, Zenon
  <2> QED
    BY <2>2, <2>3
<1>5. StdinAmong(k + 1) <=> StdinAmong(k) \/ args[k + 1] = Stdin
  <2>1. \A i : i \in 1 .. k + 1 <=> i \in 1 .. k \/ i = k + 1
    BY <1>1, <1>2
  <2> QED
    BY <2>1 DEF StdinAmong
<1>6. k + 1 + 1 = k + 2
  BY <1>1
<1> QED
  BY <1>1, <1>2, <1>3, <1>4, <1>5, <1>6, SMTT(60) DEF k

LEMMA OpenOrder ==
    ASSUME InputsTypeOK, Order, OpenFile
    PROVE  Order'
<1> DEFINE f == Head(fnames)
           k == Opened
<1>1. /\ pc = "files" /\ args # <<>> /\ ~ferr /\ file = None /\ fnames # <<>>
      /\ fnames' = Tail(fnames)
      /\ UNCHANGED <<args, kind, slurp, null, ferr, stdin>>
  BY DEF OpenFile
<1>2. ~serr /\ Sums /\ Held /\ Queue /\ Fixed
  BY <1>1 DEF Order, Counts, Sums, Fixed
<1>3. FilesLeft /\ StdinOnce /\ ~Reads1
  BY <1>1, <1>2 DEF Queue, Reads1
<1>4. /\ args \in Seq(DOMAIN Content)
      /\ Consumed \in Seq(AnyResult)
  BY <1>2, SumsBegin
<1>5. /\ k \in 0 .. Len(args) /\ k + 1 \in 1 .. Len(args)
      /\ Opened' = k + 1
      /\ f = args[k + 1] /\ f \in DOMAIN Content
      /\ fnames' = SubSeq(args, Opened' + 1, Len(args))
      /\ Upto(k + 1) = Upto(k) \o Yields(k + 1)
      /\ StdinAmong(k + 1) <=> StdinAmong(k) \/ f = Stdin
  BY <1>1, <1>3, <1>4, NextArgument
<1> HIDE DEF f, k
<1>6. Consumed = Upto(k)
  <2>1. Pending = <<>> /\ Reached = Upto(k)
    BY <1>1, <1>3 DEF Pending, Reached, k
  <2> QED
    BY <1>2, <1>4, <2>1 DEF Sums
<1>7. Reached' = Upto(k) \o Yields(k + 1) /\ Reached' = Upto(k + 1)
  BY <1>1, <1>2, <1>5, SameExpected DEF Reached
<1>8. f # None /\ k + 1 # 0 /\ k + 1 - 1 = k
  BY <1>5, InputsAssumption
<1>9. CASE ~Content[f].opens
  <2>1. Pass(OpenError(f)) /\ UNCHANGED <<file, iter>>
    BY <1>9 DEF OpenFile, f
  <2>2. Yields(k + 1) = <<OpenError(f)>>
    BY <1>5, <1>9 DEF Yields
  <2>3. OpenError(f) \in AnyResult
    BY <1>5 DEF AnyResult
  <2>4. Reached' = Append(Consumed, OpenError(f))
    <3>1. Consumed \o <<OpenError(f)>> = Append(Consumed, OpenError(f))
      BY <1>4, <2>3
    <3> QED
      BY <1>6, <1>7, <2>2, <3>1
  <2>5. Comes(OpenError(f))
    <3>1. Begins(Upto(k + 1), Yielded)
      <4>1. k + 1 \in 0 .. Len(args)
        BY <1>5
      <4> QED
        BY <1>1, <1>4, <4>1, UptoBegins
    <3> QED
      BY <1>7, <2>3, <2>4, <3>1 DEF Comes
  <2>6. Taken(OpenError(f))
    BY <1>1, <1>2, <2>1, <2>5, PassOrder
  <2>7. ~Reads1' /\ Pending' = <<>>
    BY <1>1, <2>1 DEF Reads1, Pending
  <2>8. FilesLeft'
    <3>1. Opened' \in 0 .. Len(args')
      BY <1>1, <1>5
    <3>2. fnames' = SubSeq(args', Opened' + 1, Len(args'))
      BY <1>1, <1>5
    <3> QED
      BY <1>1, <2>1, <3>1, <3>2 DEF FilesLeft
  <2>9. StdinOnce'
    <3>1. Content[Stdin].opens => f # Stdin
      BY <1>9
    <3> QED
      BY <1>1, <1>2, <1>3, <1>5, <1>8, <2>1, <3>1, SameExpected DEF StdinOnce, k
  <2>10. Counts'
    <3>1. ~serr' => Consumed' \o Pending' = Reached'
      <4>1. Append(Consumed, OpenError(f)) \in Seq(AnyResult)
        BY <1>4, <2>3
      <4>2. Append(Consumed, OpenError(f)) \o <<>> = Append(Consumed, OpenError(f))
        BY <4>1
      <4> QED
        BY <2>4, <2>6, <2>7, <4>2 DEF Taken
    <3> QED
      BY <2>6, <3>1 DEF Counts, Sums, Taken
  <2> QED
    BY <2>7, <2>8, <2>9, <2>10 DEF Order, Queue
<1>10. CASE Content[f].opens
  <2>1. file' = f /\ iter' = NewIter(f) /\ UNCHANGED <<serr, vs, pc, taken>>
    BY <1>10 DEF OpenFile, f
  <2>2. iter' = [name |-> f, left |-> Readable(f)] /\ Readable(f) \in Seq(AnyResult)
    BY <1>5, <2>1, ReadableAny DEF NewIter
  <2>3. Readable(f) = Yields(k + 1)
    <3>1. f = Stdin => (stdin <=> StdinAmong(k))
      <4>1. stdin \in BOOLEAN
        BY DEF InputsTypeOK
      <4> QED
        BY <1>1, <1>3, <1>10, <4>1 DEF StdinOnce, k
    <3>2. StdinAmong(k) <=> \E j \in 1 .. (k + 1) - 1 : args[j] = Stdin
      <4>1. (k + 1) - 1 = k
        BY <1>5
      <4> QED
        BY <4>1 DEF StdinAmong
    <3> QED
      BY <1>5, <1>10, <3>1, <3>2 DEF Readable, Yields
  <2>4. Reads1' /\ IterReads' /\ Pending' = Readable(f)
    BY <1>8, <2>1, <2>2 DEF Reads1, IterReads, Pending
  <2>5. FilesLeft'
    <3>1. Opened' \in 0 .. Len(args')
      BY <1>1, <1>5
    <3>2. fnames' = SubSeq(args', Opened' + 1, Len(args'))
      BY <1>1, <1>5
    <3>3. Opened' # 0 /\ file' = args'[Opened']
      BY <1>1, <1>5, <1>8, <2>1
    <3> QED
      BY <1>1, <3>1, <3>2, <3>3 DEF FilesLeft
  <2>6. StdinOnce'
    BY <1>1, <1>2, <1>3, <1>5, <1>8, <2>1, SameExpected DEF StdinOnce, k
  <2>7. Held' /\ Consumed' = Consumed
    BY <1>1, <1>2, <2>1 DEF Held, Consumed
  <2>8. Consumed' \o Pending' = Reached'
    BY <1>6, <1>7, <2>3, <2>4, <2>7
  <2>9. Counts'
    BY <1>1, <1>2, <2>1, <2>7, <2>8 DEF Counts, Sums
  <2> QED
    BY <2>4, <2>5, <2>6, <2>9 DEF Order, Queue
<1> QED
  BY <1>9, <1>10

LEMMA CloseOrder ==
    ASSUME InputsTypeOK, Order, CloseFile
    PROVE  Order'
<1>1. /\ pc = "files" /\ file # None /\ iter.left = <<>> /\ file' = None
      /\ stdin' = (stdin \/ file = Stdin)
      /\ UNCHANGED <<args, kind, slurp, fnames, iter, ferr, serr, vs, pc, taken>>
  BY DEF CloseFile
<1>2. ~serr /\ Sums /\ Held /\ FilesLeft /\ StdinOnce /\ Fixed
  BY <1>1 DEF Order, Counts, Sums, Fixed, Queue
<1>3. args # <<>> /\ Opened # 0 /\ Opened \in 0 .. Len(args) /\ args[Opened] = file
  BY <1>1, <1>2 DEF FilesLeft
<1>4. Opened' = Opened /\ Reached' = Reached /\ ~Reads1' /\ Pending' = <<>> /\ Pending = <<>> /\ Consumed' = Consumed
  BY <1>1, <1>2, <1>3, SameExpected DEF Opened, Reached, Reads1, Pending, Consumed
<1>5. FilesLeft'
  BY <1>1, <1>2, <1>4 DEF FilesLeft
<1>6. StdinOnce'
  <2>1. StdinAmong(Opened) => StdinAmong(Opened - 1) \/ file = Stdin
    <3>1. \A i \in 1 .. Opened : i \in 1 .. Opened - 1 \/ i = Opened
      BY <1>3
    <3> QED
      BY <1>3, <3>1 DEF StdinAmong
  <2>2. StdinAmong(Opened - 1) => StdinAmong(Opened)
    <3>1. \A i \in 1 .. Opened - 1 : i \in 1 .. Opened
      BY <1>3
    <3> QED
      BY <3>1 DEF StdinAmong
  <2>3. file = Stdin => StdinAmong(Opened)
    BY <1>2, StdinRead
  <2> QED
    BY <1>1, <1>2, <1>4, <2>1, <2>2, <2>3, SameExpected DEF StdinOnce
<1>7. Counts'
  <2>1. Held' /\ Consumed' \o Pending' = Reached'
    BY <1>1, <1>2, <1>4 DEF Sums, Held
  <2> QED
    BY <1>1, <1>2, <2>1 DEF Counts, Sums
<1> QED
  BY <1>4, <1>5, <1>6, <1>7 DEF Order, Queue

LEMMA EndOrder ==
    ASSUME InputsTypeOK, Order, NoFileLeft \/ NothingLeft
    PROVE  Order'
<1>1. /\ pc = "files" /\ PassEnd
      /\ UNCHANGED <<args, kind, slurp, fnames, file, stdin>>
  BY DEF NoFileLeft, NothingLeft
<1>2. ~serr /\ Sums /\ Held /\ FilesLeft /\ StdinOnce /\ Fixed
  BY <1>1 DEF Order, Counts, Sums, Fixed, Queue
<1>3. \/ args # <<>> /\ fnames = <<>> /\ file = None
      \/ args = <<>> /\ iter.left = <<>>
  BY <1>1, <1>2 DEF NoFileLeft, NothingLeft, FilesLeft
<1>4. /\ args \in Seq(DOMAIN Content)
      /\ Consumed \in Seq(AnyResult)
  BY <1>2, SumsBegin DEF Order
<1>5. Pending = <<>>
  BY <1>3 DEF Pending, Reads1
<1>6. Consumed = Reached
  BY <1>2, <1>4, <1>5 DEF Sums
<1>7. Reached = Yielded
  <2>1. CASE args = <<>>
    BY <2>1 DEF Reached
  <2>2. CASE args # <<>>
    <3>1. Opened = Len(args)
      BY <1>3, <1>4, <2>2 DEF Opened
    <3> QED
      BY <1>4, <2>2, <3>1, UptoSteps DEF Reached
  <2> QED
    BY <2>1, <2>2
<1>8. /\ pc' = "idle"
      /\ serr' => slurp' /\ taken' = Expected'
      /\ ~serr' => Held' /\ ~slurp' /\ Consumed' = Consumed
  BY <1>1, <1>2, <1>6, <1>7, PassEndOrder
<1>9. ferr' => args # <<>> /\ fnames = <<>> /\ file = None
  BY <1>1, <1>2 DEF NoFileLeft, NothingLeft, FilesLeft
<1>10. iter' = iter \/ (iter' = NoIter /\ ~Reads1)
  <2>1. CASE NoFileLeft
    BY <2>1 DEF NoFileLeft, Reads1
  <2>2. CASE NothingLeft
    BY <2>2 DEF NothingLeft
  <2> QED
    BY <2>1, <2>2
<1>11. Opened' = Opened /\ Reached' = Reached /\ Reads1' = Reads1
  BY <1>1, <1>2, SameExpected DEF Opened, Reached, Reads1
<1>12. Pending' = <<>>
  BY <1>5, <1>10, <1>11 DEF Pending
<1>13. Queue'
  <2>1. FilesLeft'
    BY <1>1, <1>2, <1>9, <1>11 DEF FilesLeft
  <2>2. StdinOnce'
    BY <1>1, <1>2, <1>11, SameExpected DEF StdinOnce
  <2>3. Reads1' => IterReads'
    <3>1. Reads1' => iter' = iter /\ IterReads
      BY <1>10, <1>11 DEF Order, Queue
    <3> QED
      BY <3>1 DEF IterReads
  <2> QED
    BY <2>1, <2>2, <2>3 DEF Queue
<1>14. Counts'
  <2>1. ~serr' => Consumed' \o Pending' = Reached'
    BY <1>4, <1>6, <1>8, <1>11, <1>12
  <2> QED
    BY <1>8, <2>1 DEF Counts, Sums
<1> QED
  BY <1>13, <1>14 DEF Order

LEMMA OneResult ==
    ASSUME slurp
    PROVE  \E r : Expected = <<r>>
BY DEF Expected

\* What has been taken is the beginning of the inputs at any time.
LEMMA TakenPrefix ==
    ASSUME InputsTypeOK, Order
    PROVE  IsPrefix(taken, Expected)
<1>1. CASE pc = "closed"
  BY <1>1 DEF Order, Counts
<1>2. CASE pc # "closed" /\ serr
  <2>1. taken = Expected /\ slurp
    BY <1>2 DEF Order, Counts
  <2>2. PICK r : Expected = <<r>>
    BY <2>1, OneResult
  <2> QED
    BY <2>1, <2>2 DEF IsPrefix
<1>3. CASE pc # "closed" /\ ~serr /\ slurp
  <2>1. taken = <<>>
    BY <1>3 DEF Order, Counts, Sums, Held
  <2>2. PICK r : Expected = <<r>>
    BY <1>3, OneResult
  <2>3. SubSeq(<<>>, 1, 0) = <<>> /\ SubSeq(<<r>>, 1, 0) = <<>>
    OBVIOUS
  <2> QED
    BY <2>1, <2>2, <2>3 DEF IsPrefix
<1>4. CASE pc # "closed" /\ ~serr /\ ~slurp
  <2>1. Sums /\ Queue /\ Expected = Yielded /\ Consumed = taken
    BY <1>4 DEF Order, Counts, Expected, Consumed
  <2>2. Consumed \in Seq(AnyResult) /\ Pending \in Seq(AnyResult) /\ Begins(Reached, Yielded)
    BY <2>1, SumsBegin
  <2>3. Begins(Consumed \o Pending, Yielded)
    BY <2>1, <2>2 DEF Sums
  <2>4. Begins(Consumed, Yielded)
    BY <2>2, <2>3, BeginsMore
  <2> QED
    BY <2>1, <2>2, <2>4, BeginsPrefix
<1> QED
  BY <1>1, <1>2, <1>3, <1>4 DEF InputsTypeOK

\* Steps that touch neither the files nor what has been taken.
LEMMA OtherOrder ==
    ASSUME InputsTypeOK, Order,
           UNCHANGED <<args, kind, slurp, fnames, file, iter, ferr, serr, vs, stdin, pc, taken>>
    PROVE  Order'
<1>1. Fixed
  BY DEF Fixed
<1>2. /\ Opened' = Opened /\ Reached' = Reached /\ Reads1' = Reads1 /\ Pending' = Pending
      /\ Consumed' = Consumed /\ Expected' = Expected
      /\ \A k : StdinAmong(k)' = StdinAmong(k)
  BY <1>1, SameExpected DEF Opened, Reached, Reads1, Pending, Consumed
<1>3. FilesLeft'
  BY <1>2 DEF Order, Queue, FilesLeft
<1>4. StdinOnce'
  BY <1>2 DEF Order, Queue, StdinOnce
<1>5. Reads1' => IterReads'
  BY <1>2 DEF Order, Queue, IterReads
<1>6. Counts'
  BY <1>2 DEF Order, Counts, Sums, Held
<1> QED
  BY <1>3, <1>4, <1>5, <1>6 DEF Order, Queue

LEMMA CallOrder ==
    ASSUME InputsTypeOK, Order, CallNext
    PROVE  Order'
<1>1. /\ pc = "idle" /\ ~serr /\ pc' = "files" /\ vs' = <<>>
      /\ UNCHANGED <<args, kind, slurp, fnames, file, iter, ferr, serr, stdin, taken>>
  BY DEF CallNext
<1>2. Fixed /\ Sums /\ Held /\ (slurp => vs = <<>>)
  BY <1>1 DEF Order, Counts, Sums, Fixed
<1>3. /\ Opened' = Opened /\ Reached' = Reached /\ Reads1' = Reads1 /\ Pending' = Pending
      /\ Consumed' = Consumed
      /\ \A k : StdinAmong(k)' = StdinAmong(k)
  BY <1>1, <1>2, SameExpected DEF Opened, Reached, Reads1, Pending, Consumed
<1>4. FilesLeft' /\ StdinOnce' /\ (Reads1' => IterReads')
  BY <1>1, <1>3 DEF Order, Queue, FilesLeft, StdinOnce, IterReads
<1>5. Held'
  <2>1. <<>> \in Seq(AnyResult) /\ NoErrors(<<>>)
    BY DEF NoErrors
  <2> QED
    BY <1>1, <1>2, <2>1 DEF Held
<1>6. Counts'
  BY <1>1, <1>2, <1>3, <1>5 DEF Counts, Sums
<1> QED
  BY <1>4, <1>6 DEF Order, Queue

LEMMA CloseInputsOrder ==
    ASSUME InputsTypeOK, Order, CloseInputs
    PROVE  Order'
<1>1. /\ pc' = "closed"
      /\ file' = None
      /\ UNCHANGED <<args, kind, slurp, fnames, iter, stdin, taken>>
  BY DEF CloseInputs
<1>2. Fixed
  BY <1>1 DEF Fixed
<1>3. Opened' = Opened /\ (Reads1' => Reads1)
  BY <1>1 DEF Opened, Reads1
<1>4. FilesLeft' /\ StdinOnce' /\ (Reads1' => IterReads')
  BY <1>1, <1>2, <1>3, SameExpected DEF Order, Queue, FilesLeft, StdinOnce, IterReads
<1>5. Counts'
  BY <1>1, <1>2, TakenPrefix, SameExpected DEF Counts
<1> QED
  BY <1>4, <1>5 DEF Order, Queue

LEMMA OrderInit == InputsInit => Order
<1> SUFFICES ASSUME InputsInit PROVE Order
  OBVIOUS
<1>1. PICK a \in ArgLists, k \in Kinds, s \in BOOLEAN, n \in BOOLEAN : InputsStart(a, k, s, n)
  BY DEF InputsInit
<1>2. /\ fnames = args /\ file = None /\ stdin = FALSE
      /\ iter = (IF args = <<>> THEN NewIter(Stdin) ELSE NoIter)
      /\ ferr = FALSE /\ serr = FALSE /\ vs = <<>> /\ pc = "idle" /\ taken = <<>>
      /\ args \in Seq(DOMAIN Content)
  BY <1>1, InputsAssumption DEF InputsStart
<1>3. Opened = 0 /\ 0 \in 0 .. Len(args)
  BY <1>2 DEF Opened
<1>4. FilesLeft
  <2>1. args = SubSeq(args, 1, Len(args))
    <3>1. \A i \in 1 .. Len(args) : args[i] \in DOMAIN Content
      BY <1>2
    <3> DEFINE u == SubSeq(args, 1, Len(args))
    <3>2. u \in Seq(DOMAIN Content) /\ Len(u) = Len(args) /\ \A i \in 1 .. Len(args) : u[i] = args[i]
      BY <1>2, <3>1
    <3> HIDE DEF u
    <3>3. u = args
      BY <1>2, <3>2, SeqEqual
    <3> QED
      BY <3>3 DEF u
  <2>2. Opened + 1 = 1
    BY <1>3
  <2> QED
    BY <1>2, <1>3, <2>1, <2>2 DEF FilesLeft
<1>5. StdinOnce
  <2>1. ~StdinAmong(0)
    BY DEF StdinAmong
  <2>2. ~StdinAmong(0 - 1)
    BY DEF StdinAmong
  <2> QED
    BY <1>2, <1>3, <2>1, <2>2 DEF StdinOnce
<1>6. args = <<>> => iter = [name |-> Stdin, left |-> Results(Stdin, kind)] /\ Results(Stdin, kind) \in Seq(AnyResult)
  BY <1>2, ResultsTypes, InputsAssumption DEF NewIter, Readable
<1>7. Reads1 <=> args = <<>>
  BY <1>2 DEF Reads1
<1>8. Reads1 => IterReads
  BY <1>6, <1>7 DEF IterReads
<1>9. Held
  <2>1. <<>> \in Seq(AnyResult) /\ NoErrors(<<>>)
    BY DEF NoErrors
  <2> QED
    BY <1>2, <2>1 DEF Held
<1>10. Consumed \o Pending = Reached
  <2>1. Consumed = <<>>
    BY <1>2 DEF Consumed
  <2>2. CASE args = <<>>
    <3>1. Pending = Results(Stdin, kind) /\ Reached = Results(Stdin, kind)
      BY <1>6, <1>7, <2>2 DEF Pending, Reached, Yielded
    <3>2. <<>> \o Results(Stdin, kind) = Results(Stdin, kind)
      BY <1>6, <2>2
    <3> QED
      BY <2>1, <3>1, <3>2
  <2>3. CASE args # <<>>
    <3>1. Pending = <<>> /\ Reached = <<>>
      BY <1>2, <1>3, <1>7, <2>3, UptoSteps DEF Pending, Reached
    <3> QED
      BY <2>1, <3>1
  <2> QED
    BY <2>2, <2>3
<1>11. Counts
  BY <1>2, <1>9, <1>10 DEF Counts, Sums
<1> QED
  BY <1>4, <1>5, <1>8, <1>11 DEF Order, Queue

LEMMA OrderStep == InputsTypeOK /\ Order /\ [InputsNext]_fileVars => Order'
<1> SUFFICES ASSUME InputsTypeOK, Order, [InputsNext]_fileVars PROVE Order'
  OBVIOUS
<1>1. ASSUME NEW q \in queries, AskName(q) \/ GetName(q) \/ EndQuery(q) PROVE Order'
  <2>1. UNCHANGED <<args, kind, slurp, fnames, file, iter, ferr, serr, vs, stdin, pc, taken>>
    BY <1>1 DEF AskName, GetName, EndQuery, Becomes
  <2> QED
    BY <2>1, OtherOrder
<1>2. CASE UNCHANGED fileVars
  BY <1>2, OtherOrder DEF fileVars
<1> QED
  BY <1>1, <1>2, CallOrder, OpenOrder, EndOrder, ReadOrder, CloseOrder, CloseInputsOrder DEF InputsNext

\* Every value of every file that can be opened is taken once, in the order of the command line, by
\* whoever takes it, and all of them have been when Next has nothing more (filesInputIter.Next, the
\* slurping iterators), for any files, command lines and size of the pool.
THEOREM InputsInOrderHolds == InputsSpec => []InputsInOrder
<1>1. InputsTypeOK /\ Order => InputsInOrder
  <2> SUFFICES ASSUME InputsTypeOK, Order
               PROVE  /\ IsPrefix(taken, Expected)
                      /\ pc = "idle" /\ (serr \/ (~slurp /\ ferr)) => taken = Expected
    BY DEF InputsInOrder
  <2>1. IsPrefix(taken, Expected)
    BY TakenPrefix
  <2>2. ASSUME pc = "idle", ~serr, ~slurp, ferr PROVE taken = Expected
    <3>1. Sums /\ Queue /\ FilesLeft /\ Expected = Yielded /\ Consumed = taken
      BY <2>2 DEF Order, Queue, Counts, Expected, Consumed
    <3>2. args # <<>> /\ fnames = <<>> /\ file = None
      BY <2>2, <3>1 DEF FilesLeft
    <3>3. args \in Seq(DOMAIN Content) /\ Consumed \in Seq(AnyResult)
      BY <3>1, SumsBegin
    <3>4. Pending = <<>> /\ Opened = Len(args)
      BY <3>2, <3>3 DEF Pending, Reads1, Opened
    <3>5. Reached = Yielded
      BY <3>2, <3>3, <3>4, UptoSteps DEF Reached
    <3> QED
      BY <3>1, <3>3, <3>4, <3>5 DEF Sums
  <2>3. ASSUME pc = "idle", serr PROVE taken = Expected
    BY <2>3 DEF Order, Counts
  <2> QED
    BY <2>1, <2>2, <2>3 DEF InputsTypeOK
<1> QED
  BY <1>1, TypeCorrect, OrderInit, OrderStep, PTL DEF InputsSpec

-------------------------------------------------------------------------------
(* Where an error is (Position): the lines of a part of the input.         *)

\* The newlines among the bytes from number a + 1 to number b.
Between(a, b) == {i \in a + 1 .. b : src[i] = "newline"}

\* The bytes among them that end a line of the input.
Break(i) == src[i] = "newline" \/ LoneReturn(src, i)
Breaks(a, b) == {i \in a + 1 .. b : Break(i)}

Shifted(S, T, d) ==
    /\ S \subseteq Int /\ IsFiniteSet(S) /\ d \in Int
    /\ \A i \in S : i + d \in T
    /\ \A j \in T : j \in Int /\ j - d \in S

\* A set of numbers has as many elements as it has when each is moved by as much.
LEMMA Moved ==
    ASSUME NEW S, NEW T, NEW d, Shifted(S, T, d)
    PROVE  IsFiniteSet(T) /\ Cardinality(T) = Cardinality(S)
<1> USE DEF Shifted
<1> DEFINE f == [i \in S |-> i + d]
<1>1. f \in [S -> T]
  OBVIOUS
<1>2. \A i, j \in S : f[i] = f[j] => i = j
  OBVIOUS
<1>3. \A j \in T : \E i \in S : f[i] = j
  <2> SUFFICES ASSUME NEW j \in T PROVE \E i \in S : f[i] = j
    OBVIOUS
  <2>1. j - d \in S /\ (j - d) + d = j
    OBVIOUS
  <2> QED
    BY <2>1
<1>4. f \in Bijection(S, T)
  <2> HIDE DEF f
  <2> QED
    BY <1>1, <1>2, <1>3 DEF Bijection, Injection, Surjection, IsInjective
<1>5. ExistsBijection(S, T)
  BY <1>4 DEF ExistsBijection
<1> QED
  BY <1>5, FS_Bijection

LEMMA PartFinite ==
    ASSUME NEW a \in Int, NEW b \in Int
    PROVE  /\ IsFiniteSet(Between(a, b)) /\ Cardinality(Between(a, b)) \in Nat
           /\ IsFiniteSet(Breaks(a, b)) /\ Cardinality(Breaks(a, b)) \in Nat
           /\ IsFiniteSet(LoneReturns(b)) /\ Cardinality(LoneReturns(b)) \in Nat
<1>1. IsFiniteSet(a + 1 .. b) /\ IsFiniteSet(1 .. b)
  BY FS_Interval
<1>2. Between(a, b) \in SUBSET (a + 1 .. b) /\ Breaks(a, b) \in SUBSET (a + 1 .. b) /\ LoneReturns(b) \in SUBSET (1 .. b)
  BY DEF Between, Breaks, LoneReturns
<1> QED
  BY <1>1, <1>2, FS_Subset, FS_CardinalityType

\* Finite sets without a common element.
LEMMA Added ==
    ASSUME NEW S, NEW T, IsFiniteSet(S), IsFiniteSet(T), S \cap T = {}
    PROVE  /\ IsFiniteSet(S \cup T)
           /\ Cardinality(S \cup T) = Cardinality(S) + Cardinality(T)
           /\ Cardinality(S) \in Nat /\ Cardinality(T) \in Nat
BY FS_Union, FS_EmptySet, FS_CardinalityType, SMTT(60)

LEMMA PartAdds ==
    ASSUME NEW a \in Nat, NEW b \in Nat, a <= b
    PROVE  /\ Cardinality(Between(0, b)) = Cardinality(Between(0, a)) + Cardinality(Between(a, b))
           /\ Cardinality(Breaks(0, b)) = Cardinality(Breaks(0, a)) + Cardinality(Breaks(a, b))
<1>1. Between(0, a) \cap Between(a, b) = {} /\ Breaks(0, a) \cap Breaks(a, b) = {}
  BY DEF Between, Breaks
<1>2. Between(0, b) = Between(0, a) \cup Between(a, b) /\ Breaks(0, b) = Breaks(0, a) \cup Breaks(a, b)
  <2>1. \A i : i \in 1 .. b <=> i \in 1 .. a \/ i \in a + 1 .. b
    OBVIOUS
  <2> QED
    BY <2>1 DEF Between, Breaks
<1>3. /\ IsFiniteSet(Between(0, a)) /\ IsFiniteSet(Between(a, b))
      /\ IsFiniteSet(Breaks(0, a)) /\ IsFiniteSet(Breaks(a, b))
  BY PartFinite
<1> QED
  BY <1>1, <1>2, <1>3, Added

\* The lines that end before byte number a + 1 end with a newline or with a carriage return alone.
LEMMA BreaksAre ==
    ASSUME NEW a \in Nat
    PROVE  Cardinality(Breaks(0, a)) = Cardinality(Between(0, a)) + Cardinality(LoneReturns(a))
<1>1. Breaks(0, a) = Between(0, a) \cup LoneReturns(a)
  BY DEF Breaks, Break, Between, LoneReturns
<1>2. Between(0, a) \cap LoneReturns(a) = {}
  BY DEF Between, LoneReturns, LoneReturn
<1>3. IsFiniteSet(Between(0, a)) /\ IsFiniteSet(LoneReturns(a))
  BY PartFinite
<1> QED
  BY <1>1, <1>2, <1>3, Added

LEMMA SliceIs ==
    ASSUME NEW T, NEW s \in Seq(T), NEW a \in Nat, NEW b \in 0 .. Len(s), a <= b
    PROVE  /\ Slice(s, a, b) \in Seq(T) /\ Len(Slice(s, a, b)) = b - a
           /\ \A i \in 1 .. b - a : Slice(s, a, b)[i] = s[a + i]
<1>1. \A i \in a + 1 .. b : s[i] \in T
  OBVIOUS
<1>2. /\ SubSeq(s, a + 1, b) \in Seq(T)
      /\ Len(SubSeq(s, a + 1, b)) = (IF a + 1 <= b THEN b - (a + 1) + 1 ELSE 0)
      /\ \A i \in 1 .. b - (a + 1) + 1 : SubSeq(s, a + 1, b)[i] = s[a + 1 + i - 1]
  BY <1>1, SubSeqProperties
<1>3. b - (a + 1) + 1 = b - a /\ \A i \in 1 .. b - a : a + 1 + i - 1 = a + i
  OBVIOUS
<1> DEFINE u == SubSeq(s, a + 1, b)
<1>4. Len(u) = b - a
  BY <1>2
<1> HIDE DEF u
<1>5. \A i \in 1 .. b - a : u[i] = s[a + i]
  BY <1>2, <1>3 DEF u
<1> QED
  BY <1>2, <1>4, <1>5 DEF Slice, u

\* The newlines of a part, counted in it, are those of the input between its ends.
LEMMA NewlinesIs ==
    ASSUME src \in Seq(Bytes), NEW a \in Nat, NEW b \in 0 .. Len(src), a <= b
    PROVE  Newlines(Slice(src, a, b)) = Cardinality(Between(a, b))
<1> DEFINE u == Slice(src, a, b)
           S == {i \in DOMAIN u : u[i] = "newline"}
<1>1. u \in Seq(Bytes) /\ Len(u) = b - a /\ \A i \in 1 .. b - a : u[i] = src[a + i]
  BY SliceIs
<1> HIDE DEF u
<1>2. S = {i \in 1 .. b - a : src[a + i] = "newline"}
  BY <1>1
<1>3. S \subseteq Int /\ IsFiniteSet(S)
  <2>1. IsFiniteSet(1 .. b - a) /\ S \in SUBSET (1 .. b - a)
    BY <1>2, FS_Interval
  <2> QED
    BY <2>1, FS_Subset
<1>4. \A i \in S : i + a \in Between(a, b)
  BY <1>2 DEF Between
<1>5. \A j \in Between(a, b) : j \in Int /\ j - a \in S
  <2> SUFFICES ASSUME NEW j \in Between(a, b) PROVE j \in Int /\ j - a \in S
    OBVIOUS
  <2>1. j \in a + 1 .. b /\ src[j] = "newline" /\ a + (j - a) = j
    BY DEF Between
  <2> QED
    BY <1>2, <2>1
<1>6. Cardinality(Between(a, b)) = Cardinality(S)
  <2> HIDE DEF S
  <2>1. Shifted(S, Between(a, b), a)
    BY <1>3, <1>4, <1>5 DEF Shifted
  <2> QED
    BY <2>1, Moved
<1> QED
  BY <1>6 DEF Newlines, u

\* A part of the input, not empty.
Part(a, b) == src \in Seq(Bytes) /\ a \in Nat /\ b \in 0 .. Len(src) /\ a < b

\* The line of byte number p in a part of the input, and of what comes after the part.
LEMMA LineIs ==
    ASSUME NEW a, NEW b, Part(a, b), NEW p \in Nat, a < p
    PROVE  LineByOffset(Slice(src, a, b), p - a) =
               IF p <= b THEN 1 + Cardinality(Breaks(a, p - 1)) ELSE Cardinality(Breaks(a, b) \cup {b})
<1> DEFINE u    == Slice(src, a, b)
           ends == LineEnds(u)
           S    == {e \in ends : e < p - a}
<1>0. src \in Seq(Bytes) /\ a \in Nat /\ b \in 0 .. Len(src) /\ a < b /\ a <= b
  BY DEF Part
<1>1. u \in Seq(Bytes) /\ Len(u) = b - a /\ \A i \in 1 .. b - a : u[i] = src[a + i]
  BY <1>0, SliceIs
<1> HIDE DEF u
<1>2. ends = {i \in 1 .. b - a : Break(a + i) \/ i = b - a}
  <2>1. ASSUME NEW i \in 1 .. b - a, i # b - a PROVE LoneReturn(u, i) <=> LoneReturn(src, a + i)
    <3>1. i < b - a /\ i + 1 \in 1 .. b - a /\ a + i < Len(src) /\ (a + i) + 1 = a + (i + 1)
      BY <1>0, <2>1
    <3>2. u[i] = src[a + i] /\ u[i + 1] = src[(a + i) + 1]
      BY <1>1, <3>1
    <3> QED
      BY <1>1, <3>1, <3>2 DEF LoneReturn
  <2>2. DOMAIN u = 1 .. b - a
    BY <1>1
  <2>3. \A i \in 1 .. b - a : (u[i] = "newline" \/ LoneReturn(u, i) \/ i = Len(u)) <=> (Break(a + i) \/ i = b - a)
    BY <1>1, <2>1 DEF Break
  <2> QED
    BY <2>2, <2>3 DEF LineEnds
<1>3. LineByOffset(u, p - a) = IF \E e \in ends : e >= p - a THEN 1 + Cardinality(S) ELSE Cardinality(ends)
  BY DEF LineByOffset
<1>4. ends \subseteq Int /\ IsFiniteSet(ends)
  <2> HIDE DEF ends
  <2>1. ends \in SUBSET (1 .. b - a)
    BY <1>2
  <2>2. b - a \in Int /\ 1 \in Int
    BY <1>0
  <2>3. IsFiniteSet(1 .. b - a)
    BY <2>2, FS_Interval
  <2>4. IsFiniteSet(ends)
    BY <2>1, <2>3, FS_Subset
  <2> QED
    BY <2>1, <2>4
<1>5. b - a \in ends
  BY <1>0, <1>2
<1>6. CASE p <= b
  <2>1. \E e \in ends : e >= p - a
    BY <1>0, <1>5, <1>6
  <2>2. Shifted(S, Breaks(a, p - 1), a)
    <3>1. S \subseteq Int /\ IsFiniteSet(S)
      <4>1. S \in SUBSET ends
        OBVIOUS
      <4> QED
        BY <1>4, <4>1, FS_Subset
    <3>2. \A i \in S : i + a \in Breaks(a, p - 1)
      <4> SUFFICES ASSUME NEW i \in S PROVE i + a \in Breaks(a, p - 1)
        OBVIOUS
      <4>1. i \in 1 .. b - a /\ i < p - a /\ Break(a + i) /\ a + i = i + a
        BY <1>0, <1>2, <1>6
      <4> QED
        BY <1>0, <4>1 DEF Breaks
    <3>3. \A j \in Breaks(a, p - 1) : j \in Int /\ j - a \in S
      <4> SUFFICES ASSUME NEW j \in Breaks(a, p - 1) PROVE j \in Int /\ j - a \in S
        OBVIOUS
      <4>1. j \in a + 1 .. p - 1 /\ Break(j) /\ a + (j - a) = j
        BY <1>0 DEF Breaks
      <4>2. j - a \in 1 .. b - a /\ j - a < p - a
        BY <1>0, <1>6, <4>1
      <4>3. j - a \in ends
        BY <1>2, <4>1, <4>2
      <4> QED
        BY <4>1, <4>2, <4>3
    <3>4. a \in Int
      BY <1>0
    <3> HIDE DEF S, ends
    <3> QED
      BY <3>1, <3>2, <3>3, <3>4 DEF Shifted
  <2>3. Cardinality(Breaks(a, p - 1)) = Cardinality(S)
    <3> HIDE DEF S
    <3> QED
      BY <2>2, Moved
  <2> HIDE DEF S, ends
  <2> QED
    BY <1>3, <1>6, <2>1, <2>3 DEF u
<1>7. CASE ~ (p <= b)
  <2>1. ~ \E e \in ends : e >= p - a
    BY <1>0, <1>2, <1>7
  <2>2. Shifted(ends, Breaks(a, b) \cup {b}, a)
    <3>1. \A i \in ends : i + a \in Breaks(a, b) \cup {b}
      <4> SUFFICES ASSUME NEW i \in ends PROVE i + a \in Breaks(a, b) \cup {b}
        OBVIOUS
      <4>1. i \in 1 .. b - a /\ (Break(a + i) \/ i = b - a)
        BY <1>2
      <4>2. a + i = i + a /\ i + a \in a + 1 .. b
        BY <1>0, <4>1
      <4> QED
        BY <1>0, <4>1, <4>2 DEF Breaks
    <3>2. \A j \in Breaks(a, b) \cup {b} : j \in Int /\ j - a \in ends
      <4> SUFFICES ASSUME NEW j \in Breaks(a, b) \cup {b} PROVE j \in Int /\ j - a \in ends
        OBVIOUS
      <4>1. j \in a + 1 .. b /\ (Break(j) \/ j = b) /\ a + (j - a) = j
        BY <1>0 DEF Breaks
      <4>2. j - a \in 1 .. b - a
        BY <1>0, <4>1
      <4> QED
        BY <1>2, <4>1, <4>2
    <3>3. a \in Int
      BY <1>0
    <3> HIDE DEF ends
    <3> QED
      BY <1>4, <3>1, <3>2, <3>3 DEF Shifted
  <2>3. Cardinality(Breaks(a, b) \cup {b}) = Cardinality(ends)
    <3> HIDE DEF ends
    <3> QED
      BY <2>2, Moved
  <2> HIDE DEF S, ends
  <2> QED
    BY <1>3, <1>7, <2>1, <2>3 DEF u
<1> QED
  BY <1>6, <1>7

\* The newlines before a part, the line within the part and the carriage returns that end lines before it make
\* the line in the whole input, for a byte of the part, and for the end of the input if the part goes up to it.
LEMMA LineFrom ==
    ASSUME NEW a, NEW b, Part(a, b), NEW p \in Nat, a < p, p <= b \/ b = Len(src)
    PROVE  Newlines(Slice(src, 0, a)) + LineByOffset(Slice(src, a, b), p - a) + Cardinality(LoneReturns(a)) =
               LineByOffset(src, p)
<1> DEFINE n == Len(src)
<1>0. src \in Seq(Bytes) /\ a \in Nat /\ b \in 0 .. Len(src) /\ a < b /\ 0 \in Int
  BY DEF Part
<1>1. n \in Nat /\ n \in 0 .. n /\ 0 < n /\ b <= n /\ a \in 0 .. n /\ 0 \in Nat /\ 0 <= n /\ 0 <= a
  BY <1>0
<1>2. Slice(src, 0, n) = src
  <2>1. Slice(src, 0, n) \in Seq(Bytes) /\ Len(Slice(src, 0, n)) = n - 0 /\ \A i \in 1 .. n - 0 : Slice(src, 0, n)[i] = src[0 + i]
    <3> QED
      BY <1>0, <1>1, SliceIs
  <2>2. \A i \in 1 .. n : Slice(src, 0, n)[i] = src[i]
    BY <2>1
  <2>3. Len(Slice(src, 0, n)) = n
    BY <2>1
  <2> QED
    BY <1>0, <2>1, <2>2, <2>3, SeqEqual
<1>3. /\ Cardinality(Breaks(0, a)) = Newlines(Slice(src, 0, a)) + Cardinality(LoneReturns(a))
      /\ Newlines(Slice(src, 0, a)) \in Nat /\ Cardinality(LoneReturns(a)) \in Nat
  <2>1. Newlines(Slice(src, 0, a)) = Cardinality(Between(0, a))
    BY <1>0, <1>1, NewlinesIs
  <2>2. a \in Int
    BY <1>0
  <2> QED
    BY <1>0, <2>1, <2>2, BreaksAre, PartFinite
<1>4. LineByOffset(src, p) = IF p <= n THEN 1 + Cardinality(Breaks(0, p - 1)) ELSE Cardinality(Breaks(0, n) \cup {n})
  <2>1. p - 0 = p
    OBVIOUS
  <2>2. LineByOffset(Slice(src, 0, n), p - 0) =
            IF p <= n THEN 1 + Cardinality(Breaks(0, p - 1)) ELSE Cardinality(Breaks(0, n) \cup {n})
    <3>1. Part(0, n) /\ 0 < p
      BY <1>0, <1>1 DEF Part
    <3> HIDE DEF n
    <3> QED
      BY <3>1, LineIs
  <2> QED
    BY <1>2, <2>1, <2>2
<1>5. LineByOffset(Slice(src, a, b), p - a) =
          IF p <= b THEN 1 + Cardinality(Breaks(a, p - 1)) ELSE Cardinality(Breaks(a, b) \cup {b})
  BY LineIs
<1> HIDE DEF n
<1>6. CASE p <= b
  <2>1. Cardinality(Breaks(0, p - 1)) = Cardinality(Breaks(0, a)) + Cardinality(Breaks(a, p - 1))
    <3>1. p - 1 \in Nat /\ a <= p - 1
      BY <1>0
    <3> QED
      BY <1>0, <3>1, PartAdds
  <2>2. p <= n
    BY <1>0, <1>1, <1>6
  <2>3. Cardinality(Breaks(0, a)) \in Nat /\ Cardinality(Breaks(a, p - 1)) \in Nat
    <3>1. p - 1 \in Int /\ a \in Int
      BY <1>0
    <3> QED
      BY <1>0, <3>1, PartFinite
  <2> QED
    BY <1>3, <1>4, <1>5, <1>6, <2>1, <2>2, <2>3
<1>7. CASE ~ (p <= b)
  <2>1. b = n /\ ~ (p <= n)
    BY <1>7 DEF n
  <2>2. Breaks(0, n) \cup {n} = Breaks(0, a) \cup (Breaks(a, b) \cup {b})
    <3>1. \A i : i \in 1 .. b <=> i \in 1 .. a \/ i \in a + 1 .. b
      BY <1>0
    <3> QED
      BY <1>0, <2>1, <3>1 DEF Breaks
  <2>3. Breaks(0, a) \cap (Breaks(a, b) \cup {b}) = {}
    BY <1>0 DEF Breaks
  <2>4. IsFiniteSet(Breaks(0, a)) /\ IsFiniteSet(Breaks(a, b) \cup {b})
    <3>1. a \in Int /\ b \in Int
      BY <1>0
    <3>2. IsFiniteSet(Breaks(0, a)) /\ IsFiniteSet(Breaks(a, b)) /\ IsFiniteSet({b})
      BY <1>0, <3>1, PartFinite, FS_Singleton
    <3> QED
      BY <3>2, FS_Union
  <2>5. /\ Cardinality(Breaks(0, n) \cup {n}) = Cardinality(Breaks(0, a)) + Cardinality(Breaks(a, b) \cup {b})
        /\ Cardinality(Breaks(a, b) \cup {b}) \in Nat
    BY <2>2, <2>3, <2>4, Added
  <2> QED
    BY <1>3, <1>4, <1>5, <1>7, <2>1, <2>5
<1> QED
  BY <1>6, <1>7

-------------------------------------------------------------------------------
(* What getContents skips.                                                 *)

LEMMA MinOfTwo ==
    ASSUME NEW x \in Nat, NEW y \in Nat
    PROVE  Min({x, y}) \in {x, y} /\ Min({x, y}) <= x /\ Min({x, y}) <= y
BY MinOf

\* A pass skips something, but never the byte of the message.
LEMMA SkipOnceIs ==
    ASSUME NEW x \in Nat
    PROVE  /\ SkipOnce(x) \in Nat /\ SkipOnce(x) <= x
           /\ x # 0 => SkipOnce(x) # 0
           /\ SkipOnce(x) <= (BufSize * 3) \div 4 \/ SkipOnce(x) < x
<1> DEFINE q == BufSize \div 4
<1>1. BufSize \in Nat /\ q \in Nat /\ BufSize = 4 * q /\ q # 0 /\ (BufSize * 3) \div 4 = 3 * q
  BY PositionAssumption
<1> HIDE DEF q
<1>2. CASE x <= 3 * q
  BY <1>1, <1>2 DEF SkipOnce
<1>3. CASE ~ (x <= 3 * q)
  <2> DEFINE n == Min({BufSize, x - q})
  <2>1. x - q \in Nat
    BY <1>1, <1>3
  <2>2. n \in {BufSize, x - q} /\ n <= BufSize /\ n <= x - q
    BY <1>1, <2>1, MinOfTwo
  <2>3. SkipOnce(x) = x - n
    BY <1>1, <1>3 DEF SkipOnce, q
  <2>4. n \in Nat /\ n # 0
    BY <1>1, <1>3, <2>1, <2>2
  <2> HIDE DEF n
  <2> QED
    BY <1>1, <1>3, <2>2, <2>3, <2>4
<1> QED
  BY <1>1, <1>2, <1>3

\* The rest of a file that a message is made from begins before the byte, and near it.
LEMMA SkippedIs ==
    ASSUME NEW x \in Nat, x # 0
    PROVE  /\ Skipped(x) \in Nat /\ Skipped(x) < x
           /\ x - Skipped(x) <= (BufSize * 3) \div 4
<1> DEFINE step == [k \in 1 .. x |-> [y \in Nat |-> SkipOnce(y)]]
           most == (BufSize * 3) \div 4
<1>1. most \in Nat
  BY PositionAssumption
<1>2. PICK g : g \in Paths(Nat, x, x, step)
  <2>1. step \in StepsOn(Nat, x)
    BY SkipOnceIs DEF StepsOn
  <2> HIDE DEF step
  <2> QED
    BY <2>1, StepsExist
<1>3. g \in [0 .. x -> Nat] /\ g[0] = x /\ \A k \in 1 .. x : g[k] = SkipOnce(g[k - 1])
  <2>1. g \in [0 .. x -> Nat] /\ g[0] = x /\ \A k \in 1 .. x : g[k] = step[k][g[k - 1]]
    BY <1>2 DEF Paths
  <2>2. \A k \in 1 .. x : k - 1 \in 0 .. x
    OBVIOUS
  <2>3. \A k \in 1 .. x : g[k - 1] \in Nat
    BY <2>1, <2>2
  <2>4. \A k \in 1 .. x : \A y \in Nat : step[k][y] = SkipOnce(y)
    OBVIOUS
  <2> HIDE DEF step
  <2> QED
    BY <2>1, <2>3, <2>4
<1> HIDE DEF step, most
<1> DEFINE Near(y, k) == y \in Nat /\ y <= x /\ y # 0 /\ (y <= most \/ y <= x - k)
           Bad == {k \in 0 .. x : ~ Near(g[k], k)}
<1>4. Bad = {}
  <2> SUFFICES ASSUME Bad # {} PROVE FALSE
    OBVIOUS
  <2>1. Bad \subseteq Nat
    OBVIOUS
  <2>2. PICK m \in Bad : \A y \in Bad : m <= y
    BY <2>1, LeastExists
  <2>3. m \in 0 .. x /\ ~ Near(g[m], m)
    OBVIOUS
  <2>4. CASE m = 0
    BY <1>3, <2>3, <2>4
  <2>5. CASE m # 0
    <3>1. m \in 1 .. x /\ m - 1 \in 0 .. x /\ ~ (m <= m - 1)
      BY <2>3, <2>5
    <3>2. Near(g[m - 1], m - 1)
      BY <2>2, <3>1
    <3> DEFINE y == g[m - 1]
    <3>3. y \in Nat /\ y <= x /\ y # 0 /\ (y <= most \/ y <= x - (m - 1))
      BY <3>2
    <3>4. g[m] = SkipOnce(y)
      BY <1>3, <3>1
    <3> HIDE DEF y
    <3>5. SkipOnce(y) \in Nat /\ SkipOnce(y) <= y /\ SkipOnce(y) # 0 /\ (SkipOnce(y) <= most \/ SkipOnce(y) < y)
      BY <3>3, SkipOnceIs DEF most
    <3>6. Near(g[m], m)
      BY <1>1, <3>1, <3>3, <3>4, <3>5
    <3> QED
      BY <2>3, <3>6
  <2> QED
    BY <2>4, <2>5
<1> DEFINE more == CHOOSE f : f = [k \in 0 .. x |-> IF k = 0 THEN x ELSE SkipOnce(f[k - 1])]
<1>5. g = [k \in 0 .. x |-> IF k = 0 THEN x ELSE SkipOnce(g[k - 1])]
  <2>1. \A k \in 0 .. x : k # 0 => k \in 1 .. x
    OBVIOUS
  <2>2. \A k \in 0 .. x : g[k] = IF k = 0 THEN x ELSE SkipOnce(g[k - 1])
    BY <1>3, <2>1
  <2> QED
    BY <1>3, <2>2
<1>6. more = [k \in 0 .. x |-> IF k = 0 THEN x ELSE SkipOnce(more[k - 1])]
  BY <1>5, Zenon
<1>7. Skipped(x) = x - more[x]
  BY Zenon DEF Skipped
<1> HIDE DEF more
<1>8. Alike(more, g, x)
  <2>1. 0 \in 0 .. x /\ \A k \in 1 .. x : k \in 0 .. x /\ k # 0
    OBVIOUS
  <2>2. more[0] = x
    BY <1>6, <2>1
  <2>3. \A k \in 1 .. x : more[k] = SkipOnce(more[k - 1])
    BY <1>6, <2>1
  <2> QED
    BY <1>3, <2>2, <2>3 DEF Alike
<1>9. x \in 0 .. x /\ more[x] = g[x]
  BY <1>8, SameSteps
<1>10. Near(g[x], x)
  BY <1>4, <1>9
<1> QED
  BY <1>1, <1>7, <1>9, <1>10 DEF most

-------------------------------------------------------------------------------
(* The decoder's steps and the message.                                    *)

LEMMA LineTypes ==
    ASSUME NEW s \in Seq(Bytes), NEW o
    PROVE  Newlines(s) \in Nat /\ LineByOffset(s, o) \in Nat
<1>1. \A T \in SUBSET (1 .. Len(s)) : Cardinality(T) \in Nat
  <2>1. IsFiniteSet(1 .. Len(s))
    BY FS_Interval
  <2> QED
    BY <2>1, FS_Subset, FS_CardinalityType
<1>2. DOMAIN s = 1 .. Len(s)
  OBVIOUS
<1>3. Newlines(s) \in Nat
  BY <1>1, <1>2 DEF Newlines
<1> DEFINE ends == LineEnds(s)
<1>4. ends \in SUBSET (1 .. Len(s)) /\ {e \in ends : e < o} \in SUBSET (1 .. Len(s))
  BY <1>2 DEF LineEnds
<1>5. Cardinality(ends) \in Nat /\ Cardinality({e \in ends : e < o}) \in Nat
  BY <1>1, <1>4
<1> HIDE DEF ends
<1>6. LineByOffset(s, o) = IF \E e \in ends : e >= o THEN 1 + Cardinality({e \in ends : e < o}) ELSE Cardinality(ends)
  BY DEF LineByOffset, ends
<1> QED
  BY <1>3, <1>5, <1>6

Counted == line = Newlines(Slice(src, 0, offset))

\* The part that the message about byte number p passes over.
PassedOverFor(p) == IF seekable THEN Skipped(Min({p, Len(src)})) ELSE offset

\* The message has the line of the whole input but for the carriage returns alone before what it is made from,
\* a file or what is left of the buffer.
LEMMA MessageIs ==
    ASSUME PositionTypeOK, Counted, NEW p \in 1 .. Len(src) + 1, src # <<>>
    PROVE  /\ Message(p) \in Nat
           /\ seekable \/ (offset < read /\ offset < p /\ (p <= read \/ read = Len(src))) =>
                  Message(p) + Cardinality(LoneReturns(PassedOverFor(p))) = LineByOffset(src, p)
<1>0. /\ src \in Seq(Bytes) /\ Len(src) \in Nat /\ Len(src) # 0
      /\ offset \in 0 .. read /\ read \in 0 .. Len(src) /\ line \in Nat /\ seekable \in BOOLEAN
  BY DEF PositionTypeOK
<1>1. CASE seekable
  <2> DEFINE x    == Min({p, Len(src)})
             from == Skipped(x)
             to   == Min({from + BufSize, Len(src)})
  <2>1. x \in {p, Len(src)} /\ x <= p /\ x <= Len(src) /\ x \in Nat /\ x # 0
    <3>1. p \in Nat
      BY <1>0
    <3> QED
      BY <1>0, <3>1, MinOfTwo
  <2>2. Message(p) = Newlines(Slice(src, 0, from)) + LineByOffset(Slice(src, from, to), p - from)
    BY <1>1 DEF Message
  <2> HIDE DEF x
  <2>3. from \in Nat /\ from < x /\ x - from <= (BufSize * 3) \div 4
    BY <2>1, SkippedIs
  <2> HIDE DEF from
  <2>4. BufSize \in Nat /\ (BufSize * 3) \div 4 < BufSize
    BY PositionAssumption
  <2>5. to \in {from + BufSize, Len(src)} /\ to <= from + BufSize /\ to <= Len(src)
    <3>1. from + BufSize \in Nat
      BY <2>3, <2>4
    <3> QED
      BY <1>0, <3>1, MinOfTwo
  <2> HIDE DEF to
  <2>6. to \in 0 .. Len(src) /\ x <= to /\ from < to
    BY <1>0, <2>1, <2>3, <2>4, <2>5
  <2>7. p \in Nat /\ from < p /\ (p <= to \/ to = Len(src))
    BY <1>0, <2>1, <2>3, <2>4, <2>5, <2>6
  <2>8. Part(from, to)
    BY <1>0, <2>3, <2>6 DEF Part
  <2>9. Newlines(Slice(src, 0, from)) + LineByOffset(Slice(src, from, to), p - from) + Cardinality(LoneReturns(from)) =
            LineByOffset(src, p)
    BY <2>7, <2>8, LineFrom
  <2>10. PassedOverFor(p) = from
    BY <1>1 DEF PassedOverFor, from, x
  <2>11. Newlines(Slice(src, 0, from)) \in Nat /\ LineByOffset(Slice(src, from, to), p - from) \in Nat
    <3>1. from <= to /\ 0 \in Nat /\ 0 <= from /\ from \in 0 .. Len(src)
      BY <2>3, <2>6
    <3>2. Slice(src, 0, from) \in Seq(Bytes) /\ Slice(src, from, to) \in Seq(Bytes)
      BY <1>0, <2>3, <2>6, <3>1, SliceIs
    <3> QED
      BY <3>2, LineTypes
  <2>12. Message(p) \in Nat
    BY <2>2, <2>11
  <2> QED
    BY <2>2, <2>9, <2>10, <2>12
<1>2. CASE ~seekable
  <2>1. Message(p) = line + LineByOffset(Slice(src, offset, read), p - offset)
    BY <1>2 DEF Message
  <2>2. Slice(src, offset, read) \in Seq(Bytes)
    <3>1. offset \in Nat /\ offset <= read
      BY <1>0
    <3> QED
      BY <1>0, <3>1, SliceIs
  <2>3. Message(p) \in Nat
    BY <1>0, <2>1, <2>2, LineTypes
  <2>4. ASSUME offset < read, offset < p, p <= read \/ read = Len(src)
        PROVE  Message(p) + Cardinality(LoneReturns(offset)) = LineByOffset(src, p)
    <3>1. Part(offset, read) /\ p \in Nat
      BY <1>0, <2>4 DEF Part
    <3> QED
      BY <2>1, <2>4, <3>1, LineFrom DEF Counted
  <2>5. PassedOverFor(p) = offset
    BY <1>2 DEF PassedOverFor
  <2> QED
    BY <1>2, <2>3, <2>4, <2>5
<1> QED
  BY <1>0, <1>1, <1>2

LineButReturns == state = "failed" => report + Cardinality(LoneReturns(PassedOver)) = TrueLine

\* No newline is lost or counted twice when the buffer is dropped, nothing wrong has been scanned before the
\* error, and the message is right, but for the carriage returns, when the byte is still there.
Located ==
    /\ PositionTypeOK
    /\ Counted
    /\ state = "reading" => \A i \in 1 .. scanned : src[i] # "bad"
    /\ inside => scanned # 0
    /\ seekable \/ offset < scanned => LineButReturns

LEMMA LocatedInit == PositionInit => Located
<1> SUFFICES ASSUME PositionInit PROVE Located
  OBVIOUS
<1>1. PICK s \in Sources, f \in BOOLEAN : PositionStart(s, f)
  BY DEF PositionInit
<1>2. /\ src \in Seq(Bytes) /\ seekable \in BOOLEAN /\ read = 0 /\ scanned = 0 /\ inside = FALSE
      /\ offset = 0 /\ line = 0 /\ state = "reading" /\ report = 0
  BY <1>1, PositionAssumption DEF PositionStart
<1>3. PositionTypeOK
  <2>1. 0 \in 0 .. Len(src) /\ 0 \in 0 .. 0 /\ 0 \in Nat
    BY <1>2
  <2> QED
    BY <1>2, <2>1 DEF PositionTypeOK
<1>4. Counted
  <2>1. Newlines(Slice(src, 0, 0)) = Cardinality(Between(0, 0))
    <3>1. 0 \in Nat /\ 0 \in 0 .. Len(src) /\ 0 <= 0
      BY <1>2
    <3> QED
      BY <1>2, <3>1, NewlinesIs
  <2>2. Between(0, 0) = {}
    BY DEF Between
  <2> QED
    BY <1>2, <2>1, <2>2, FS_EmptySet DEF Counted
<1> QED
  BY <1>2, <1>3, <1>4 DEF Located, LineButReturns

LEMMA ScanIs ==
    ASSUME PositionTypeOK, NEW byte, Scan(byte), UNCHANGED <<src, read>>
    PROVE  /\ state = "reading" /\ src[scanned + 1] = byte /\ scanned' = scanned + 1
           /\ scanned' \in 0 .. read /\ scanned' # 0 /\ scanned' \in 1 .. Len(src)
           /\ src # <<>>
<1>1. /\ state = "reading" /\ src[scanned + 1] = byte /\ scanned' = scanned + 1 /\ scanned < read
  BY DEF Scan
<1>2. src \in Seq(Bytes) /\ Len(src) \in Nat /\ scanned \in 0 .. read /\ read \in 0 .. Len(src)
  BY DEF PositionTypeOK
<1>3. scanned' \in 1 .. Len(src) /\ scanned' \in 0 .. read /\ scanned' # 0
  BY <1>1, <1>2
<1> QED
  BY <1>1, <1>2, <1>3

LEMMA LocatedStep == Located /\ [PositionNext]_posVars => Located'
<1> SUFFICES ASSUME Located, [PositionNext]_posVars PROVE Located'
  OBVIOUS
<1> USE DEF Located
<1>0. /\ src \in Seq(Bytes) /\ Len(src) \in Nat /\ seekable \in BOOLEAN /\ inside \in BOOLEAN
      /\ offset \in 0 .. read /\ scanned \in 0 .. read /\ read \in 0 .. Len(src)
      /\ line \in Nat /\ report \in Nat
  BY DEF PositionTypeOK
<1>1. ASSUME Refill PROVE Located'
  <2>1. state = "reading" /\ read' \in read .. Len(src)
        /\ UNCHANGED <<src, seekable, scanned, inside, offset, line, state, report>>
    BY <1>0, <1>1, PositionAssumption DEF Refill
  <2>2. PositionTypeOK'
    BY <1>0, <2>1 DEF PositionTypeOK
  <2> QED
    BY <2>1, <2>2 DEF Counted, LineButReturns
<1>2. ASSUME ScanWithin PROVE Located'
  <2>1. /\ UNCHANGED <<src, seekable, read, offset, line, state, report>> /\ inside' \in BOOLEAN
        /\ \E byte \in {"open", "newline", "return"} : Scan(byte)
    BY <1>0, <1>2 DEF ScanWithin
  <2>2. PICK byte \in {"open", "newline", "return"} : Scan(byte)
    BY <2>1
  <2>3. /\ state = "reading" /\ src[scanned + 1] = byte /\ scanned' = scanned + 1
        /\ scanned' \in 0 .. read /\ scanned' # 0
    BY <2>1, <2>2, ScanIs
  <2>4. PositionTypeOK'
    BY <1>0, <2>1, <2>3 DEF PositionTypeOK
  <2>5. \A i \in 1 .. scanned' : src[i] # "bad"
    <3>1. \A i \in 1 .. scanned' : i \in 1 .. scanned \/ i = scanned + 1
      BY <1>0, <2>3
    <3> QED
      BY <2>3, <3>1
  <2> QED
    BY <2>1, <2>3, <2>4, <2>5 DEF Counted, LineButReturns
<1>3. ASSUME ScanValue PROVE Located'
  <2>1. UNCHANGED <<src, seekable, read, state, report>> /\ inside' = FALSE /\ Scan("close")
    BY <1>3 DEF ScanValue
  <2>2. /\ state = "reading" /\ src[scanned + 1] = "close" /\ scanned' = scanned + 1
        /\ scanned' \in 0 .. read /\ scanned' # 0
    BY <2>1, ScanIs
  <2>3. \/ UNCHANGED <<line, offset>>
        \/ line' = line + Newlines(Slice(src, offset, read)) /\ offset' = read
    BY <1>3 DEF ScanValue
  <2>4. offset' \in 0 .. read /\ line' \in Nat /\ Counted'
    <3>1. CASE UNCHANGED <<line, offset>>
      BY <1>0, <2>1, <3>1 DEF Counted
    <3>2. CASE line' = line + Newlines(Slice(src, offset, read)) /\ offset' = read
      <4>1. offset \in Nat /\ read \in Nat /\ offset \in 0 .. Len(src) /\ offset <= read /\ 0 <= offset /\ 0 <= read /\ 0 \in Nat
        BY <1>0
      <4>2. Newlines(Slice(src, 0, offset)) = Cardinality(Between(0, offset))
        BY <1>0, <4>1, NewlinesIs
      <4>3. Newlines(Slice(src, offset, read)) = Cardinality(Between(offset, read))
        BY <1>0, <4>1, NewlinesIs
      <4>4. Newlines(Slice(src, 0, read)) = Cardinality(Between(0, read))
        BY <1>0, <4>1, NewlinesIs
      <4>5. Cardinality(Between(0, read)) = Cardinality(Between(0, offset)) + Cardinality(Between(offset, read))
        BY <4>1, PartAdds
      <4>6. line' = Newlines(Slice(src, 0, read))
        BY <3>2, <4>2, <4>3, <4>4, <4>5 DEF Counted
      <4>7. line' \in Nat
        <5>1. Cardinality(Between(0, read)) \in Nat
          <6>1. 0 \in Int /\ read \in Int
            BY <4>1
          <6> QED
            BY <6>1, PartFinite
        <5> QED
          BY <4>4, <4>6, <5>1
      <4> QED
        BY <1>0, <2>1, <3>2, <4>6, <4>7 DEF Counted
    <3> QED
      BY <2>3, <3>1, <3>2
  <2>5. PositionTypeOK'
    BY <1>0, <2>1, <2>2, <2>4 DEF PositionTypeOK
  <2>6. \A i \in 1 .. scanned' : src[i] # "bad"
    <3>1. \A i \in 1 .. scanned' : i \in 1 .. scanned \/ i = scanned + 1
      BY <1>0, <2>2
    <3> QED
      BY <2>2, <3>1
  <2> QED
    BY <2>1, <2>2, <2>4, <2>5, <2>6 DEF LineButReturns
<1>4. ASSUME ScanBad PROVE Located'
  <2>1. /\ Scan("bad") /\ report' = Message(scanned + 1) /\ state' = "failed"
        /\ UNCHANGED <<src, seekable, read, inside, offset, line>>
    BY <1>4 DEF ScanBad, Fails
  <2>2. /\ src[scanned'] = "bad" /\ scanned' = scanned + 1
        /\ scanned' \in 0 .. read /\ scanned' # 0 /\ scanned' \in 1 .. Len(src) /\ src # <<>>
    BY <2>1, ScanIs
  <2>3. scanned' \in 1 .. Len(src) + 1
    BY <1>0, <2>2
  <2>4. /\ report' \in Nat
        /\ seekable \/ (offset < read /\ offset < scanned' /\ (scanned' <= read \/ read = Len(src))) =>
               report' + Cardinality(LoneReturns(PassedOverFor(scanned'))) = LineByOffset(src, scanned')
    BY <2>1, <2>2, <2>3, MessageIs
  <2>5. ErrorAt' = scanned' /\ TrueLine' = LineByOffset(src, scanned') /\ LoneReturns(PassedOver)' = LoneReturns(PassedOverFor(scanned'))
    BY <2>1, <2>2 DEF ErrorAt, TrueLine, PassedOver, PassedOverFor, LoneReturns
  <2>6. PositionTypeOK'
    BY <1>0, <2>1, <2>2, <2>4 DEF PositionTypeOK
  <2>7. seekable' \/ offset' < scanned' => LineButReturns'
    BY <1>0, <2>1, <2>2, <2>4, <2>5 DEF LineButReturns
  <2> QED
    BY <2>1, <2>2, <2>6, <2>7 DEF Counted
<1>5. ASSUME AtEnd PROVE Located'
  <2>1. state = "reading" /\ scanned = Len(src) /\ UNCHANGED <<src, seekable, read, inside, offset, line, scanned>>
    BY <1>5 DEF AtEnd, Fails
  <2>2. CASE ~inside
    <3>1. state' = "end" /\ UNCHANGED report
      BY <1>5, <2>2 DEF AtEnd
    <3>2. PositionTypeOK'
      BY <1>0, <2>1, <3>1 DEF PositionTypeOK
    <3> QED
      BY <2>1, <3>1, <3>2 DEF Counted, LineButReturns
  <2>3. CASE inside
    <3> DEFINE p == Len(src) + 1
    <3>1. report' = Message(p) /\ state' = "failed"
      BY <1>5, <2>3 DEF AtEnd, Fails
    <3>2. scanned # 0 /\ src # <<>> /\ p \in 1 .. Len(src) + 1 /\ scanned \in 1 .. scanned /\ read = Len(src)
      BY <1>0, <2>1, <2>3
    <3>3. src[scanned] # "bad"
      BY <2>1, <3>2
    <3>4. /\ report' \in Nat
          /\ seekable \/ (offset < read /\ offset < p /\ (p <= read \/ read = Len(src))) =>
                 report' + Cardinality(LoneReturns(PassedOverFor(p))) = LineByOffset(src, p)
      BY <3>1, <3>2, MessageIs
    <3>5. ErrorAt' = p /\ TrueLine' = LineByOffset(src, p) /\ LoneReturns(PassedOver)' = LoneReturns(PassedOverFor(p))
      BY <2>1, <2>3, <3>3 DEF ErrorAt, TrueLine, PassedOver, PassedOverFor, LoneReturns
    <3>6. PositionTypeOK'
      BY <1>0, <2>1, <3>1, <3>4 DEF PositionTypeOK
    <3>7. seekable' \/ offset' < scanned' => LineButReturns'
      BY <1>0, <2>1, <3>2, <3>4, <3>5 DEF LineButReturns
    <3> QED
      BY <2>1, <3>1, <3>6, <3>7 DEF Counted
  <2> QED
    BY <1>0, <2>2, <2>3
<1>6. CASE UNCHANGED posVars
  BY <1>6 DEF posVars, PositionTypeOK, Counted, LineButReturns, LoneReturns, PassedOver, TrueLine, ErrorAt
<1> QED
  BY <1>1, <1>2, <1>3, <1>4, <1>5, <1>6 DEF PositionNext

\* The line in the message about an error is the line in the whole input, for any input, buffer and reads of the
\* decoder, if the byte has not been dropped with the buffer, less the carriage returns alone in what was skipped
\* or dropped: its newlines are counted once (inputReader.getContents, jsonInputIter.Next, getLineByOffset).
THEOREM KeptErrorLineHolds == PositionSpec => []KeptErrorLine
<1>1. Located => KeptErrorLine
  BY DEF Located, KeptErrorLine, LineButReturns
<1> QED
  BY <1>1, LocatedInit, LocatedStep, PTL DEF PositionSpec

-------------------------------------------------------------------------------
(***************************************************************************)
(* Flags.                                                                  *)
(***************************************************************************)

(* The elements of a set of numbers in ascending order.                    *)

\* How many elements of K there are up to k.
Rank(K, k) == Cardinality({i \in K : i <= k})

\* Each element of a bounded set has a rank of its own, and every rank up to its size is one.
LEMMA RankIs ==
    ASSUME NEW n \in Nat, NEW K, K \subseteq 1 .. n
    PROVE  /\ IsFiniteSet(K) /\ Cardinality(K) \in Nat
           /\ \A k \in K : Rank(K, k) \in 1 .. Cardinality(K)
           /\ \A k, l \in K : Rank(K, k) = Rank(K, l) => k = l
           /\ \A j \in 1 .. Cardinality(K) : \E k \in K : Rank(K, k) = j
<1>1. IsFiniteSet(K) /\ Cardinality(K) \in Nat
  <2>1. IsFiniteSet(1 .. n)
    BY FS_Interval
  <2>2. IsFiniteSet(K)
    BY <2>1, FS_Subset
  <2> QED
    BY <2>2, FS_CardinalityType
<1> DEFINE NotAfter(k) == {i \in K : i <= k}
<1>2. \A k \in K : IsFiniteSet(NotAfter(k)) /\ Cardinality(NotAfter(k)) \in Nat /\ Cardinality(NotAfter(k)) <= Cardinality(K)
  <2> SUFFICES ASSUME NEW k \in K
               PROVE  IsFiniteSet(NotAfter(k)) /\ Cardinality(NotAfter(k)) \in Nat /\ Cardinality(NotAfter(k)) <= Cardinality(K)
    OBVIOUS
  <2>1. NotAfter(k) \in SUBSET K
    OBVIOUS
  <2> HIDE DEF NotAfter
  <2>2. IsFiniteSet(NotAfter(k)) /\ Cardinality(NotAfter(k)) <= Cardinality(K)
    BY <1>1, <2>1, FS_Subset
  <2> QED
    BY <2>2, FS_CardinalityType
<1>3. \A k \in K : Cardinality(NotAfter(k)) # 0
  <2> SUFFICES ASSUME NEW k \in K PROVE Cardinality(NotAfter(k)) # 0
    OBVIOUS
  <2>1. k \in NotAfter(k)
    OBVIOUS
  <2> HIDE DEF NotAfter
  <2> QED
    BY <1>2, <2>1, FS_EmptySet
<1>4. \A k, l \in K : Cardinality(NotAfter(k)) = Cardinality(NotAfter(l)) => l <= k
  <2> SUFFICES ASSUME NEW k \in K, NEW l \in K, Cardinality(NotAfter(k)) = Cardinality(NotAfter(l)), ~ (l <= k)
               PROVE  FALSE
    OBVIOUS
  <2>1. NotAfter(k) \in SUBSET NotAfter(l) /\ l \in NotAfter(l) /\ l \notin NotAfter(k)
    <3>1. \A i \in K : i \in Int
      OBVIOUS
    <3>2. \A i \in K : i <= k => i <= l
      BY <3>1
    <3>3. l \in NotAfter(l)
      BY <3>1
    <3>4. NotAfter(k) \in SUBSET NotAfter(l)
      BY <3>2
    <3> QED
      BY <3>3, <3>4
  <2> HIDE DEF NotAfter
  <2>2. NotAfter(k) = NotAfter(l)
    BY <1>2, <2>1, FS_Subset
  <2> QED
    BY <2>1, <2>2
<1>5. \A k \in K : Rank(K, k) = Cardinality(NotAfter(k))
  BY DEF Rank
<1> HIDE DEF NotAfter
<1>6. \A k \in K : Rank(K, k) \in 1 .. Cardinality(K)
  BY <1>1, <1>2, <1>3, <1>5
<1>7. \A k, l \in K : Rank(K, k) = Rank(K, l) => k = l
  <2> SUFFICES ASSUME NEW k \in K, NEW l \in K, Rank(K, k) = Rank(K, l) PROVE k = l
    OBVIOUS
  <2>1. l <= k /\ k <= l
    BY <1>4, <1>5
  <2> QED
    BY <2>1
<1>8. \A j \in 1 .. Cardinality(K) : \E k \in K : Rank(K, k) = j
  <2> DEFINE c == Cardinality(K)
             f == [k \in K |-> Rank(K, k)]
  <2>1. f \in [K -> 1 .. c] /\ \A k, l \in K : f[k] = f[l] => k = l
    BY <1>6, <1>7
  <2>2. f \in Injection(K, 1 .. c)
    BY <2>1 DEF Injection, IsInjective
  <2>3. IsFiniteSet(1 .. c) /\ Cardinality(1 .. c) = c
    BY <1>1, FS_Interval
  <2> HIDE DEF f
  <2>4. f \in Surjection(K, 1 .. c)
    BY <2>2, <2>3, FS_Injection
  <2>5. \A j \in 1 .. c : \E k \in K : f[k] = j
    BY <2>4 DEF Surjection
  <2> QED
    BY <2>5 DEF f
<1> QED
  BY <1>1, <1>6, <1>7, <1>8

\* Ascending has them all, each at its rank.
LEMMA AscendingIs ==
    ASSUME NEW n \in Nat, NEW K, K \subseteq 1 .. n
    PROVE  /\ Ascending(K) \in Seq(K) /\ Len(Ascending(K)) = Cardinality(K)
           /\ \A j \in 1 .. Cardinality(K) : Rank(K, Ascending(K)[j]) = j
           /\ \A k \in K : \E j \in 1 .. Cardinality(K) : Ascending(K)[j] = k
<1>1. Cardinality(K) \in Nat
  BY RankIs
<1>2. Ascending(K) = [j \in 1 .. Cardinality(K) |-> CHOOSE k \in K : Rank(K, k) = j]
  BY DEF Ascending, Rank
<1>3. \A j \in 1 .. Cardinality(K) : (CHOOSE k \in K : Rank(K, k) = j) \in K
                                    /\ Rank(K, CHOOSE k \in K : Rank(K, k) = j) = j
  <2>1. \A j \in 1 .. Cardinality(K) : \E k \in K : Rank(K, k) = j
    BY RankIs
  <2> QED
    BY <2>1
<1>4. \A k, l \in K : Rank(K, k) = Rank(K, l) => k = l
  BY RankIs
<1>5. \A k \in K : Rank(K, k) \in 1 .. Cardinality(K)
  BY RankIs
<1> DEFINE c == Cardinality(K)
           s == [j \in 1 .. c |-> CHOOSE k \in K : Rank(K, k) = j]
<1>6. \A j \in 1 .. c : s[j] \in K /\ Rank(K, s[j]) = j
  BY <1>3
<1>7. s \in Seq(K) /\ Len(s) = c
  BY <1>1, <1>6
<1>8. \A k \in K : s[Rank(K, k)] = k
  BY <1>4, <1>5, <1>6
<1>9. s = Ascending(K)
  BY <1>2
<1> HIDE DEF s
<1> QED
  BY <1>5, <1>6, <1>7, <1>8, <1>9

\* Of no numbers it is the empty sequence.
LEMMA AscendingEmpty == Ascending({}) = <<>>
BY FS_EmptySet DEF Ascending

\* A greater one comes last.
LEMMA AscendingNext ==
    ASSUME NEW n \in Nat, NEW K, K \subseteq 1 .. n
    PROVE  Ascending(K \cup {n + 1}) = Append(Ascending(K), n + 1)
<1> DEFINE c == Cardinality(K)
           M == K \cup {n + 1}
           s == Ascending(K)
           t == Ascending(M)
<1>1. IsFiniteSet(K) /\ c \in Nat
  BY RankIs
<1>2. M \subseteq 1 .. n + 1 /\ n + 1 \in Nat /\ n + 1 \in M /\ n + 1 \notin K
  OBVIOUS
<1>3. Cardinality(M) = c + 1
  BY <1>1, <1>2, FS_AddElement
<1>4. \A k \in K : Rank(M, k) = Rank(K, k)
  <2> SUFFICES ASSUME NEW k \in K PROVE Rank(M, k) = Rank(K, k)
    OBVIOUS
  <2>1. {i \in M : i <= k} = {i \in K : i <= k}
    OBVIOUS
  <2> QED
    BY <2>1 DEF Rank
<1>5. Rank(M, n + 1) = c + 1
  <2>1. \A i \in M : i <= n + 1
    OBVIOUS
  <2> QED
    BY <1>3, <2>1 DEF Rank
<1>6. s \in Seq(K) /\ Len(s) = c /\ \A j \in 1 .. c : Rank(K, s[j]) = j
  BY AscendingIs
<1> HIDE DEF M
<1>7. /\ t \in Seq(M) /\ Len(t) = c + 1 /\ \A j \in 1 .. c + 1 : Rank(M, t[j]) = j
      /\ \A k, l \in M : Rank(M, k) = Rank(M, l) => k = l
  <2>1. t \in Seq(M) /\ Len(t) = Cardinality(M) /\ \A j \in 1 .. Cardinality(M) : Rank(M, t[j]) = j
    BY <1>2, AscendingIs
  <2>2. \A k, l \in M : Rank(M, k) = Rank(M, l) => k = l
    BY <1>2, RankIs
  <2> QED
    BY <1>3, <2>1, <2>2
<1> HIDE DEF s, t, c
<1>8. \A j \in 1 .. c : t[j] = s[j]
  <2> SUFFICES ASSUME NEW j \in 1 .. c PROVE t[j] = s[j]
    OBVIOUS
  <2>1. s[j] \in K /\ j \in 1 .. c + 1 /\ t[j] \in M
    BY <1>1, <1>6, <1>7
  <2>2. s[j] \in M
    BY <2>1 DEF M
  <2>3. Rank(M, s[j]) = j /\ Rank(M, t[j]) = j
    BY <1>4, <1>6, <1>7, <2>1
  <2> QED
    BY <1>7, <2>1, <2>2, <2>3
<1>9. t[c + 1] = n + 1
  <2>1. t[c + 1] \in M /\ Rank(M, t[c + 1]) = c + 1
    BY <1>1, <1>7
  <2> QED
    BY <1>2, <1>5, <1>7, <2>1
<1>10. t = Append(s, n + 1)
  <2>1. Append(s, n + 1) \in Seq(K \cup {n + 1}) /\ Len(Append(s, n + 1)) = c + 1
    BY <1>1, <1>6
  <2>2. \A j \in 1 .. c + 1 : t[j] = Append(s, n + 1)[j]
    <3> SUFFICES ASSUME NEW j \in 1 .. c + 1 PROVE t[j] = Append(s, n + 1)[j]
      OBVIOUS
    <3>1. CASE j = c + 1
      BY <1>1, <1>6, <1>9, <3>1
    <3>2. CASE j # c + 1
      <4>1. j \in 1 .. c
        BY <1>1, <3>2
      <4> QED
        BY <1>1, <1>6, <1>8, <4>1
    <3> QED
      BY <3>1, <3>2
  <2> QED
    BY <1>1, <1>7, <2>1, <2>2, SeqEqual DEF M
<1> QED
  BY <1>10 DEF s, t, M

-------------------------------------------------------------------------------
(* What the first k things that are meant have set.                        *)

\* They are things that an argument can say.
Said(k) ==
    \A j \in 1 .. k : /\ meant[j][1] \in {"set", "list", "word"}
                      /\ meant[j][1] = "set" => meant[j][2] \in Long
                      /\ meant[j][1] = "list" => meant[j][2] \in Lists
                      /\ meant[j][1] = "word" => meant[j][2] \in Argument

\* An option of one value has the last one that is given.
Scalars(k) ==
    \A o \in Long : Kind[o] \in {"bool", "string", "int"} =>
        vals[o] = IF Sets(o, k) = {} THEN <<>> ELSE meant[Max(Sets(o, k))][3][1]

\* The values at the places ks.
ValuesIn(ks) == [j \in DOMAIN ks |-> meant[ks[j]][3][1]]

\* A list of values has all of them.
Listing(k) == \A o \in Long : Kind[o] = "list" => vals[o] = ValuesIn(Ascending(Sets(o, k)))

\* The names of the variables.
Keys(k) == {meant[j][3][1] : j \in {j \in 1 .. k : Binds(j)}}

\* Variables have the first of their values.
Mapping(k) ==
    /\ mapKeys = Keys(k)
    /\ \A o \in Long : Kind[o] = "map" => vals[o] = MeantMap(o, k)

\* Where the words are that a list collects.
Collects(k) == Ascending({j \in Words(k) : Collected(j)})

\* The list v of option o, as far as it goes, has the words it collects at their places, and, while it is the one
\* that collects words, every one of them.
Holds(o, v, C) ==
    /\ v \in Seq(Argument \cup {Missing})
    /\ Len(v) <= Len(C)
    /\ o = active => Len(v) = Len(C)
    /\ \A q \in 1 .. Len(C) : IF ListBefore(C[q]) = o THEN q <= Len(v) /\ v[q] = meant[C[q]][2]
                              ELSE q <= Len(v) => v[q] = Missing

\* Words are where they belong.
Collecting(k) ==
    /\ active \in Lists \cup {"none"}
    /\ active = ListBefore(k + 1)
    /\ active = "none" => Collects(k) = <<>>
    /\ rest \in Seq(Argument)
    /\ rest = MeantRest(k)
    /\ rest = <<>> <=> Words(k) = {}
    /\ \A o \in Lists : Holds(o, vals[o], Collects(k))

\* The first k things are done.
Sofar(k) == DOMAIN vals = Long /\ Said(k) /\ Scalars(k) /\ Listing(k) /\ Mapping(k) /\ Collecting(k)

-------------------------------------------------------------------------------
(* Where the loop is.                                                      *)

\* From the j-th argument on they are those of the command line.
Ahead(c, j) == \A i \in j + 1 .. Len(argv) : argv[i] = c[2][i]

\* Between two phrases.
BetweenPhrases(c, k) == ~optsDone /\ short = <<>> /\ <<at, k>> \in c[3] /\ Ahead(c, at)

\* At the word that is the value of a list.
AtWord(c, k) ==
    /\ ~optsDone /\ short = <<>>
    /\ at < Len(argv) /\ IsWord(argv[at + 1]) /\ k < Len(meant) /\ meant[k + 1] = <<"word", argv[at + 1]>>
    /\ <<at + 1, k + 1>> \in c[3] /\ Ahead(c, at + 1)

\* In a group of letters, the rest of which says what comes next.
InGroup(c, k) ==
    /\ ~optsDone /\ short # <<>> /\ short \in Argument /\ at >= 1 /\ Ahead(c, at)
    /\ \E x \in c[3] : /\ x[1] >= at /\ x[2] >= k
                       /\ GroupSays(SubSeq(meant, k + 1, x[2]), short, SubSeq(argv, at + 1, x[1]))

\* In a group with something wrong ahead.
InWrong ==
    /\ Wrong /\ ~optsDone /\ short # <<>> /\ at >= 1
    /\ GroupWrong(short, From(argv, at + 1))

\* All that is left are words.
OnlyWords(k) ==
    /\ optsDone /\ short = <<>> /\ Len(argv) - at = Len(meant) - k
    /\ \A i \in 1 .. Len(argv) - at : meant[k + i] = <<"word", argv[at + i]>>

\* The loop has read what says the first k things of command line c.
Stands(c, k) ==
    /\ meant = c[1] /\ Len(argv) = Len(c[2])
    /\ Sofar(k)
    /\ BetweenPhrases(c, k) \/ AtWord(c, k) \/ InGroup(c, k) \/ OnlyWords(k)

\* There is such a place in a command line, or something wrong is being read.
ReadingLine == InWrong \/ \E c \in CommandLines : \E k \in 0 .. Len(meant) : Stands(c, k)

\* The types of the variables.
FlagTypes ==
    /\ argv \in Seq(Argument) /\ at \in 0 .. Len(argv) /\ short \in Argument
    /\ active \in Lists \cup {"none"} /\ optsDone \in BOOLEAN /\ status \in {"parsing", "done", "error"}
    /\ DOMAIN vals = Long

\* What the status says.
Outcome ==
    /\ status = "parsing" => ReadingLine
    /\ status = "error" => Wrong
    /\ status = "done" => Sofar(Len(meant)) /\ meant \in Seq(Thing)

\* The inductive invariant.
FlagsInv == FlagTypes /\ Outcome

-------------------------------------------------------------------------------
(* What is meant stays what it is.                                         *)

\* As long as what is meant stays the same, so does what is said about it.
LEMMA SameMeant ==
    ASSUME meant' = meant
    PROVE  /\ \A k : Said(k)' <=> Said(k)
           /\ \A o, k : Sets(o, k)' = Sets(o, k)
           /\ \A k : Words(k)' = Words(k)
           /\ \A k : ListBefore(k)' = ListBefore(k)
           /\ \A k : Collected(k)' <=> Collected(k)
           /\ \A k : Binds(k)' <=> Binds(k)
           /\ \A k : First(k)' <=> First(k)
<1>1. \A k : Said(k)' <=> Said(k)
  BY DEF Said
<1>2. \A o, k : Sets(o, k)' = Sets(o, k)
  BY DEF Sets
<1>3. \A k : Words(k)' = Words(k)
  BY DEF Words
<1>4. \A k : ListBefore(k)' = ListBefore(k)
  BY DEF ListBefore
<1>5. \A k : Collected(k)' <=> Collected(k)
  BY <1>4 DEF Collected
<1>6. \A k : Binds(k)' <=> Binds(k)
  BY DEF Binds
<1>7. \A k : First(k)' <=> First(k)
  BY <1>6 DEF First
<1> QED
  BY <1>1, <1>2, <1>3, <1>4, <1>5, <1>6, <1>7

\* And what it comes to.
LEMMA SameMeaning ==
    ASSUME meant' = meant
    PROVE  /\ \A k : Collects(k)' = Collects(k)
           /\ \A k : Keys(k)' = Keys(k)
           /\ \A k : MeantRest(k)' = MeantRest(k)
           /\ \A o, k : MeantMap(o, k)' = MeantMap(o, k)
<1>1. \A k : Words(k)' = Words(k) /\ (Collected(k)' <=> Collected(k))
  BY SameMeant
<1>2. \A k : Collects(k)' = Collects(k)
  BY <1>1 DEF Collects
<1>3. \A k : MeantRest(k)' = MeantRest(k)
  BY <1>1 DEF MeantRest
<1>4. \A o, k : Sets(o, k)' = Sets(o, k) /\ (First(k)' <=> First(k))
  BY SameMeant
<1>5. \A o, k : MeantMap(o, k)' = MeantMap(o, k)
  BY <1>4 DEF MeantMap
<1>6. \A k : Keys(k)' = Keys(k)
  <2>1. \A k : Binds(k)' <=> Binds(k)
    BY SameMeant
  <2> QED
    BY <2>1 DEF Keys
<1> QED
  BY <1>2, <1>3, <1>5, <1>6

-------------------------------------------------------------------------------
(* What one more thing that is meant adds.                                 *)

\* One more thing is one more place at which an option is set, if it sets it.
LEMMA SetsNext ==
    ASSUME NEW k \in Nat, NEW o
    PROVE  /\ Sets(o, k) \subseteq 1 .. k
           /\ Sets(o, k + 1) = IF meant[k + 1][1] = "set" /\ meant[k + 1][2] = o
                               THEN Sets(o, k) \cup {k + 1} ELSE Sets(o, k)
<1>1. 1 .. k + 1 = (1 .. k) \cup {k + 1}
  OBVIOUS
<1> QED
  BY <1>1 DEF Sets

\* Which is the last one then.
LEMMA MaxNext ==
    ASSUME NEW k \in Nat, NEW K, K \subseteq 1 .. k
    PROVE  Max(K \cup {k + 1}) = k + 1
<1> DEFINE M == K \cup {k + 1}
<1>1. M \subseteq 0 .. k + 1 /\ M # {} /\ k + 1 \in Nat /\ k + 1 \in M
  OBVIOUS
<1> HIDE DEF M
<1>2. Max(M) \in M /\ \A y \in M : Max(M) >= y
  BY <1>1, MaxOf
<1>3. Max(M) >= k + 1 /\ Max(M) \in 0 .. k + 1
  BY <1>1, <1>2
<1> QED
  BY <1>3 DEF M

\* The list that collects words after a thing: the one that it names, or the one before.
LEMMA ListNext ==
    ASSUME NEW k \in Nat
    PROVE  ListBefore(k + 2) = IF meant[k + 1][1] = "list" THEN meant[k + 1][2] ELSE ListBefore(k + 1)
<1> DEFINE lists(n) == {j \in 1 .. n : meant[j][1] = "list"}
<1>1. ListBefore(k + 2) = IF lists(k + 1) = {} THEN "none" ELSE meant[Max(lists(k + 1))][2]
  <2>1. (k + 2) - 1 = k + 1
    OBVIOUS
  <2>2. ListBefore(k + 2) = IF lists((k + 2) - 1) = {} THEN "none" ELSE meant[Max(lists((k + 2) - 1))][2]
    BY Zenon DEF ListBefore
  <2> HIDE DEF lists
  <2> QED
    BY <2>1, <2>2
<1>2. ListBefore(k + 1) = IF lists(k) = {} THEN "none" ELSE meant[Max(lists(k))][2]
  <2>1. (k + 1) - 1 = k
    OBVIOUS
  <2>2. ListBefore(k + 1) = IF lists((k + 1) - 1) = {} THEN "none" ELSE meant[Max(lists((k + 1) - 1))][2]
    BY Zenon DEF ListBefore
  <2> HIDE DEF lists
  <2> QED
    BY <2>1, <2>2
<1>3. lists(k + 1) = IF meant[k + 1][1] = "list" THEN lists(k) \cup {k + 1} ELSE lists(k)
  <2>1. 1 .. k + 1 = (1 .. k) \cup {k + 1}
    OBVIOUS
  <2> QED
    BY <2>1
<1>4. lists(k) \subseteq 1 .. k
  OBVIOUS
<1> HIDE DEF lists
<1>5. Max(lists(k) \cup {k + 1}) = k + 1
  BY <1>4, MaxNext
<1> QED
  BY <1>1, <1>2, <1>3, <1>5

\* One more thing is one more word, if it is one.
LEMMA WordsNext ==
    ASSUME NEW k \in Nat
    PROVE  /\ Words(k) \subseteq 1 .. k
           /\ Words(k + 1) = IF meant[k + 1][1] = "word" THEN Words(k) \cup {k + 1} ELSE Words(k)
<1>1. 1 .. k + 1 = (1 .. k) \cup {k + 1}
  OBVIOUS
<1> QED
  BY <1>1 DEF Words

\* A word is collected if there is a list by then, and a query.
LEMMA CollectedIs ==
    ASSUME NEW k \in Nat
    PROVE  Collected(k + 1) <=> ListBefore(k + 1) # "none" /\ Words(k) # {}
<1>1. k + 1 - 1 = k
  OBVIOUS
<1> QED
  BY <1>1 DEF Collected, Words

\* Collected words come in the order in which they are said.
LEMMA CollectsNext ==
    ASSUME NEW k \in Nat
    PROVE  Collects(k + 1) = IF meant[k + 1][1] = "word" /\ Collected(k + 1)
                             THEN Append(Collects(k), k + 1) ELSE Collects(k)
<1> DEFINE K(n) == {j \in Words(n) : Collected(j)}
<1>1. K(k) \subseteq 1 .. k
  BY WordsNext
<1>2. K(k + 1) = IF meant[k + 1][1] = "word" /\ Collected(k + 1) THEN K(k) \cup {k + 1} ELSE K(k)
  BY WordsNext
<1>3. \A n : Collects(n) = Ascending(K(n))
  BY DEF Collects
<1> HIDE DEF K
<1>4. Ascending(K(k) \cup {k + 1}) = Append(Ascending(K(k)), k + 1)
  BY <1>1, AscendingNext
<1> QED
  BY <1>2, <1>3, <1>4

\* So do the others.
LEMMA RestNext ==
    ASSUME NEW k \in Nat
    PROVE  MeantRest(k + 1) = IF meant[k + 1][1] = "word" /\ ~ Collected(k + 1)
                              THEN Append(MeantRest(k), meant[k + 1][2]) ELSE MeantRest(k)
<1> DEFINE K(n) == {j \in Words(n) : ~ Collected(j)}
           A(n) == Ascending(K(n))
<1>1. K(k) \subseteq 1 .. k
  BY WordsNext
<1>2. K(k + 1) = IF meant[k + 1][1] = "word" /\ ~ Collected(k + 1) THEN K(k) \cup {k + 1} ELSE K(k)
  BY WordsNext
<1>3. \A n : MeantRest(n) = [j \in DOMAIN A(n) |-> meant[A(n)[j]][2]]
  BY DEF MeantRest
<1> HIDE DEF K
<1>4. Ascending(K(k) \cup {k + 1}) = Append(A(k), k + 1)
  BY <1>1, AscendingNext
<1>5. A(k) \in Seq(K(k))
  BY <1>1, AscendingIs
<1> HIDE DEF A
<1>6. CASE meant[k + 1][1] = "word" /\ ~ Collected(k + 1)
  <2>1. A(k + 1) = Append(A(k), k + 1)
    BY <1>2, <1>4, <1>6 DEF A
  <2> DEFINE n == Len(A(k))
  <2>2. n \in Nat /\ DOMAIN A(k) = 1 .. n
    BY <1>5
  <2>3. DOMAIN A(k + 1) = 1 .. n + 1 /\ A(k + 1)[n + 1] = k + 1 /\ \A j \in 1 .. n : A(k + 1)[j] = A(k)[j]
    BY <1>5, <2>1
  <2> HIDE DEF n
  <2>4. MeantRest(k) = [j \in 1 .. n |-> meant[A(k)[j]][2]]
    BY <1>3, <2>2
  <2>5. MeantRest(k + 1) = [j \in 1 .. n + 1 |-> meant[A(k + 1)[j]][2]]
    BY <1>3, <2>3
  <2>6. Append(MeantRest(k), meant[k + 1][2]) =
          [j \in 1 .. n + 1 |-> IF j = n + 1 THEN meant[k + 1][2] ELSE MeantRest(k)[j]]
    BY <2>2, <2>4
  <2>7. \A j \in 1 .. n + 1 : meant[A(k + 1)[j]][2] = IF j = n + 1 THEN meant[k + 1][2] ELSE MeantRest(k)[j]
    <3> SUFFICES ASSUME NEW j \in 1 .. n + 1
                 PROVE  meant[A(k + 1)[j]][2] = IF j = n + 1 THEN meant[k + 1][2] ELSE MeantRest(k)[j]
      OBVIOUS
    <3>1. CASE j = n + 1
      BY <2>3, <3>1
    <3>2. CASE j # n + 1
      <4>1. j \in 1 .. n
        BY <2>2, <3>2
      <4> QED
        BY <2>3, <2>4, <3>2, <4>1
    <3> QED
      BY <3>1, <3>2
  <2> QED
    BY <1>6, <2>5, <2>6, <2>7
<1>7. CASE ~ (meant[k + 1][1] = "word" /\ ~ Collected(k + 1))
  <2>1. A(k + 1) = A(k)
    BY <1>2, <1>7 DEF A
  <2> QED
    BY <1>3, <1>7, <2>1
<1> QED
  BY <1>6, <1>7

\* A binding is the first of its name if the name is new.
LEMMA FirstIs ==
    ASSUME NEW k \in Nat
    PROVE  First(k + 1) <=> meant[k + 1][3][1] \notin Keys(k)
<1>1. k + 1 - 1 = k
  OBVIOUS
<1> QED
  BY <1>1 DEF First, Keys

\* One more binding is one more name.
LEMMA KeysNext ==
    ASSUME NEW k \in Nat
    PROVE  Keys(k + 1) = IF Binds(k + 1) THEN Keys(k) \cup {meant[k + 1][3][1]} ELSE Keys(k)
<1>1. 1 .. k + 1 = (1 .. k) \cup {k + 1}
  OBVIOUS
<1> QED
  BY <1>1 DEF Keys

\* And one more value, if the name is new.
LEMMA MapNext ==
    ASSUME NEW k \in Nat, NEW o
    PROVE  MeantMap(o, k + 1) =
             IF meant[k + 1][1] = "set" /\ meant[k + 1][2] = o /\ First(k + 1)
             THEN MeantMap(o, k) \cup {meant[k + 1][3]} ELSE MeantMap(o, k)
<1>1. CASE meant[k + 1][1] = "set" /\ meant[k + 1][2] = o
  <2>1. Sets(o, k + 1) = Sets(o, k) \cup {k + 1}
    BY <1>1, SetsNext
  <2>2. MeantMap(o, k + 1) = {meant[j][3] : j \in {j \in Sets(o, k) \cup {k + 1} : First(j)}}
    BY <2>1 DEF MeantMap
  <2>3. MeantMap(o, k) = {meant[j][3] : j \in {j \in Sets(o, k) : First(j)}}
    BY DEF MeantMap
  <2> DEFINE F == {j \in Sets(o, k) : First(j)}
  <2>4. {j \in Sets(o, k) \cup {k + 1} : First(j)} = IF First(k + 1) THEN F \cup {k + 1} ELSE F
    OBVIOUS
  <2>5. MeantMap(o, k) = {meant[j][3] : j \in F}
    BY <2>3
  <2> HIDE DEF F
  <2>6. {meant[j][3] : j \in F \cup {k + 1}} = {meant[j][3] : j \in F} \cup {meant[k + 1][3]}
    OBVIOUS
  <2> QED
    BY <1>1, <2>2, <2>4, <2>5, <2>6
<1>2. CASE ~ (meant[k + 1][1] = "set" /\ meant[k + 1][2] = o)
  <2>1. Sets(o, k + 1) = Sets(o, k)
    BY <1>2, SetsNext
  <2> QED
    BY <1>2, <2>1 DEF MeantMap
<1> QED
  BY <1>1, <1>2

-------------------------------------------------------------------------------
(* How a word is taken, and how an option with its values.                 *)

\* What taking a word does.
TakesWord(w) ==
    /\ IF active # "none" /\ rest # <<>>
       THEN vals' = [vals EXCEPT ![active] = Append(@, w)] /\ UNCHANGED rest
       ELSE rest' = Append(rest, w) /\ UNCHANGED vals
    /\ UNCHANGED <<meant, mapKeys, active>>

\* What taking an option with the values ws does.
TakesOption(o, ws) ==
    /\ vals' = [vals EXCEPT ![o] =
                    CASE Kind[o] = "bool" -> <<"true">>
                      [] Kind[o] \in {"string", "int"} -> ws[1]
                      [] Kind[o] = "list" -> Append(@, ws[1])
                      [] Kind[o] = "rest" -> IF active = "none" THEN @ ELSE Padded(@, Len(vals[active]))
                      [] Kind[o] = "map" -> IF ws[1] \in mapKeys THEN @ ELSE @ \cup {<<ws[1], ws[2]>>}]
    /\ mapKeys' = IF Kind[o] = "map" THEN mapKeys \cup {ws[1]} ELSE mapKeys
    /\ active' = IF Kind[o] = "rest" THEN o ELSE active
    /\ UNCHANGED <<meant, rest>>

-------------------------------------------------------------------------------
(* The values of the options that the next thing does not set.             *)

\* The lists are the options that collect words; none is not the name of one.
LEMMA ListsAre == \A o \in Long : (Kind[o] = "rest" <=> o \in Lists) /\ (o \in Lists => o # "none")
BY OptionsAssumption DEF Lists

\* An option that the next thing does not set and that keeps its value has the value it should.
LEMMA Unaffected ==
    ASSUME NEW k \in Nat, Sofar(k), meant' = meant, NEW o \in Long, vals'[o] = vals[o],
           ~ (meant[k + 1][1] = "set" /\ meant[k + 1][2] = o)
    PROVE  /\ Kind[o] \in {"bool", "string", "int"} =>
                vals'[o] = IF Sets(o, k + 1)' = {} THEN <<>> ELSE meant'[Max(Sets(o, k + 1)')][3][1]
           /\ Kind[o] = "list" => vals'[o] = ValuesIn(Ascending(Sets(o, k + 1)))'
           /\ Kind[o] = "map" => vals'[o] = MeantMap(o, k + 1)'
<1>1. Sets(o, k + 1)' = Sets(o, k)
  BY SameMeant, SetsNext
<1>2. MeantMap(o, k + 1)' = MeantMap(o, k)
  BY SameMeaning, MapNext
<1>3. Kind[o] \in {"bool", "string", "int"} => vals[o] = IF Sets(o, k) = {} THEN <<>> ELSE meant[Max(Sets(o, k))][3][1]
  BY DEF Sofar, Scalars
<1>4. Kind[o] = "list" => vals[o] = ValuesIn(Ascending(Sets(o, k)))
  BY DEF Sofar, Listing
<1>5. Kind[o] = "map" => vals[o] = MeantMap(o, k)
  BY DEF Sofar, Mapping
<1>6. Kind[o] = "list" => vals'[o] = ValuesIn(Ascending(Sets(o, k + 1)))'
  <2>1. Ascending(Sets(o, k + 1))' = Ascending(Sets(o, k))
    BY <1>1
  <2> QED
    BY <1>4, <2>1 DEF ValuesIn
<1> QED
  BY <1>1, <1>2, <1>3, <1>5, <1>6

\* An option that gives the values ws.
LEMMA GivenIs ==
    ASSUME NEW k \in Nat, NEW o \in Long, NEW ws, meant[k + 1] = Given(o, ws)
    PROVE  /\ Kind[o] = "rest" => meant[k + 1][1] = "list" /\ meant[k + 1][2] = o
           /\ Kind[o] # "rest" => meant[k + 1][1] = "set" /\ meant[k + 1][2] = o
           /\ Kind[o] = "bool" => meant[k + 1][3] = <<<<"true">>>>
           /\ Kind[o] \notin {"bool", "rest"} => meant[k + 1][3] = ws
BY DEF Given

\* With a word or an option that is given, the things so far are things that can be said.
LEMMA SaidNext ==
    ASSUME NEW k \in Nat, Said(k),
           \/ \E w \in Argument : meant[k + 1] = <<"word", w>>
           \/ \E o \in Long : \E ws : meant[k + 1] = Given(o, ws)
    PROVE  Said(k + 1)
<1>1. /\ meant[k + 1][1] \in {"set", "list", "word"}
      /\ meant[k + 1][1] = "set" => meant[k + 1][2] \in Long
      /\ meant[k + 1][1] = "list" => meant[k + 1][2] \in Lists
      /\ meant[k + 1][1] = "word" => meant[k + 1][2] \in Argument
  <2>1. CASE \E w \in Argument : meant[k + 1] = <<"word", w>>
    BY <2>1
  <2>2. CASE \E o \in Long : \E ws : meant[k + 1] = Given(o, ws)
    <3>1. PICK o \in Long : \E ws : meant[k + 1] = Given(o, ws)
      BY <2>2
    <3>2. PICK ws : meant[k + 1] = Given(o, ws)
      BY <3>1
    <3> QED
      BY <3>2, GivenIs, ListsAre
  <2> QED
    BY <2>1, <2>2
<1>2. \A j \in 1 .. k + 1 : j = k + 1 \/ j \in 1 .. k
  OBVIOUS
<1> QED
  BY <1>1, <1>2 DEF Said

-------------------------------------------------------------------------------
(* A word.                                                                 *)

\* A word that is taken is where it belongs.
LEMMA WordCollected ==
    ASSUME NEW k \in Nat, Sofar(k), NEW w \in Argument, meant[k + 1] = <<"word", w>>, TakesWord(w)
    PROVE  Collecting(k + 1)'
<1> DEFINE C == Collects(k)
<1>1. meant' = meant /\ active' = active
  BY DEF TakesWord
<1>2. /\ active \in Lists \cup {"none"} /\ active = ListBefore(k + 1) /\ (active = "none" => C = <<>>)
      /\ rest \in Seq(Argument) /\ rest = MeantRest(k) /\ (rest = <<>> <=> Words(k) = {})
  BY DEF Sofar, Collecting
<1>3. ListBefore(k + 2)' = active
  BY <1>1, <1>2, SameMeant, ListNext
<1>4. Collected(k + 1) <=> active # "none" /\ rest # <<>>
  BY <1>2, CollectedIs
<1>5. Words(k + 1)' = Words(k) \cup {k + 1}
  <2>1. Words(k + 1)' = Words(k + 1)
    BY <1>1, SameMeant
  <2>2. meant[k + 1][1] = "word"
    OBVIOUS
  <2> QED
    BY <2>1, <2>2, WordsNext
<1>6. MeantRest(k + 1)' = IF Collected(k + 1) THEN rest ELSE Append(rest, w)
  <2>1. MeantRest(k + 1)' = MeantRest(k + 1)
    BY <1>1, SameMeaning
  <2>2. meant[k + 1][1] = "word" /\ meant[k + 1][2] = w
    OBVIOUS
  <2>3. MeantRest(k + 1) = IF Collected(k + 1) THEN MeantRest(k) ELSE Append(MeantRest(k), w)
    BY <2>2, RestNext
  <2> QED
    BY <1>2, <2>1, <2>3
<1>7. Collects(k + 1)' = IF Collected(k + 1) THEN Append(C, k + 1) ELSE C
  <2>1. Collects(k + 1)' = Collects(k + 1)
    BY <1>1, SameMeaning
  <2>2. meant[k + 1][1] = "word"
    OBVIOUS
  <2> QED
    BY <2>1, <2>2, CollectsNext
<1>8. rest' = MeantRest(k + 1)' /\ rest' \in Seq(Argument) /\ rest' # <<>>
  <2>1. Append(rest, w) \in Seq(Argument) /\ Append(rest, w) # <<>>
    BY <1>2, AppendProperties
  <2> QED
    BY <1>2, <1>4, <1>6, <2>1 DEF TakesWord
<1>9. \A p \in Lists : Holds(p, vals[p], C)
  BY DEF Sofar, Collecting
<1>10. C \in Seq(Int)
  <2>1. C \in Seq({j \in Words(k) : Collected(j)})
    BY WordsNext, AscendingIs DEF Collects
  <2>2. \A j \in Words(k) : j \in Int
    BY DEF Words
  <2> QED
    BY <2>1, <2>2
<1> HIDE DEF C
<1>11. DOMAIN vals = Long
  BY DEF Sofar
<1>12. \A p \in Lists : Holds(p, vals[p], Collects(k + 1))'
  <2> SUFFICES ASSUME NEW p \in Lists PROVE Holds(p, vals[p], Collects(k + 1))'
    OBVIOUS
  <2>1. p \in Long
    BY DEF Lists
  <2>2. PICK v : v = vals[p]
    OBVIOUS
  <2>3. /\ v \in Seq(Argument \cup {Missing}) /\ Len(v) <= Len(C) /\ (p = active => Len(v) = Len(C))
        /\ \A q \in 1 .. Len(C) : IF ListBefore(C[q]) = p THEN q <= Len(v) /\ v[q] = meant[C[q]][2]
                                  ELSE q <= Len(v) => v[q] = Missing
    BY <1>9, <2>2 DEF Holds
  <2>4. PICK D : D = Collects(k + 1)'
    OBVIOUS
  <2>5. \A j : ListBefore(j)' = ListBefore(j)
    BY <1>1, SameMeant
  <2>6. CASE ~ Collected(k + 1)
    <3>1. D = C /\ vals' = vals
      BY <1>4, <1>7, <2>4, <2>6 DEF TakesWord
    <3> QED
      BY <1>1, <2>2, <2>3, <2>4, <2>5, <3>1 DEF Holds
  <2>7. CASE Collected(k + 1)
    <3>1. D = Append(C, k + 1) /\ vals' = [vals EXCEPT ![active] = Append(@, w)] /\ active \in Lists
      BY <1>2, <1>4, <1>7, <2>4, <2>7 DEF TakesWord
    <3>2. Len(D) = Len(C) + 1 /\ D[Len(C) + 1] = k + 1 /\ (\A q \in 1 .. Len(C) : D[q] = C[q]) /\ Len(C) \in Nat
      BY <1>10, <3>1
    <3>3. PICK u : u = vals'[p]
      OBVIOUS
    <3>4. ASSUME NEW q \in 1 .. Len(D) PROVE q = Len(C) + 1 \/ q \in 1 .. Len(C)
      BY <3>2
    <3>5. CASE p = active
      <4>1. u = Append(v, w)
        BY <1>11, <2>1, <2>2, <3>1, <3>3, <3>5
      <4>2. u \in Seq(Argument \cup {Missing}) /\ Len(u) = Len(v) + 1 /\ u[Len(v) + 1] = w
            /\ \A q \in 1 .. Len(v) : u[q] = v[q]
        BY <2>3, <4>1
      <4>3. Len(u) = Len(D)
        BY <2>3, <3>2, <3>5, <4>2
      <4>4. \A q \in 1 .. Len(D) : IF ListBefore(D[q]) = p THEN q <= Len(u) /\ u[q] = meant[D[q]][2]
                                   ELSE q <= Len(u) => u[q] = Missing
        <5> SUFFICES ASSUME NEW q \in 1 .. Len(D)
                     PROVE  IF ListBefore(D[q]) = p THEN q <= Len(u) /\ u[q] = meant[D[q]][2]
                            ELSE q <= Len(u) => u[q] = Missing
          OBVIOUS
        <5>1. CASE q = Len(C) + 1
          <6>1. D[q] = k + 1 /\ ListBefore(D[q]) = p
            BY <1>2, <3>2, <3>5, <5>1
          <6>2. q <= Len(u) /\ u[q] = w
            BY <2>3, <3>5, <4>2, <4>3, <5>1
          <6>3. meant[D[q]][2] = w
            BY <6>1
          <6> QED
            BY <6>1, <6>2, <6>3
        <5>2. CASE q \in 1 .. Len(C)
          <6>1. q \in 1 .. Len(v) /\ u[q] = v[q] /\ D[q] = C[q] /\ q <= Len(u)
            BY <2>3, <3>2, <3>5, <4>2, <5>2
          <6> QED
            BY <2>3, <5>2, <6>1
        <5> QED
          BY <3>4, <5>1, <5>2
      <4> QED
        BY <1>1, <2>4, <2>5, <3>3, <4>2, <4>3, <4>4 DEF Holds
    <3>6. CASE p # active
      <4>1. u = v
        BY <1>11, <2>1, <2>2, <3>1, <3>3, <3>6
      <4>2. \A q \in 1 .. Len(D) : IF ListBefore(D[q]) = p THEN q <= Len(u) /\ u[q] = meant[D[q]][2]
                                   ELSE q <= Len(u) => u[q] = Missing
        <5> SUFFICES ASSUME NEW q \in 1 .. Len(D)
                     PROVE  IF ListBefore(D[q]) = p THEN q <= Len(u) /\ u[q] = meant[D[q]][2]
                            ELSE q <= Len(u) => u[q] = Missing
          OBVIOUS
        <5>1. CASE q = Len(C) + 1
          <6>1. ListBefore(D[q]) # p
            BY <1>2, <3>2, <3>6, <5>1
          <6>2. ~ (q <= Len(u))
            BY <2>3, <3>2, <4>1, <5>1
          <6> QED
            BY <6>1, <6>2
        <5>2. CASE q \in 1 .. Len(C)
          BY <2>3, <3>2, <4>1, <5>2
        <5> QED
          BY <3>4, <5>1, <5>2
      <4>3. Len(u) <= Len(D)
        BY <2>3, <3>2, <4>1
      <4> QED
        BY <1>1, <2>3, <2>4, <2>5, <3>3, <3>6, <4>1, <4>2, <4>3 DEF Holds
    <3> QED
      BY <3>5, <3>6
  <2> QED
    BY <2>6, <2>7
<1>13. active' = "none" => Collects(k + 1)' = <<>>
  BY <1>1, <1>2, <1>4, <1>7
<1>14. Words(k + 1)' # {}
  BY <1>5
<1>15. active' = ListBefore(k + 1 + 1)'
  <2>1. k + 1 + 1 = k + 2
    OBVIOUS
  <2> QED
    BY <1>1, <1>3, <2>1
<1> QED
  BY <1>1, <1>2, <1>8, <1>12, <1>13, <1>14, <1>15 DEF Collecting

\* With a word that is taken, one more thing that is meant is done.
LEMMA WordTaken ==
    ASSUME NEW k \in Nat, Sofar(k), NEW w \in Argument, meant[k + 1] = <<"word", w>>, TakesWord(w)
    PROVE  Sofar(k + 1)'
<1>1. meant' = meant /\ mapKeys' = mapKeys /\ meant[k + 1][1] = "word"
  BY DEF TakesWord
<1>2. Collecting(k + 1)'
  BY WordCollected
<1>3. Said(k + 1)'
  <2>1. Said(k + 1)
    BY SaidNext DEF Sofar
  <2> QED
    BY <1>1, <2>1, SameMeant
<1>4. DOMAIN vals = Long /\ active \in Lists \cup {"none"}
  BY DEF Sofar, Collecting
<1>5. DOMAIN vals' = Long
  BY <1>4 DEF TakesWord
<1>6. \A o \in Long : Kind[o] # "rest" => vals'[o] = vals[o]
  BY <1>4, ListsAre DEF TakesWord
<1>7. Scalars(k + 1)'
  <2> SUFFICES ASSUME NEW o \in Long, Kind[o] \in {"bool", "string", "int"}
               PROVE  vals'[o] = IF Sets(o, k + 1)' = {} THEN <<>> ELSE meant'[Max(Sets(o, k + 1)')][3][1]
    BY DEF Scalars
  <2>1. vals'[o] = vals[o]
    BY <1>6
  <2> QED
    BY <1>1, <2>1, Unaffected
<1>8. Listing(k + 1)'
  <2> SUFFICES ASSUME NEW o \in Long, Kind[o] = "list"
               PROVE  vals'[o] = ValuesIn(Ascending(Sets(o, k + 1)))'
    BY DEF Listing
  <2>1. vals'[o] = vals[o]
    BY <1>6
  <2> QED
    BY <1>1, <2>1, Unaffected
<1>9. Mapping(k + 1)'
  <2>1. mapKeys' = Keys(k + 1)'
    <3>1. Keys(k + 1)' = Keys(k + 1) /\ ~ Binds(k + 1)
      BY <1>1, SameMeaning DEF Binds
    <3> QED
      BY <1>1, <3>1, KeysNext DEF Sofar, Mapping
  <2>2. ASSUME NEW o \in Long, Kind[o] = "map" PROVE vals'[o] = MeantMap(o, k + 1)'
    <3>1. vals'[o] = vals[o]
      BY <1>6, <2>2
    <3> QED
      BY <1>1, <2>2, <3>1, Unaffected
  <2> QED
    BY <2>1, <2>2 DEF Mapping
<1> QED
  BY <1>2, <1>3, <1>5, <1>7, <1>8, <1>9 DEF Sofar

-------------------------------------------------------------------------------
(* An option with its values.                                              *)

\* The next thing is an option whose values are taken.
GivesNext(k, o, ws) ==
    /\ Sofar(k)
    /\ ws \in Seq(Argument) /\ Len(ws) = Operands(o)
    /\ meant[k + 1] = Given(o, ws)
    /\ TakesOption(o, ws)

\* The other options keep their values.
LEMMA OtherOptionsKept ==
    ASSUME NEW k \in Nat, NEW o \in Long, NEW ws, GivesNext(k, o, ws)
    PROVE  /\ DOMAIN vals = Long /\ DOMAIN vals' = Long
           /\ \A p \in Long : p # o => vals'[p] = vals[p]
BY DEF GivesNext, TakesOption, Sofar

\* An option that is given has the value it is given, if it has one value.
LEMMA GivenScalars ==
    ASSUME NEW k \in Nat, NEW o \in Long, NEW ws, GivesNext(k, o, ws)
    PROVE  Scalars(k + 1)'
<1>1. meant' = meant /\ Sofar(k) /\ meant[k + 1] = Given(o, ws)
  BY DEF GivesNext, TakesOption
<1> SUFFICES ASSUME NEW p \in Long, Kind[p] \in {"bool", "string", "int"}
             PROVE  vals'[p] = IF Sets(p, k + 1)' = {} THEN <<>> ELSE meant'[Max(Sets(p, k + 1)')][3][1]
  BY DEF Scalars
<1>2. CASE p # o
  <2>1. vals'[p] = vals[p]
    BY <1>2, OtherOptionsKept
  <2>2. ~ (meant[k + 1][1] = "set" /\ meant[k + 1][2] = p)
    <3>1. IF Kind[o] = "rest" THEN meant[k + 1][1] = "list" ELSE meant[k + 1][2] = o
      BY <1>1, GivenIs
    <3> QED
      BY <1>2, <3>1
  <2> QED
    BY <1>1, <2>1, <2>2, Unaffected
<1>3. CASE p = o
  <2>1. Sets(o, k + 1)' = Sets(o, k) \cup {k + 1} /\ Sets(o, k) \subseteq 1 .. k
    <3>1. meant[k + 1][1] = "set" /\ meant[k + 1][2] = o
      BY <1>1, <1>3, GivenIs
    <3>2. Sets(o, k + 1)' = Sets(o, k + 1)
      BY <1>1, SameMeant
    <3> QED
      BY <3>1, <3>2, SetsNext
  <2>2. Max(Sets(o, k + 1)') = k + 1
    BY <2>1, MaxNext
  <2>3. meant[k + 1][3][1] = IF Kind[o] = "bool" THEN <<"true">> ELSE ws[1]
    BY <1>1, <1>3, GivenIs
  <2>4. vals'[o] = IF Kind[o] = "bool" THEN <<"true">> ELSE ws[1]
    BY <1>3, OtherOptionsKept DEF GivesNext, TakesOption
  <2> QED
    BY <1>1, <1>3, <2>1, <2>2, <2>3, <2>4
<1> QED
  BY <1>2, <1>3

\* It has one more, if it is a list of values.
LEMMA GivenListing ==
    ASSUME NEW k \in Nat, NEW o \in Long, NEW ws, GivesNext(k, o, ws)
    PROVE  Listing(k + 1)'
<1>1. meant' = meant /\ Sofar(k) /\ meant[k + 1] = Given(o, ws)
  BY DEF GivesNext, TakesOption
<1> SUFFICES ASSUME NEW p \in Long, Kind[p] = "list"
             PROVE  vals'[p] = ValuesIn(Ascending(Sets(p, k + 1)))'
  BY DEF Listing
<1>2. CASE p # o
  <2>1. vals'[p] = vals[p]
    BY <1>2, OtherOptionsKept
  <2>2. ~ (meant[k + 1][1] = "set" /\ meant[k + 1][2] = p)
    <3>1. IF Kind[o] = "rest" THEN meant[k + 1][1] = "list" ELSE meant[k + 1][2] = o
      BY <1>1, GivenIs
    <3> QED
      BY <1>2, <3>1
  <2> QED
    BY <1>1, <2>1, <2>2, Unaffected
<1>3. CASE p = o
  <2>1. Sets(o, k + 1)' = Sets(o, k) \cup {k + 1} /\ Sets(o, k) \subseteq 1 .. k
    <3>1. meant[k + 1][1] = "set" /\ meant[k + 1][2] = o
      BY <1>1, <1>3, GivenIs
    <3>2. Sets(o, k + 1)' = Sets(o, k + 1)
      BY <1>1, SameMeant
    <3> QED
      BY <3>1, <3>2, SetsNext
  <2> DEFINE s == Ascending(Sets(o, k))
  <2>2. Ascending(Sets(o, k + 1))' = Append(s, k + 1)
    BY <2>1, AscendingNext
  <2>3. vals[o] = [j \in DOMAIN s |-> meant[s[j]][3][1]]
    BY <1>1, <1>3 DEF Sofar, Listing, ValuesIn
  <2>4. s \in Seq(Sets(o, k))
    BY <2>1, AscendingIs
  <2> HIDE DEF s
  <2>5. PICK n \in Nat : n = Len(s)
    BY <2>4
  <2>6. vals[o] = [j \in 1 .. n |-> meant[s[j]][3][1]]
    BY <2>3, <2>4, <2>5
  <2>7. vals'[o] = Append(vals[o], ws[1])
    BY <1>3, OtherOptionsKept DEF GivesNext, TakesOption
  <2>8. vals'[o] = [j \in 1 .. n + 1 |-> IF j = n + 1 THEN ws[1] ELSE vals[o][j]]
    BY <2>6, <2>7
  <2>9. meant[k + 1][3][1] = ws[1]
    BY <1>1, <1>3, GivenIs
  <2>10. PICK t : t = Append(s, k + 1)
    OBVIOUS
  <2>11. DOMAIN t = 1 .. n + 1 /\ t[n + 1] = k + 1 /\ \A j \in 1 .. n : t[j] = s[j]
    BY <2>4, <2>5, <2>10
  <2>12. \A j \in 1 .. n + 1 : meant[t[j]][3][1] = IF j = n + 1 THEN ws[1] ELSE vals[o][j]
    <3> SUFFICES ASSUME NEW j \in 1 .. n + 1
                 PROVE  meant[t[j]][3][1] = IF j = n + 1 THEN ws[1] ELSE vals[o][j]
      OBVIOUS
    <3>1. CASE j = n + 1
      BY <2>9, <2>11, <3>1
    <3>2. CASE j # n + 1
      <4>1. j \in 1 .. n
        BY <3>2
      <4> QED
        BY <2>6, <2>11, <3>2, <4>1
    <3> QED
      BY <3>1, <3>2
  <2>13. vals'[o] = [j \in DOMAIN t |-> meant[t[j]][3][1]]
    BY <2>8, <2>11, <2>12
  <2> QED
    BY <1>1, <1>3, <2>2, <2>10, <2>13 DEF ValuesIn
<1> QED
  BY <1>2, <1>3

\* A variable has the value that is the first for its name.
LEMMA GivenMapping ==
    ASSUME NEW k \in Nat, NEW o \in Long, NEW ws, GivesNext(k, o, ws)
    PROVE  Mapping(k + 1)'
<1>1. meant' = meant /\ Sofar(k) /\ meant[k + 1] = Given(o, ws)
  BY DEF GivesNext, TakesOption
<1>2. Binds(k + 1) <=> Kind[o] = "map"
  BY <1>1, GivenIs DEF Binds
<1>3. mapKeys = Keys(k)
  BY <1>1 DEF Sofar, Mapping
<1>4. mapKeys' = Keys(k + 1)'
  <2>1. Keys(k + 1)' = Keys(k + 1)
    BY <1>1, SameMeaning
  <2>2. mapKeys' = IF Kind[o] = "map" THEN mapKeys \cup {ws[1]} ELSE mapKeys
    BY DEF GivesNext, TakesOption
  <2>3. Kind[o] = "map" => meant[k + 1][3][1] = ws[1]
    BY <1>1, GivenIs
  <2> QED
    BY <1>2, <1>3, <2>1, <2>2, <2>3, KeysNext
<1>5. ASSUME NEW p \in Long, Kind[p] = "map" PROVE vals'[p] = MeantMap(p, k + 1)'
  <2>1. CASE p # o
    <3>1. vals'[p] = vals[p]
      BY <2>1, OtherOptionsKept
    <3>2. ~ (meant[k + 1][1] = "set" /\ meant[k + 1][2] = p)
      BY <1>1, <2>1, GivenIs
    <3> QED
      BY <1>1, <1>5, <3>1, <3>2, Unaffected
  <2>2. CASE p = o
    <3>1. meant[k + 1][1] = "set" /\ meant[k + 1][2] = o /\ meant[k + 1][3] = ws
      BY <1>1, <1>5, <2>2, GivenIs
    <3>2. ws = <<ws[1], ws[2]>>
      <4>1. Operands(o) = 2
        BY <1>5, <2>2 DEF Operands
      <4> QED
        BY <4>1 DEF GivesNext
    <3>3. First(k + 1) <=> ws[1] \notin mapKeys
      BY <1>3, <3>1, FirstIs
    <3>4. MeantMap(o, k + 1)' = IF First(k + 1) THEN MeantMap(o, k) \cup {ws} ELSE MeantMap(o, k)
      BY <1>1, <3>1, SameMeaning, MapNext
    <3>5. vals'[o] = IF ws[1] \in mapKeys THEN vals[o] ELSE vals[o] \cup {<<ws[1], ws[2]>>}
      BY <1>5, <2>2, OtherOptionsKept DEF GivesNext, TakesOption
    <3>6. vals[o] = MeantMap(o, k)
      BY <1>1, <1>5, <2>2 DEF Sofar, Mapping
    <3> QED
      BY <2>2, <3>2, <3>3, <3>4, <3>5, <3>6
  <2> QED
    BY <2>1, <2>2
<1> QED
  BY <1>4, <1>5 DEF Mapping

\* A list that is filled up has its elements in their places, and none after them.
LEMMA PaddedIs ==
    ASSUME NEW v \in Seq(Argument \cup {Missing}), NEW n \in Nat, Len(v) <= n
    PROVE  /\ Padded(v, n) \in Seq(Argument \cup {Missing})
           /\ Len(Padded(v, n)) = n
           /\ \A q \in 1 .. Len(v) : Padded(v, n)[q] = v[q]
           /\ \A q \in Len(v) + 1 .. n : Padded(v, n)[q] = Missing
<1> DEFINE m == n - Len(v)
           u == [j \in 1 .. m |-> Missing]
<1>1. Len(v) \in Nat /\ m \in Nat
  OBVIOUS
<1>2. u \in Seq(Argument \cup {Missing}) /\ Len(u) = m /\ \A q \in 1 .. m : u[q] = Missing
  BY <1>1
<1>3. Padded(v, n) = v \o u
  BY DEF Padded
<1> HIDE DEF u
<1>4. /\ v \o u \in Seq(Argument \cup {Missing}) /\ Len(v \o u) = n
      /\ \A q \in 1 .. Len(v) : (v \o u)[q] = v[q]
      /\ \A q \in Len(v) + 1 .. n : (v \o u)[q] = u[q - Len(v)]
  BY <1>1, <1>2, ConcatProperties
<1>5. \A q \in Len(v) + 1 .. n : q - Len(v) \in 1 .. m
  BY <1>1
<1> QED
  BY <1>2, <1>3, <1>4, <1>5

\* A list that is named collects words from then on, at their places among all of those collected.
LEMMA GivenCollecting ==
    ASSUME NEW k \in Nat, NEW o \in Long, NEW ws, GivesNext(k, o, ws)
    PROVE  Collecting(k + 1)'
<1> DEFINE C == Collects(k)
<1>1. meant' = meant /\ Sofar(k) /\ meant[k + 1] = Given(o, ws) /\ rest' = rest
  BY DEF GivesNext, TakesOption
<1>2. /\ active \in Lists \cup {"none"} /\ active = ListBefore(k + 1) /\ (active = "none" => C = <<>>)
      /\ rest \in Seq(Argument) /\ rest = MeantRest(k) /\ (rest = <<>> <=> Words(k) = {})
      /\ \A p \in Lists : Holds(p, vals[p], C)
  BY <1>1 DEF Sofar, Collecting
<1>3. meant[k + 1][1] = (IF Kind[o] = "rest" THEN "list" ELSE "set") /\ meant[k + 1][2] = o
  BY <1>1, GivenIs
<1>4. Words(k + 1)' = Words(k) /\ MeantRest(k + 1)' = MeantRest(k) /\ Collects(k + 1)' = C
  <2>1. Words(k + 1)' = Words(k + 1) /\ MeantRest(k + 1)' = MeantRest(k + 1) /\ Collects(k + 1)' = Collects(k + 1)
    BY <1>1, SameMeant, SameMeaning
  <2>2. meant[k + 1][1] # "word"
    BY <1>3
  <2> QED
    BY <2>1, <2>2, WordsNext, RestNext, CollectsNext
<1>5. active' = IF Kind[o] = "rest" THEN o ELSE active
  BY DEF GivesNext, TakesOption
<1>6. active' = ListBefore(k + 1 + 1)' /\ active' \in Lists \cup {"none"} /\ (active' = "none" => active = "none")
  <2>1. k + 1 + 1 = k + 2
    OBVIOUS
  <2>2. ListBefore(k + 2)' = ListBefore(k + 2)
    BY <1>1, SameMeant
  <2>3. ListBefore(k + 2) = IF Kind[o] = "rest" THEN o ELSE active
    BY <1>2, <1>3, ListNext
  <2>4. Kind[o] = "rest" => o \in Lists /\ o # "none"
    BY ListsAre
  <2> QED
    BY <1>2, <1>5, <2>1, <2>2, <2>3, <2>4
<1>7. C \in Seq(Words(k))
  <2>1. C \in Seq({j \in Words(k) : Collected(j)})
    BY WordsNext, AscendingIs DEF Collects
  <2> QED
    BY <2>1
<1> HIDE DEF C
<1>8. Len(C) \in Nat
  BY <1>7
<1>9. \A p \in Lists : Holds(p, vals[p], Collects(k + 1))'
  <2> SUFFICES ASSUME NEW p \in Lists PROVE Holds(p, vals[p], Collects(k + 1))'
    OBVIOUS
  <2>1. p \in Long /\ Kind[p] = "rest"
    BY DEF Lists
  <2>2. PICK v : v = vals[p]
    OBVIOUS
  <2>3. /\ v \in Seq(Argument \cup {Missing}) /\ Len(v) <= Len(C) /\ (p = active => Len(v) = Len(C))
        /\ \A q \in 1 .. Len(C) : IF ListBefore(C[q]) = p THEN q <= Len(v) /\ v[q] = meant[C[q]][2]
                                  ELSE q <= Len(v) => v[q] = Missing
    BY <1>2, <2>2 DEF Holds
  <2>4. \A j : ListBefore(j)' = ListBefore(j)
    BY <1>1, SameMeant
  <2>5. PICK u : u = vals'[p]
    OBVIOUS
  <2>6. CASE p # o
    <3>1. u = v
      BY <2>1, <2>2, <2>5, <2>6, OtherOptionsKept
    <3>2. p = active' => p = active
      BY <1>5, <2>6
    <3> QED
      BY <1>1, <1>4, <2>3, <2>4, <2>5, <3>1, <3>2 DEF Holds
  <2>7. CASE p = o /\ active = "none"
    <3>1. u = v
      BY <2>1, <2>2, <2>5, <2>7, OtherOptionsKept DEF GivesNext, TakesOption
    <3>2. Len(C) = 0 /\ Len(v) \in Nat
      BY <1>2, <2>3, <2>7
    <3>3. Len(v) = Len(C)
      BY <2>3, <3>2
    <3> QED
      BY <1>1, <1>4, <2>3, <2>4, <2>5, <3>1, <3>3 DEF Holds
  <2>8. CASE p = o /\ active # "none"
    <3>1. active \in Lists
      BY <1>2, <2>8
    <3>2. Len(vals[active]) = Len(C)
      BY <1>2, <3>1 DEF Holds
    <3>3. u = Padded(v, Len(C))
      BY <2>1, <2>2, <2>5, <2>8, <3>2, OtherOptionsKept DEF GivesNext, TakesOption
    <3>4. /\ u \in Seq(Argument \cup {Missing}) /\ Len(u) = Len(C)
          /\ \A q \in 1 .. Len(v) : u[q] = v[q]
          /\ \A q \in Len(v) + 1 .. Len(C) : u[q] = Missing
      BY <1>8, <2>3, <3>3, PaddedIs
    <3>5. \A q \in 1 .. Len(C) : IF ListBefore(C[q]) = p THEN q <= Len(u) /\ u[q] = meant[C[q]][2]
                                 ELSE q <= Len(u) => u[q] = Missing
      <4> SUFFICES ASSUME NEW q \in 1 .. Len(C)
                   PROVE  IF ListBefore(C[q]) = p THEN q <= Len(u) /\ u[q] = meant[C[q]][2]
                          ELSE q <= Len(u) => u[q] = Missing
        OBVIOUS
      <4>1. q <= Len(u) /\ Len(v) \in Nat
        BY <2>3, <3>4
      <4>2. CASE q <= Len(v)
        <5>1. q \in 1 .. Len(v) /\ u[q] = v[q]
          BY <3>4, <4>1, <4>2
        <5> QED
          BY <2>3, <4>1, <4>2, <5>1
      <4>3. CASE ~ (q <= Len(v))
        <5>1. u[q] = Missing /\ ListBefore(C[q]) # p
          BY <1>8, <2>3, <3>4, <4>1, <4>3
        <5> QED
          BY <5>1
      <4> QED
        BY <4>2, <4>3
    <3> QED
      BY <1>1, <1>4, <2>4, <2>5, <3>4, <3>5 DEF Holds
  <2> QED
    BY <2>6, <2>7, <2>8
<1> QED
  BY <1>1, <1>2, <1>4, <1>6, <1>9 DEF Collecting

\* With an option that takes its values, one more thing that is meant is done.
LEMMA OptionTaken ==
    ASSUME NEW k \in Nat, NEW o \in Long, NEW ws, GivesNext(k, o, ws)
    PROVE  Sofar(k + 1)'
<1>1. meant' = meant /\ Sofar(k) /\ meant[k + 1] = Given(o, ws)
  BY DEF GivesNext, TakesOption
<1>2. Said(k + 1)'
  <2>1. Said(k + 1)
    BY <1>1, SaidNext DEF Sofar
  <2> QED
    BY <1>1, <2>1, SameMeant
<1> QED
  BY <1>2, OtherOptionsKept, GivenScalars, GivenListing, GivenMapping, GivenCollecting DEF Sofar

-------------------------------------------------------------------------------
(* PhraseSlices of sequences.                                                    *)

\* What a part of a sequence is.
LEMMA SliceOf ==
    ASSUME NEW S, NEW s \in Seq(S), NEW i \in 1 .. Len(s) + 1, NEW j \in i - 1 .. Len(s)
    PROVE  /\ SubSeq(s, i, j) \in Seq(S)
           /\ Len(SubSeq(s, i, j)) = j - i + 1
           /\ \A q \in 1 .. j - i + 1 : SubSeq(s, i, j)[q] = s[i + q - 1]
<1>1. \A q \in i .. j : s[q] \in S
  OBVIOUS
<1>2. /\ SubSeq(s, i, j) \in Seq(S) /\ Len(SubSeq(s, i, j)) = (IF i <= j THEN j - i + 1 ELSE 0)
      /\ \A q \in 1 .. j - i + 1 : SubSeq(s, i, j)[q] = s[i + q - 1]
  BY <1>1, SubSeqProperties
<1>3. ~ (i <= j) => j - i + 1 = 0
  OBVIOUS
<1> QED
  BY <1>2, <1>3

\* What the end of a sequence is.
LEMMA FromIs ==
    ASSUME NEW S, NEW s \in Seq(S), NEW i \in 1 .. Len(s) + 1
    PROVE  /\ From(s, i) \in Seq(S)
           /\ Len(From(s, i)) = Len(s) - i + 1
           /\ \A q \in 1 .. Len(s) - i + 1 : From(s, i)[q] = s[i + q - 1]
<1>1. Len(s) \in i - 1 .. Len(s)
  OBVIOUS
<1> QED
  BY <1>1, SliceOf DEF From

\* Sequences that agree have the same parts.
LEMMA SameSlice ==
    ASSUME NEW S, NEW s \in Seq(S), NEW t \in Seq(S), Len(s) = Len(t),
           NEW i \in 1 .. Len(s) + 1, NEW j \in i - 1 .. Len(s), \A q \in i .. Len(s) : s[q] = t[q]
    PROVE  SubSeq(s, i, j) = SubSeq(t, i, j)
<1>1. /\ SubSeq(s, i, j) \in Seq(S) /\ Len(SubSeq(s, i, j)) = j - i + 1
      /\ \A q \in 1 .. j - i + 1 : SubSeq(s, i, j)[q] = s[i + q - 1]
  BY SliceOf
<1>2. /\ SubSeq(t, i, j) \in Seq(S) /\ Len(SubSeq(t, i, j)) = j - i + 1
      /\ \A q \in 1 .. j - i + 1 : SubSeq(t, i, j)[q] = t[i + q - 1]
  BY SliceOf
<1>3. \A q \in 1 .. j - i + 1 : i + q - 1 \in i .. Len(s)
  OBVIOUS
<1> QED
  BY <1>1, <1>2, <1>3, SeqEqual

\* The tail of a part is a part.
LEMMA SliceTail ==
    ASSUME NEW S, NEW s \in Seq(S), NEW i \in 1 .. Len(s), NEW j \in i .. Len(s)
    PROVE  Tail(SubSeq(s, i, j)) = SubSeq(s, i + 1, j)
BY HeadTailOfSubSeq

\* The tail is all but the first.
LEMMA TailIsFrom ==
    ASSUME NEW S, NEW s \in Seq(S), s # <<>>
    PROVE  Tail(s) = From(s, 2)
BY TailIsSubSeq DEF From

-------------------------------------------------------------------------------
(* What Set does with the arguments after the j-th.                        *)

\* How many values an option takes.
LEMMA OperandsAre ==
    ASSUME NEW o \in Long
    PROVE  /\ Operands(o) \in Nat
           /\ Kind[o] \in {"bool", "rest"} => Operands(o) = 0
           /\ Kind[o] = "map" => Operands(o) = 2
           /\ Kind[o] \in {"string", "int", "list"} => Operands(o) = 1
           /\ Kind[o] \in {"bool", "string", "int", "list", "rest", "map"}
BY OptionsAssumption DEF Operands

\* Set takes the values of an option if there are enough of them, and refuses the command line if not.
LEMMA SetTakes ==
    ASSUME NEW o \in Long, NEW av \in Seq(Argument), NEW j \in 0 .. Len(av), Set(o, j, av)
    PROVE  /\ argv' = av /\ meant' = meant /\ rest' = rest /\ optsDone' = optsDone
           /\ Enough(o, From(av, j + 1)) =>
                 /\ at' = j + Operands(o) /\ j + Operands(o) <= Len(av) /\ status' = status
                 /\ TakesOption(o, SubSeq(av, j + 1, j + Operands(o)))
           /\ ~ Enough(o, From(av, j + 1)) => status' = "error" /\ UNCHANGED <<at, vals, mapKeys, active>>
<1> DEFINE last == j + Operands(o)
           ws == SubSeq(av, j + 1, last)
<1>1. argv' = av /\ meant' = meant /\ rest' = rest /\ optsDone' = optsDone
  BY DEF Set
<1>2. Len(From(av, j + 1)) = Len(av) - j /\ \A q \in 1 .. Len(av) - j : From(av, j + 1)[q] = av[j + q]
  <2>1. j + 1 \in 1 .. Len(av) + 1 /\ Len(av) - (j + 1) + 1 = Len(av) - j
    OBVIOUS
  <2>2. \A q \in 1 .. Len(av) - j : j + 1 + q - 1 = j + q
    OBVIOUS
  <2>3. /\ Len(From(av, j + 1)) = Len(av) - (j + 1) + 1
        /\ \A q \in 1 .. Len(av) - (j + 1) + 1 : From(av, j + 1)[q] = av[j + 1 + q - 1]
    BY Zenon, <2>1, FromIs
  <2> QED
    BY <2>1, <2>2, <2>3
<1>3. last \in Nat /\ Operands(o) \in Nat
  BY OperandsAre
<1>4. Enough(o, From(av, j + 1)) <=> last <= Len(av) /\ (Kind[o] = "int" => av[last] \in Integer)
  <2>1. Len(From(av, j + 1)) >= Operands(o) <=> last <= Len(av)
    BY <1>2, <1>3
  <2>2. ASSUME Kind[o] = "int", last <= Len(av) PROVE From(av, j + 1)[1] = av[last]
    BY <1>2, <2>2, OperandsAre
  <2> QED
    BY <2>1, <2>2 DEF Enough
<1>5. ASSUME Enough(o, From(av, j + 1)) PROVE at' = last /\ last <= Len(av) /\ status' = status /\ TakesOption(o, ws)
  <2>1. last <= Len(av) /\ ~ (last > Len(av)) /\ (Kind[o] = "int" => av[last] \in Integer)
    BY <1>3, <1>4, <1>5
  <2>2. \A q \in 1 .. Operands(o) : ws[q] = av[j + q]
    <3>1. j + 1 \in 1 .. Len(av) + 1 /\ last \in (j + 1) - 1 .. Len(av) /\ last - (j + 1) + 1 = Operands(o)
      BY <1>3, <2>1
    <3>2. \A q \in 1 .. Operands(o) : j + 1 + q - 1 = j + q
      BY <1>3
    <3> QED
      BY <3>1, <3>2, SliceOf
  <2> HIDE DEF ws
  <2>3. Kind[o] \in {"string", "int", "list"} => ws[1] = av[last]
    BY <2>2, OperandsAre
  <2>4. Kind[o] = "map" => ws[1] = av[last - 1] /\ ws[2] = av[last]
    BY <2>2, OperandsAre
  <2>5. at' = last /\ status' = status
    BY <2>1 DEF Set
  <2>6. mapKeys' = IF Kind[o] = "map" THEN mapKeys \cup {ws[1]} ELSE mapKeys
    BY <2>1, <2>4 DEF Set
  <2>7. active' = IF Kind[o] = "rest" THEN o ELSE active
    BY <2>1 DEF Set
  <2>8. vals' = [vals EXCEPT ![o] =
                    CASE Kind[o] = "bool" -> <<"true">>
                      [] Kind[o] \in {"string", "int"} -> ws[1]
                      [] Kind[o] = "list" -> Append(@, ws[1])
                      [] Kind[o] = "rest" -> IF active = "none" THEN @ ELSE Padded(@, Len(vals[active]))
                      [] Kind[o] = "map" -> IF ws[1] \in mapKeys THEN @ ELSE @ \cup {<<ws[1], ws[2]>>}]
    <3> HIDE DEF last
    <3>1. vals' = CASE Kind[o] = "bool" -> [vals EXCEPT ![o] = <<"true">>]
                    [] Kind[o] \in {"string", "int"} -> [vals EXCEPT ![o] = av[last]]
                    [] Kind[o] = "list" -> [vals EXCEPT ![o] = Append(@, av[last])]
                    [] Kind[o] = "rest" -> [vals EXCEPT ![o] = IF active = "none" THEN @ ELSE Padded(@, Len(vals[active]))]
                    [] Kind[o] = "map" -> [vals EXCEPT ![o] =
                           IF av[last - 1] \in mapKeys THEN @ ELSE @ \cup {<<av[last - 1], av[last]>>}]
      BY <2>1 DEF Set, last
    <3>2. CASE Kind[o] = "bool"
      BY <3>1, <3>2
    <3>3. CASE Kind[o] \in {"string", "int"}
      BY <2>3, <3>1, <3>3
    <3>4. CASE Kind[o] = "list"
      BY <2>3, <3>1, <3>4
    <3>5. CASE Kind[o] = "rest"
      BY <3>1, <3>5
    <3>6. CASE Kind[o] = "map"
      BY <2>4, <3>1, <3>6
    <3> QED
      BY <3>2, <3>3, <3>4, <3>5, <3>6, OperandsAre
  <2> QED
    BY <1>1, <2>1, <2>5, <2>6, <2>7, <2>8 DEF TakesOption
<1>6. ASSUME ~ Enough(o, From(av, j + 1)) PROVE status' = "error" /\ UNCHANGED <<at, vals, mapKeys, active>>
  <2>1. ~ (last <= Len(av) /\ (Kind[o] = "int" => av[last] \in Integer))
    BY <1>4, <1>6
  <2> QED
    BY <2>1 DEF Set
<1> QED
  BY <1>1, <1>5, <1>6

-------------------------------------------------------------------------------
(* The forms of an argument, for the loop and for the manual.              *)

\* Two dashes.
LEMMA DashesForm ==
    ASSUME NEW b \in Argument
    PROVE  b = <<"-", "-">> <=> Dashes(b)
<1>1. Dashes(b) => b = <<b[1], b[2]>>
  BY DEF Argument, Dashes
<1> QED
  BY <1>1 DEF Dashes

\* What parseFlags takes for an option is one, the value not attached.
LEMMA NamingForm ==
    ASSUME NEW b \in Argument, NEW o \in Long
    PROVE  IsLong(b) /\ Names(SubSeq(b, 3, Len(b)), o) <=> Naming(b, o)
<1> DEFINE s == SubSeq(b, 3, Len(b))
<1>1. ASSUME Len(b) > 2
      PROVE  s \in Seq(Piece) /\ Len(s) = Len(b) - 2 /\ s[1] = b[3]
  <2>1. b \in Seq(Piece) /\ 3 \in 1 .. Len(b) + 1 /\ Len(b) \in 3 - 1 .. Len(b)
    BY <1>1 DEF Argument
  <2>2. s \in Seq(Piece) /\ Len(s) = Len(b) - 3 + 1 /\ \A q \in 1 .. Len(b) - 3 + 1 : s[q] = b[3 + q - 1]
    BY <2>1, SliceOf
  <2> HIDE DEF s
  <2> QED
    BY <1>1, <2>1, <2>2
<1> HIDE DEF s
<1>2. ASSUME Len(b) > 2
      PROVE  s = <<o>> <=> Len(b) = 3 /\ b[3] = o
  <2>1. s = <<o>> => Len(s) = 1 /\ s[1] = o
    OBVIOUS
  <2>2. Len(s) = 1 => s = <<s[1]>>
    BY <1>1, <1>2
  <2>3. Len(b) \in Nat
    BY DEF Argument
  <2>4. ASSUME s = <<o>> PROVE Len(b) = 3 /\ b[3] = o
    BY <1>1, <1>2, <2>1, <2>3, <2>4
  <2>5. ASSUME Len(b) = 3, b[3] = o PROVE s = <<o>>
    <3>1. Len(s) = 1 /\ s[1] = o
      BY <1>1, <1>2, <2>5
    <3> QED
      BY <2>2, <3>1
  <2> QED
    BY <2>4, <2>5
<1> QED
  BY <1>2 DEF IsLong, Names, Naming, s

\* Where the first equals sign is.
LEMMA EqualsIs ==
    ASSUME NEW b \in Argument, EqualsAt(b) # 0
    PROVE  EqualsAt(b) \in 3 .. Len(b) /\ b[EqualsAt(b)] = "=" /\ \A d \in 3 .. EqualsAt(b) - 1 : b[d] # "="
<1>1. PICK x \in 3 .. Len(b) : b[x] = "="
  BY DEF EqualsAt
<1>2. EqualsAt(b) = CHOOSE e \in 3 .. Len(b) : b[e] = "=" /\ \A d \in 3 .. e - 1 : b[d] # "="
  BY <1>1 DEF EqualsAt
<1> DEFINE T == {e \in 3 .. Len(b) : b[e] = "="}
<1>3. T \subseteq Nat /\ T # {}
  BY <1>1
<1>4. PICK e \in T : \A y \in T : e <= y
  BY <1>3, LeastExists
<1>5. e \in 3 .. Len(b) /\ b[e] = "=" /\ \A d \in 3 .. e - 1 : b[d] # "="
  <2>1. e \in 3 .. Len(b) /\ b[e] = "="
    OBVIOUS
  <2>2. ASSUME NEW d \in 3 .. e - 1 PROVE b[d] # "="
    <3>1. d \in 3 .. Len(b) /\ ~ (e <= d)
      BY <2>1 DEF Argument
    <3> QED
      BY <1>4, <3>1
  <2> QED
    BY <2>1, <2>2
<1> QED
  BY <1>2, <1>5

\* What parseFlags takes for an option with a value attached is one, and the value is what follows the sign.
LEMMA GivingForm ==
    ASSUME NEW b \in Argument, NEW o \in Long
    PROVE  /\ IsLong(b) /\ EqualsAt(b) # 0 /\ Names(Before(b, EqualsAt(b)), o) <=> Giving(b, o)
           /\ Giving(b, o) => After(b, EqualsAt(b)) = ValueIn(b) /\ ValueIn(b) \in Argument
<1>1. b \in Seq(Piece) /\ Len(b) \in Nat
  BY DEF Argument
<1>2. ASSUME IsLong(b), EqualsAt(b) # 0, Names(Before(b, EqualsAt(b)), o) PROVE Giving(b, o)
  <2> DEFINE e == EqualsAt(b)
             s == SubSeq(b, 3, e - 1)
  <2>1. e \in 3 .. Len(b) /\ b[e] = "=" /\ s = <<o>>
    BY <1>2, EqualsIs DEF Names, Before
  <2>2. 3 \in 1 .. Len(b) + 1 /\ e - 1 \in 3 - 1 .. Len(b)
    BY <1>1, <2>1
  <2> HIDE DEF e
  <2>3. Len(s) = e - 1 - 3 + 1 /\ \A q \in 1 .. e - 1 - 3 + 1 : s[q] = b[3 + q - 1]
    BY <1>1, <2>2, SliceOf
  <2> HIDE DEF s
  <2>4. e = 4 /\ s[1] = o
    BY <2>1, <2>3
  <2>5. b[3] = o
    BY <2>3, <2>4
  <2> QED
    BY <1>1, <1>2, <2>1, <2>4, <2>5 DEF Giving, IsLong
<1>3. ASSUME Giving(b, o)
      PROVE  /\ IsLong(b) /\ EqualsAt(b) # 0 /\ Names(Before(b, EqualsAt(b)), o)
             /\ After(b, EqualsAt(b)) = ValueIn(b) /\ ValueIn(b) \in Argument
  <2>1. Len(b) > 3 /\ b[3] = o /\ b[4] = "=" /\ IsLong(b) /\ o # "="
    BY <1>1, <1>3, OptionsAssumption DEF Giving, IsLong
  <2>2. EqualsAt(b) # 0
    <3>1. \E e \in 3 .. Len(b) : b[e] = "="
      BY <1>1, <2>1
    <3> DEFINE c == CHOOSE e \in 3 .. Len(b) : b[e] = "=" /\ \A d \in 3 .. e - 1 : b[d] # "="
    <3>2. \A d \in 3 .. 4 - 1 : b[d] # "="
      <4>1. \A d \in 3 .. 4 - 1 : d = 3
        OBVIOUS
      <4> QED
        BY <2>1, <4>1
    <3>3. 4 \in 3 .. Len(b)
      BY <1>1, <2>1
    <3>4. \E e \in 3 .. Len(b) : b[e] = "=" /\ \A d \in 3 .. e - 1 : b[d] # "="
      BY <2>1, <3>2, <3>3
    <3>5. c \in 3 .. Len(b)
      BY <3>4
    <3>6. EqualsAt(b) = c
      BY <3>1 DEF EqualsAt
    <3> HIDE DEF c
    <3> QED
      BY <3>5, <3>6
  <2>3. EqualsAt(b) = 4
    <3>1. EqualsAt(b) \in 3 .. Len(b) /\ b[EqualsAt(b)] = "=" /\ \A d \in 3 .. EqualsAt(b) - 1 : b[d] # "="
      BY <2>2, EqualsIs
    <3> DEFINE e == EqualsAt(b)
    <3> HIDE DEF e
    <3>2. e \in 3 .. Len(b) /\ b[e] = "=" /\ \A d \in 3 .. e - 1 : b[d] # "="
      BY <3>1 DEF e
    <3>3. e # 3
      BY <2>1, <3>2
    <3>4. ~ (4 \in 3 .. e - 1)
      BY <2>1, <3>2
    <3>5. e = 4
      BY <3>2, <3>3, <3>4
    <3> QED
      BY <3>5 DEF e
  <2>4. SubSeq(b, 3, 3) = <<o>>
    <3>1. 3 \in 1 .. Len(b) + 1 /\ 3 \in 3 - 1 .. Len(b)
      BY <1>1, <2>1
    <3>2. /\ SubSeq(b, 3, 3) \in Seq(Piece) /\ Len(SubSeq(b, 3, 3)) = 3 - 3 + 1
          /\ \A q \in 1 .. 3 - 3 + 1 : SubSeq(b, 3, 3)[q] = b[3 + q - 1]
      BY <1>1, <3>1, SliceOf
    <3> DEFINE s == SubSeq(b, 3, 3)
    <3>3. s \in Seq(Piece) /\ Len(s) = 1 /\ s[1] = b[3]
      BY <3>2
    <3> HIDE DEF s
    <3>4. s = <<s[1]>>
      BY <3>3
    <3> QED
      BY <2>1, <3>3, <3>4 DEF s
  <2>5. SubSeq(b, 5, Len(b)) \in Seq(Piece)
    <3>1. 5 \in 1 .. Len(b) + 1
      BY <1>1, <2>1
    <3> QED
      BY <1>1, <3>1, FromIs DEF From
  <2>6. 4 - 1 = 3 /\ 4 + 1 = 5
    OBVIOUS
  <2> QED
    BY <2>1, <2>2, <2>3, <2>4, <2>5, <2>6 DEF Names, Before, After, ValueIn, From, Argument
<1> QED
  BY <1>2, <1>3

\* What parseFlags takes for a group of letters is one.
LEMMA GroupForm ==
    ASSUME NEW b \in Argument
    PROVE  IsShort(b) /\ Grouped(b) <=> IsGroup(b)
<1>1. Len(b) \in Nat /\ (Len(b) > 1 => b # <<>>)
  BY DEF Argument
<1>2. ASSUME IsShort(b) PROVE Grouped(b) <=> ~ IsWord(b)
  <2>1. IsWord(b) <=> \E k \in 2 .. Len(b) : b[k] \notin Letters /\ \A j \in 2 .. k : ~ Wants(b[j])
    BY <1>1, <1>2 DEF IsWord, IsShort
  <2>2. \A k \in 2 .. Len(b) : b[k] \notin Letters => b[k] \notin DOMAIN Short
    BY OptionsAssumption
  <2>3. Grouped(b) <=> \A k \in 2 .. Len(b) : b[k] \notin Letters => \E j \in 2 .. k - 1 : Wants(b[j])
    BY <2>2 DEF Grouped, Wants
  <2>4. ASSUME NEW k \in 2 .. Len(b), b[k] \notin Letters
        PROVE  (\E j \in 2 .. k - 1 : Wants(b[j])) <=> \E j \in 2 .. k : Wants(b[j])
    <3>1. ~ Wants(b[k])
      BY <2>2, <2>4 DEF Wants
    <3>2. \A j : j \in 2 .. k <=> j \in 2 .. k - 1 \/ j = k
      OBVIOUS
    <3> QED
      BY <3>1, <3>2
  <2> QED
    BY <2>1, <2>3, <2>4
<1> QED
  BY <1>2 DEF IsGroup, IsShort

\* What it takes for none of these is a word.
LEMMA WordForm ==
    ASSUME NEW b \in Argument
    PROVE  ~ IsLong(b) /\ b # <<"-", "-">> /\ ~ (IsShort(b) /\ Grouped(b)) <=> IsWord(b)
<1>1. Len(b) \in Nat /\ (b = <<>> <=> Len(b) = 0)
  BY DEF Argument
<1>2. b = <<"-", "-">> <=> Len(b) = 2 /\ b[1] = "-" /\ b[2] = "-"
  BY DashesForm DEF Dashes
<1>3. IsShort(b) /\ Grouped(b) <=> Len(b) > 1 /\ b[1] = "-" /\ b[2] # "-" /\ ~ IsWord(b)
  BY GroupForm DEF IsGroup
<1>4. IsWord(b) => b = <<>> \/ b[1] # "-" \/ Len(b) = 1 \/ b[2] # "-"
  BY DEF IsWord
<1>5. b = <<>> \/ b[1] # "-" \/ Len(b) = 1 => IsWord(b)
  BY DEF IsWord
<1>6. CASE Len(b) > 1 /\ b[1] = "-"
  <2>1. b # <<>> /\ Len(b) # 1
    <3> DEFINE n == Len(b)
    <3>1. n \in Nat /\ (b = <<>> => n = 0)
      BY <1>1
    <3>2. n > 1
      BY <1>6
    <3> HIDE DEF n
    <3>3. n # 0 /\ n # 1
      BY <3>1, <3>2
    <3>4. b # <<>>
      BY <3>1, <3>3, Zenon
    <3> QED
      BY <3>3, <3>4 DEF n
  <2>2. CASE b[2] = "-"
    <3>1. ~ IsWord(b)
      BY <1>4, <1>6, <2>1, <2>2
    <3>2. IsLong(b) \/ Len(b) = 2
      <4> DEFINE n == Len(b)
      <4>1. n \in Nat /\ n > 1
        BY <1>1, <1>6
      <4>2. IsLong(b) <=> n > 2 /\ b[1] = "-" /\ b[2] = "-"
        BY DEF IsLong
      <4> HIDE DEF n
      <4>3. n > 2 \/ n = 2
        BY <4>1
      <4>4. IsLong(b) \/ n = 2
        BY <1>6, <2>2, <4>2, <4>3, Zenon
      <4> QED
        BY <4>4 DEF n
    <3> QED
      BY <1>2, <1>6, <2>2, <3>1, <3>2
  <2>3. CASE b[2] # "-"
    BY <1>2, <1>3, <1>6, <2>3 DEF IsLong
  <2> QED
    BY <2>2, <2>3
<1>7. CASE ~ (Len(b) > 1 /\ b[1] = "-")
  <2>1. IsWord(b)
    <3>1. b = <<>> \/ b[1] # "-" \/ Len(b) = 1
      BY <1>1, <1>7
    <3> QED
      BY <1>5, <3>1
  <2>2. ~ IsLong(b) /\ b # <<"-", "-">> /\ ~ (IsShort(b) /\ Grouped(b))
    BY <1>1, <1>2, <1>3, <1>7 DEF IsLong
  <2> QED
    BY <2>1, <2>2
<1> QED
  BY <1>6, <1>7

\* An argument has one form only.
LEMMA OneForm ==
    ASSUME NEW b \in Argument
    PROVE  /\ \A o \in Long : Naming(b, o) \/ Giving(b, o) => ~ IsWord(b) /\ ~ IsGroup(b) /\ ~ Dashes(b)
           /\ \A o, p \in Long : (Naming(b, o) => ~ Giving(b, p)) /\ (Naming(b, o) /\ Naming(b, p) => o = p)
                                 /\ (Giving(b, o) /\ Giving(b, p) => o = p)
           /\ Dashes(b) => ~ IsWord(b) /\ ~ IsGroup(b)
           /\ IsGroup(b) => ~ IsWord(b)
<1>1. Len(b) \in Nat /\ (b = <<>> <=> Len(b) = 0)
  BY DEF Argument
<1>2. IsWord(b) => b = <<>> \/ b[1] # "-" \/ Len(b) = 1 \/ b[2] # "-"
  BY DEF IsWord
<1> QED
  BY <1>1, <1>2 DEF Naming, Giving, Dashes, IsGroup

-------------------------------------------------------------------------------
(* What comes next on a command line.                                      *)

\* What comes next after k things.
Coming(c, k) ==
    \/ at = Len(argv) /\ k = Len(meant)
    \/ at < Len(argv) /\ Wrong /\ IsWrong(From(argv, at + 1))
    \/ /\ at < Len(argv) /\ Dashes(argv[at + 1]) /\ Len(meant) - k = Len(argv) - at - 1
       /\ \A i \in 1 .. Len(argv) - at - 1 : meant[k + i] = <<"word", argv[at + 1 + i]>>
    \/ /\ at < Len(argv)
       /\ \E x \in c[3] : /\ x[1] \in at + 1 .. Len(argv) /\ x[2] \in k .. Len(meant)
                          /\ Says(SubSeq(meant, k + 1, x[2]), SubSeq(argv, at + 1, x[1]))

\* Marks are within the command line and within what is meant.
LEMMA MarksAre ==
    ASSUME NEW c \in CommandLines, NEW x \in c[3]
    PROVE  x[1] \in 0 .. Len(c[2]) /\ x[2] \in 0 .. Len(c[1]) /\ x = <<x[1], x[2]>>
BY PhrasesAssumption DEF Goes

\* What is left when one thing is left is the last thing.
LEMMA LastIs ==
    ASSUME NEW S, NEW s \in Seq(S), NEW k \in 0 .. Len(s), NEW e, From(s, k + 1) = <<e>>
    PROVE  s # <<>> /\ s[Len(s)] = e
<1>1. k + 1 \in 1 .. Len(s) + 1
  OBVIOUS
<1>2. Len(From(s, k + 1)) = Len(s) - (k + 1) + 1 /\ \A q \in 1 .. Len(s) - (k + 1) + 1 : From(s, k + 1)[q] = s[k + 1 + q - 1]
  BY <1>1, FromIs
<1>3. Len(From(s, k + 1)) = 1 /\ From(s, k + 1)[1] = e
  OBVIOUS
<1>4. Len(s) = k + 1
  <2>1. Len(s) \in Nat /\ k \in Nat
    OBVIOUS
  <2>2. Len(s) - (k + 1) + 1 = 1
    BY <1>2, <1>3
  <2> QED
    BY <2>1, <2>2
<1>5. From(s, k + 1)[1] = s[k + 1 + 1 - 1]
  BY <1>2, <1>4
<1> QED
  BY <1>3, <1>4, <1>5

\* Between phrases comes the end, something wrong, words after two dashes, or a phrase.
LEMMA Upcoming ==
    ASSUME NEW c \in CommandLines, NEW k \in 0 .. Len(meant), meant = c[1], Len(argv) = Len(c[2]),
           argv \in Seq(Argument), at \in 0 .. Len(argv), BetweenPhrases(c, k)
    PROVE  Coming(c, k)
<1>1. /\ c[1] \in Seq(Thing) /\ c[2] \in Seq(Argument)
      /\ \A x \in c[3] : Goes(c[1], c[2], c[3], x[1], x[2])
  BY PhrasesAssumption
<1>2. <<at, k>> \in c[3] /\ Ahead(c, at)
  BY DEF BetweenPhrases
<1>3. Goes(c[1], c[2], c[3], at, k)
  <2>1. Goes(c[1], c[2], c[3], <<at, k>>[1], <<at, k>>[2])
    BY <1>1, <1>2
  <2> QED
    BY <2>1
<1>4. \A i \in at + 1 .. Len(argv) : argv[i] = c[2][i]
  BY <1>2 DEF Ahead
<1>5. ASSUME NEW i \in at + 1 .. Len(argv) + 1, NEW j \in i - 1 .. Len(argv)
      PROVE  SubSeq(argv, i, j) = SubSeq(c[2], i, j)
  <2>1. i \in 1 .. Len(argv) + 1 /\ \A q \in i .. Len(argv) : argv[q] = c[2][q]
    BY <1>4
  <2> QED
    BY <1>1, <2>1, SameSlice
<1>6. at < Len(argv) => From(argv, at + 1) = From(c[2], at + 1)
  BY <1>5 DEF From
<1>7. CASE at = Len(c[2]) /\ k = Len(c[1])
  BY <1>7 DEF Coming
<1>8. CASE at < Len(c[2]) /\ Ends(From(c[1], k + 1), From(c[2], at + 1))
  <2> DEFINE a == From(argv, at + 1)
             m == From(meant, k + 1)
  <2>1. Ends(m, a) /\ at < Len(argv)
    BY <1>6, <1>8
  <2>2. Len(a) = Len(argv) - at /\ a[1] = argv[at + 1] /\ \A i \in 1 .. Len(argv) - at - 1 : a[i + 1] = argv[at + 1 + i]
    <3>1. at + 1 \in 1 .. Len(argv) + 1
      OBVIOUS
    <3>2. Len(a) = Len(argv) - (at + 1) + 1 /\ \A q \in 1 .. Len(argv) - (at + 1) + 1 : a[q] = argv[at + 1 + q - 1]
      BY <3>1, FromIs
    <3> HIDE DEF a
    <3>3. a[1] = argv[at + 1 + 1 - 1]
      BY <2>1, <3>2
    <3>4. ASSUME NEW i \in 1 .. Len(argv) - at - 1 PROVE a[i + 1] = argv[at + 1 + i]
      <4>1. i + 1 \in 1 .. Len(argv) - (at + 1) + 1 /\ at + 1 + (i + 1) - 1 = at + 1 + i
        OBVIOUS
      <4> QED
        BY <3>2, <4>1
    <3>5. Len(argv) - (at + 1) + 1 = Len(argv) - at /\ at + 1 + 1 - 1 = at + 1
      OBVIOUS
    <3> QED
      BY <3>2, <3>3, <3>4, <3>5
  <2>3. CASE m = <<<<"wrong">>>> /\ IsWrong(a)
    <3>1. meant # <<>> /\ meant[Len(meant)] = <<"wrong">>
      BY <1>1, <2>3, LastIs
    <3>2. Wrong
      BY <3>1 DEF Wrong, Last
    <3> QED
      BY <2>1, <2>3, <3>2 DEF Coming
  <2>4. CASE Dashes(a[1]) /\ m = [i \in 1 .. Len(a) - 1 |-> <<"word", a[i + 1]>>]
    <3>1. k + 1 \in 1 .. Len(meant) + 1
      OBVIOUS
    <3>2. Len(m) = Len(meant) - (k + 1) + 1 /\ \A q \in 1 .. Len(meant) - (k + 1) + 1 : m[q] = meant[k + 1 + q - 1]
      BY <1>1, <3>1, FromIs
    <3> HIDE DEF a, m
    <3> DEFINE n == Len(argv) - at - 1
    <3>3. n \in Nat /\ Len(a) - 1 = n
      BY <2>1, <2>2
    <3>4. Len(m) = n /\ \A i \in 1 .. n : m[i] = <<"word", a[i + 1]>>
      BY <2>4, <3>3
    <3>5. Len(meant) - k = n
      <4>1. Len(meant) \in Nat
        BY <1>1
      <4>2. Len(meant) - (k + 1) + 1 = n
        BY <3>2, <3>4
      <4> HIDE DEF n
      <4> QED
        BY <3>3, <4>1, <4>2
    <3>6. \A i \in 1 .. n : meant[k + i] = <<"word", argv[at + 1 + i]>>
      <4> SUFFICES ASSUME NEW i \in 1 .. n PROVE meant[k + i] = <<"word", argv[at + 1 + i]>>
        OBVIOUS
      <4>1. Len(meant) \in Nat
        BY <1>1
      <4>2. i \in 1 .. Len(meant) - (k + 1) + 1 /\ k + 1 + i - 1 = k + i
        BY <3>5, <4>1
      <4>3. m[i] = meant[k + i]
        BY <3>2, <4>2
      <4> QED
        BY <2>2, <3>4, <4>3
    <3>7. Dashes(argv[at + 1])
      BY <2>2, <2>4
    <3> QED
      BY <2>1, <3>5, <3>6, <3>7 DEF Coming
  <2> QED
    BY <2>1, <2>3, <2>4 DEF Ends
<1>9. CASE \E x \in c[3] : x[1] > at /\ x[2] >= k /\ Says(SubSeq(c[1], k + 1, x[2]), SubSeq(c[2], at + 1, x[1]))
  <2>1. PICK x \in c[3] : x[1] > at /\ x[2] >= k /\ Says(SubSeq(c[1], k + 1, x[2]), SubSeq(c[2], at + 1, x[1]))
    BY <1>9
  <2>2. x[1] \in at + 1 .. Len(argv) /\ x[2] \in k .. Len(meant)
    BY <2>1, MarksAre
  <2>3. SubSeq(argv, at + 1, x[1]) = SubSeq(c[2], at + 1, x[1])
    <3>1. at + 1 \in at + 1 .. Len(argv) + 1 /\ x[1] \in (at + 1) - 1 .. Len(argv)
      BY <2>2
    <3> QED
      BY <1>5, <3>1
  <2>4. at < Len(argv)
    BY <2>2
  <2> QED
    BY <2>1, <2>2, <2>3, <2>4 DEF Coming
<1> QED
  BY <1>3, <1>7, <1>8, <1>9 DEF Goes

-------------------------------------------------------------------------------
(* What each form of an argument says.                                     *)

\* What a phrase that begins with a word says.
LEMMA WordSays ==
    ASSUME NEW a, NEW m, a[1] \in Argument, IsWord(a[1])
    PROVE  ~ IsWrong(a) /\ (Says(m, a) => Len(a) = 1 /\ m = <<<<"word", a[1]>>>>)
<1>1. \A o \in Long : ~ Naming(a[1], o) /\ ~ Giving(a[1], o)
  BY OneForm
<1>2. ~ IsGroup(a[1])
  BY OneForm
<1>3. \A o \in Lists : o \in Long
  BY DEF Lists
<1>4. ~ (Len(a[1]) > 2 /\ a[1][1] = "-" /\ a[1][2] = "-")
  BY WordForm DEF IsLong
<1> QED
  BY <1>1, <1>2, <1>3, <1>4 DEF IsWrong, Says

\* What one that begins with an option says.
LEMMA NamingSays ==
    ASSUME NEW a, NEW m, a[1] \in Argument, NEW o \in Long, Naming(a[1], o)
    PROVE  /\ IsWrong(a) => ~ Enough(o, Tail(a))
           /\ Says(m, a) => Enough(o, Tail(a)) /\ Len(a) = Operands(o) + 1 /\ m = <<Given(o, Tail(a))>>
<1>1. \A p \in Long : (Naming(a[1], p) => p = o) /\ ~ Giving(a[1], p)
  BY OneForm
<1>2. ~ IsGroup(a[1]) /\ ~ IsWord(a[1])
  BY OneForm
<1>3. \A p \in Lists : p \in Long
  BY DEF Lists
<1>4. IsWrong(a) => \E p \in Long : Naming(a[1], p) /\ ~ Enough(p, Tail(a))
  BY <1>1, <1>2 DEF IsWrong
<1>5. Says(m, a) => \E p \in Long : /\ Naming(a[1], p)
                                    /\ Enough(p, Tail(a)) /\ Len(a) = Operands(p) + 1
                                    /\ m = <<Given(p, Tail(a))>>
  BY <1>1, <1>2, <1>3 DEF Says
<1> QED
  BY <1>1, <1>4, <1>5

\* What one that begins with an option and a value attached says.
LEMMA GivingSays ==
    ASSUME NEW a, NEW m, a[1] \in Argument, NEW o \in Long, Giving(a[1], o)
    PROVE  LET as == <<ValueIn(a[1])>> \o Tail(a)
           IN  /\ IsWrong(a) => Kind[o] # "rest" /\ (Kind[o] = "bool" \/ ~ Enough(o, as))
               /\ Says(m, a) =>
                    \/ /\ Kind[o] \notin {"bool", "rest"} /\ Enough(o, as) /\ Len(a) = Operands(o) /\ m = <<Given(o, as)>>
                    \/ /\ Kind[o] = "rest" /\ IsWord(ValueIn(a[1])) /\ Len(a) = 1
                       /\ m = <<<<"list", o>>, <<"word", ValueIn(a[1])>>>>
<1> DEFINE as == <<ValueIn(a[1])>> \o Tail(a)
<1>1. \A p \in Long : (Giving(a[1], p) => p = o) /\ ~ Naming(a[1], p)
  BY OneForm
<1>2. ~ IsGroup(a[1]) /\ ~ IsWord(a[1])
  BY OneForm
<1>3. \A p \in Lists : p \in Long /\ Kind[p] = "rest"
  BY DEF Lists
<1>4. IsWrong(a) => \E p \in Long : Giving(a[1], p) /\ Kind[p] # "rest" /\ (Kind[p] = "bool" \/ ~ Enough(p, as))
  BY <1>1, <1>2 DEF IsWrong
<1>5. Says(m, a) =>
        \/ \E p \in Long : /\ Giving(a[1], p) /\ Kind[p] \notin {"bool", "rest"}
                           /\ Enough(p, as) /\ Len(a) = Operands(p) /\ m = <<Given(p, as)>>
        \/ \E p \in Lists : /\ Giving(a[1], p) /\ IsWord(ValueIn(a[1])) /\ Len(a) = 1
                            /\ m = <<<<"list", p>>, <<"word", ValueIn(a[1])>>>>
  BY <1>1, <1>2 DEF Says
<1> HIDE DEF as
<1>6. /\ IsWrong(a) => Kind[o] # "rest" /\ (Kind[o] = "bool" \/ ~ Enough(o, as))
      /\ Says(m, a) =>
            \/ /\ Kind[o] \notin {"bool", "rest"} /\ Enough(o, as) /\ Len(a) = Operands(o) /\ m = <<Given(o, as)>>
            \/ /\ Kind[o] = "rest" /\ IsWord(ValueIn(a[1])) /\ Len(a) = 1
               /\ m = <<<<"list", o>>, <<"word", ValueIn(a[1])>>>>
  BY <1>1, <1>3, <1>4, <1>5
<1> QED
  BY <1>6 DEF as

\* What one that begins with a group says.
LEMMA GroupFormSays ==
    ASSUME NEW a, NEW m, a[1] \in Argument, IsGroup(a[1])
    PROVE  /\ IsWrong(a) => GroupWrong(Tail(a[1]), Tail(a))
           /\ Says(m, a) => GroupSays(m, Tail(a[1]), Tail(a))
<1>1. \A o \in Long : ~ Naming(a[1], o) /\ ~ Giving(a[1], o)
  BY OneForm
<1>2. ~ IsWord(a[1])
  BY OneForm
<1>3. \A o \in Lists : o \in Long
  BY DEF Lists
<1>4. ~ (a[1][1] = "-" /\ a[1][2] = "-")
  BY DEF IsGroup
<1> QED
  BY <1>1, <1>2, <1>3, <1>4 DEF IsWrong, Says

\* -- alone, or in front of what is no option, says nothing.
LEMMA OthersSay ==
    ASSUME NEW a, NEW m, a[1] \in Argument
    PROVE  /\ Dashes(a[1]) => ~ IsWrong(a) /\ ~ Says(m, a)
           /\ IsLong(a[1]) /\ (\A o \in Long : ~ Naming(a[1], o) /\ ~ Giving(a[1], o)) => ~ Says(m, a)
<1>1. Dashes(a[1]) => (\A o \in Long : ~ Naming(a[1], o) /\ ~ Giving(a[1], o)) /\ ~ IsWord(a[1]) /\ ~ IsGroup(a[1])
  BY OneForm
<1>2. \A o \in Lists : o \in Long
  BY DEF Lists
<1>3. IsLong(a[1]) => ~ IsWord(a[1]) /\ ~ IsGroup(a[1])
  <2>1. IsLong(a[1]) => ~ IsWord(a[1])
    BY WordForm
  <2> QED
    BY <2>1 DEF IsLong, IsGroup
<1>4. Dashes(a[1]) => ~ (Len(a[1]) > 2)
  BY DEF Dashes
<1>5. Dashes(a[1]) => ~ IsWrong(a)
  BY <1>1, <1>4 DEF IsWrong
<1>6. (\A o \in Long : ~ Naming(a[1], o) /\ ~ Giving(a[1], o)) /\ ~ IsWord(a[1]) /\ ~ IsGroup(a[1]) => ~ Says(m, a)
  BY <1>2 DEF Says
<1> QED
  BY <1>1, <1>3, <1>5, <1>6

-------------------------------------------------------------------------------
(* The arguments with a value in its place.                                *)

\* A value put in the place of an argument is followed by the arguments after it.
LEMMA PutBack ==
    ASSUME NEW S, NEW s \in Seq(S), NEW v \in S, NEW i \in 1 .. Len(s), NEW j \in i .. Len(s)
    PROVE  LET t == [s EXCEPT ![i] = v]
           IN  /\ t \in Seq(S) /\ Len(t) = Len(s)
               /\ t[i] = v
               /\ \A q \in i + 1 .. Len(s) : t[q] = s[q]
               /\ SubSeq(t, i, j) = <<v>> \o SubSeq(s, i + 1, j)
<1> DEFINE t == [s EXCEPT ![i] = v]
<1>1. t \in Seq(S) /\ Len(t) = Len(s) /\ t[i] = v /\ \A q \in i + 1 .. Len(s) : t[q] = s[q]
  OBVIOUS
<1> HIDE DEF t
<1>2. i \in 1 .. Len(t) /\ j \in i .. Len(t)
  BY <1>1
<1>3. SubSeq(t, i, j) = <<t[i]>> \o SubSeq(t, i + 1, j)
  BY <1>1, <1>2, SubSeqRecursiveFirst
<1>4. SubSeq(t, i + 1, j) = SubSeq(s, i + 1, j)
  <2>1. i + 1 \in 1 .. Len(t) + 1 /\ j \in (i + 1) - 1 .. Len(t) /\ \A q \in i + 1 .. Len(t) : t[q] = s[q]
    BY <1>1, <1>2
  <2> QED
    BY <1>1, <2>1, SameSlice
<1>5. /\ t \in Seq(S) /\ Len(t) = Len(s) /\ t[i] = v /\ \A q \in i + 1 .. Len(s) : t[q] = s[q]
      /\ SubSeq(t, i, j) = <<v>> \o SubSeq(s, i + 1, j)
  BY <1>1, <1>3, <1>4
<1> QED
  BY <1>5 DEF t

\* More arguments than an option needs are enough as well.
LEMMA EnoughMore ==
    ASSUME NEW o \in Long, NEW S, NEW s \in Seq(S), NEW i \in 1 .. Len(s) + 1, NEW j \in i - 1 .. Len(s),
           Enough(o, SubSeq(s, i, j))
    PROVE  Enough(o, From(s, i))
<1>1. Len(SubSeq(s, i, j)) = j - i + 1 /\ \A q \in 1 .. j - i + 1 : SubSeq(s, i, j)[q] = s[i + q - 1]
  BY SliceOf
<1>2. Len(From(s, i)) = Len(s) - i + 1 /\ \A q \in 1 .. Len(s) - i + 1 : From(s, i)[q] = s[i + q - 1]
  BY FromIs
<1>3. Operands(o) \in Nat /\ (Kind[o] = "int" => Operands(o) = 1)
  BY OperandsAre
<1>4. Len(SubSeq(s, i, j)) >= Operands(o) /\ (Kind[o] = "int" => SubSeq(s, i, j)[1] \in Integer)
  BY DEF Enough
<1>5. Len(From(s, i)) >= Operands(o)
  BY <1>1, <1>2, <1>3, <1>4
<1>6. Kind[o] = "int" => From(s, i)[1] = SubSeq(s, i, j)[1]
  BY <1>1, <1>2, <1>3, <1>4, <1>5
<1> QED
  BY <1>4, <1>5, <1>6 DEF Enough

-------------------------------------------------------------------------------
(* The steps of the loop.                                                  *)

\* The loop is at place k of command line c.
Parses(c, k) ==
    /\ c \in CommandLines /\ k \in 0 .. Len(meant) /\ Stands(c, k)
    /\ FlagTypes /\ status = "parsing"

\* The parts of the arguments and of what is meant that the loop deals with.
LEMMA PhraseSlices ==
    ASSUME NEW c, NEW k, Parses(c, k)
    PROVE  /\ meant \in Seq(Thing) /\ Len(meant) \in Nat /\ k \in Nat
           /\ at < Len(argv) =>
                 /\ argv[at + 1] \in Argument
                 /\ From(argv, at + 1)[1] = argv[at + 1]
                 /\ Tail(From(argv, at + 1)) = From(argv, at + 2)
           /\ \A i \in at + 1 .. Len(argv) :
                 /\ SubSeq(argv, at + 1, i) \in Seq(Argument)
                 /\ SubSeq(argv, at + 1, i)[1] = argv[at + 1]
                 /\ Len(SubSeq(argv, at + 1, i)) = i - at
                 /\ Tail(SubSeq(argv, at + 1, i)) = SubSeq(argv, at + 2, i)
           /\ \A i \in k .. Len(meant) :
                 /\ SubSeq(meant, k + 1, i) \in Seq(Thing)
                 /\ Len(SubSeq(meant, k + 1, i)) = i - k
                 /\ \A q \in 1 .. i - k : SubSeq(meant, k + 1, i)[q] = meant[k + q]
<1>1. meant \in Seq(Thing) /\ Len(meant) \in Nat /\ k \in 0 .. Len(meant)
  BY PhrasesAssumption DEF Parses, Stands
<1>2. argv \in Seq(Argument) /\ at \in 0 .. Len(argv) /\ Len(argv) \in Nat
  BY DEF Parses, FlagTypes
<1>3. ASSUME NEW i \in at + 1 .. Len(argv)
      PROVE  /\ SubSeq(argv, at + 1, i) \in Seq(Argument)
             /\ SubSeq(argv, at + 1, i)[1] = argv[at + 1]
             /\ Len(SubSeq(argv, at + 1, i)) = i - at
             /\ Tail(SubSeq(argv, at + 1, i)) = SubSeq(argv, at + 2, i)
  <2>1. at + 1 \in 1 .. Len(argv) /\ at + 1 \in 1 .. Len(argv) + 1 /\ i \in (at + 1) - 1 .. Len(argv) /\ i \in at + 1 .. Len(argv)
    BY <1>2
  <2>2. /\ SubSeq(argv, at + 1, i) \in Seq(Argument)
        /\ Len(SubSeq(argv, at + 1, i)) = i - (at + 1) + 1
        /\ \A q \in 1 .. i - (at + 1) + 1 : SubSeq(argv, at + 1, i)[q] = argv[at + 1 + q - 1]
    BY <1>2, <2>1, SliceOf
  <2>3. Tail(SubSeq(argv, at + 1, i)) = SubSeq(argv, (at + 1) + 1, i)
    BY <1>2, <2>1, SliceTail
  <2>4. i - (at + 1) + 1 = i - at /\ (at + 1) + 1 = at + 2 /\ at + 1 + 1 - 1 = at + 1 /\ 1 \in 1 .. i - (at + 1) + 1
    BY <1>2
  <2> QED
    BY <2>2, <2>3, <2>4
<1>4. ASSUME at < Len(argv)
      PROVE  /\ argv[at + 1] \in Argument
             /\ From(argv, at + 1)[1] = argv[at + 1]
             /\ Tail(From(argv, at + 1)) = From(argv, at + 2)
  <2>1. Len(argv) \in at + 1 .. Len(argv)
    BY <1>2, <1>4
  <2>2. argv[at + 1] \in Argument
    BY <1>2, <1>4
  <2> QED
    BY <1>3, <2>1, <2>2 DEF From
<1>5. ASSUME NEW i \in k .. Len(meant)
      PROVE  /\ SubSeq(meant, k + 1, i) \in Seq(Thing)
             /\ Len(SubSeq(meant, k + 1, i)) = i - k
             /\ \A q \in 1 .. i - k : SubSeq(meant, k + 1, i)[q] = meant[k + q]
  <2>1. k + 1 \in 1 .. Len(meant) + 1 /\ i \in (k + 1) - 1 .. Len(meant)
    BY <1>1
  <2>2. /\ SubSeq(meant, k + 1, i) \in Seq(Thing)
        /\ Len(SubSeq(meant, k + 1, i)) = i - (k + 1) + 1
        /\ \A q \in 1 .. i - (k + 1) + 1 : SubSeq(meant, k + 1, i)[q] = meant[k + 1 + q - 1]
    BY <1>1, <2>1, SliceOf
  <2>3. i - (k + 1) + 1 = i - k /\ \A q \in 1 .. i - k : k + 1 + q - 1 = k + q
    BY <1>1
  <2> QED
    BY <2>2, <2>3
<1>6. k \in Nat
  BY <1>1
<1> QED
  BY <1>1, <1>3, <1>4, <1>5, <1>6

\* At an argument that is no word the loop is between two phrases.
LEMMA AtPhrase ==
    ASSUME NEW c, NEW k, Parses(c, k), short = <<>>, ~ optsDone, at < Len(argv) => ~ IsWord(argv[at + 1])
    PROVE  BetweenPhrases(c, k) /\ Coming(c, k)
<1>1. BetweenPhrases(c, k)
  BY DEF Parses, Stands, AtWord, InGroup, OnlyWords
<1> QED
  BY <1>1, Upcoming DEF Parses, Stands, FlagTypes

\* What was said so far stays said when nothing that it is about changes.
LEMMA SofarKept ==
    ASSUME NEW k, Sofar(k), UNCHANGED <<meant, vals, mapKeys, active, rest>>
    PROVE  Sofar(k)'
<1>1. /\ Said(k)' <=> Said(k)
      /\ \A o : Sets(o, k)' = Sets(o, k)
      /\ Words(k)' = Words(k)
      /\ \A j : ListBefore(j)' = ListBefore(j)
  BY SameMeant
<1>2. Collects(k)' = Collects(k) /\ Keys(k)' = Keys(k) /\ MeantRest(k)' = MeantRest(k)
      /\ \A o : MeantMap(o, k)' = MeantMap(o, k)
  BY SameMeaning
<1>3. Scalars(k)'
  BY <1>1 DEF Sofar, Scalars
<1>4. Listing(k)'
  <2> SUFFICES ASSUME NEW o \in Long, Kind[o] = "list"
               PROVE  vals'[o] = ValuesIn(Ascending(Sets(o, k)))'
    BY DEF Listing
  <2>1. Ascending(Sets(o, k))' = Ascending(Sets(o, k))
    BY <1>1
  <2>2. vals[o] = ValuesIn(Ascending(Sets(o, k)))
    BY DEF Sofar, Listing
  <2> QED
    BY <2>1, <2>2 DEF ValuesIn
<1>5. Mapping(k)'
  BY <1>2 DEF Sofar, Mapping
<1>6. \A o \in Lists : Holds(o, vals[o], Collects(k))'
  <2> SUFFICES ASSUME NEW o \in Lists PROVE Holds(o, vals[o], Collects(k))'
    OBVIOUS
  <2>1. Holds(o, vals[o], Collects(k))
    BY DEF Sofar, Collecting
  <2>2. PICK v : v = vals[o]
    OBVIOUS
  <2>3. PICK C : C = Collects(k)
    OBVIOUS
  <2> QED
    BY <1>1, <1>2, <2>1, <2>2, <2>3 DEF Holds
<1>7. Collecting(k)'
  BY <1>1, <1>2, <1>6 DEF Sofar, Collecting
<1>8. DOMAIN vals' = Long
  BY DEF Sofar
<1> QED
  BY <1>1, <1>3, <1>4, <1>5, <1>7, <1>8 DEF Sofar

\* A command line with something wrong may be refused.
LEMMA RefuseStep ==
    ASSUME FlagTypes, Wrong, meant' = meant, argv' \in Seq(Argument), at' \in 0 .. Len(argv'), short' \in Argument,
           active' = active, optsDone' = optsDone, vals' = vals, status' = "error"
    PROVE  FlagTypes' /\ Outcome'
BY DEF FlagTypes, Outcome, Wrong

\* At two dashes, all that is left are words.
LEMMA EndOptionsStep ==
    ASSUME NEW c, NEW k, Parses(c, k), EndOptions
    PROVE  FlagTypes' /\ Outcome'
<1>1. short = <<>> /\ ~ optsDone /\ at < Len(argv) /\ argv[at + 1] = <<"-", "-">>
  BY DEF EndOptions, Parsing, Arg
<1>2. argv[at + 1] \in Argument
  BY <1>1, PhraseSlices
<1>3. Dashes(argv[at + 1])
  BY <1>1, <1>2, DashesForm
<1>4. Coming(c, k)
  <2>1. ~ IsWord(argv[at + 1])
    BY <1>2, <1>3, OneForm
  <2> QED
    BY <1>1, <2>1, AtPhrase
<1>5. /\ Len(meant) - k = Len(argv) - at - 1
      /\ \A i \in 1 .. Len(argv) - at - 1 : meant[k + i] = <<"word", argv[at + 1 + i]>>
  <2>1. CASE Wrong /\ IsWrong(From(argv, at + 1))
    BY <1>1, <1>2, <1>3, <2>1, PhraseSlices, OthersSay
  <2>2. ASSUME NEW x \in c[3], x[1] \in at + 1 .. Len(argv), Says(SubSeq(meant, k + 1, x[2]), SubSeq(argv, at + 1, x[1]))
        PROVE  FALSE
    <3>1. SubSeq(argv, at + 1, x[1])[1] = argv[at + 1]
      BY <2>2, PhraseSlices
    <3> QED
      BY <1>2, <1>3, <2>2, <3>1, OthersSay
  <2>3. ~ (at = Len(argv))
    BY <1>1 DEF Parses, FlagTypes
  <2> QED
    BY <1>4, <2>1, <2>2, <2>3 DEF Coming
<1>6. /\ optsDone' = TRUE /\ at' = at + 1
      /\ UNCHANGED <<meant, argv, short, rest, vals, mapKeys, active, status>>
  BY DEF EndOptions
<1>7. FlagTypes'
  BY <1>1, <1>6 DEF Parses, FlagTypes
<1>8. Sofar(k)'
  BY <1>6, SofarKept DEF Parses, Stands
<1>9. OnlyWords(k)'
  <2>1. Len(argv) - (at + 1) = Len(argv) - at - 1
    BY DEF Parses, FlagTypes
  <2> QED
    BY <1>1, <1>5, <1>6, <2>1 DEF OnlyWords
<1>10. Stands(c, k)'
  BY <1>6, <1>8, <1>9 DEF Parses, Stands
<1> QED
  BY <1>6, <1>7, <1>10 DEF Parses, Outcome, ReadingLine

\* What looks like an option and is none is refused, and is wrong.
LEMMA LongUnknownStep ==
    ASSUME NEW c, NEW k, Parses(c, k), LongUnknown
    PROVE  FlagTypes' /\ Outcome'
<1> DEFINE b == argv[at + 1]
<1>1. /\ short = <<>> /\ ~ optsDone /\ at < Len(argv) /\ IsLong(b)
      /\ \A o \in Long : ~ Names(SubSeq(b, 3, Len(b)), o)
      /\ EqualsAt(b) # 0 => \A o \in Long : ~ Names(Before(b, EqualsAt(b)), o)
  BY DEF LongUnknown, Parsing, Arg
<1>2. b \in Argument
  BY <1>1, PhraseSlices
<1> HIDE DEF b
<1>3. \A o \in Long : ~ Naming(b, o) /\ ~ Giving(b, o)
  BY <1>1, <1>2, NamingForm, GivingForm
<1>4. ~ IsWord(b) /\ ~ Dashes(b)
  <2>1. ASSUME Dashes(b) PROVE FALSE
    BY <1>1, <2>1 DEF IsLong, Dashes
  <2> QED
    BY <1>1, <1>2, <2>1, WordForm
<1>5. Coming(c, k)
  BY <1>1, <1>4, AtPhrase DEF b
<1>6. Wrong
  <2>1. ASSUME NEW x \in c[3], x[1] \in at + 1 .. Len(argv), Says(SubSeq(meant, k + 1, x[2]), SubSeq(argv, at + 1, x[1]))
        PROVE  FALSE
    <3>1. SubSeq(argv, at + 1, x[1])[1] = b
      BY <2>1, PhraseSlices DEF b
    <3> QED
      BY <1>1, <1>2, <1>3, <2>1, <3>1, OthersSay
  <2>2. ~ (at = Len(argv))
    BY <1>1 DEF Parses, FlagTypes
  <2> QED
    BY <1>4, <1>5, <2>1, <2>2 DEF Coming, b
<1>7. status' = "error" /\ UNCHANGED <<meant, argv, at, short, rest, vals, mapKeys, active, optsDone>>
  BY DEF LongUnknown, Refuse
<1> QED
  BY <1>6, <1>7, RefuseStep DEF Parses, FlagTypes

\* Taking values keeps the types.
LEMMA TakesTypes ==
    ASSUME FlagTypes, NEW o \in Long, NEW ws, TakesOption(o, ws),
           argv' \in Seq(Argument), at' \in 0 .. Len(argv'), short' \in Argument, optsDone' = optsDone, status' = status
    PROVE  FlagTypes'
<1>1. active' \in Lists \cup {"none"}
  BY ListsAre DEF FlagTypes, TakesOption
<1>2. DOMAIN vals' = Long
  BY DEF FlagTypes, TakesOption
<1> QED
  BY <1>1, <1>2 DEF FlagTypes

\* An option is read to the end of what is said: the loop is between phrases again.
LEMMA Advanced ==
    ASSUME NEW c, NEW k, Parses(c, k), NEW o \in Long, NEW ws, NEW x \in c[3], x[2] = k + 1,
           ws \in Seq(Argument), Len(ws) = Operands(o), k + 1 \in 0 .. Len(meant), meant[k + 1] = Given(o, ws),
           TakesOption(o, ws), argv' \in Seq(Argument), Len(argv') = Len(argv),
           \A i \in x[1] + 1 .. Len(argv) : argv'[i] = c[2][i],
           at' = x[1], short' = <<>>, ~ optsDone', optsDone' = optsDone, status' = status
    PROVE  FlagTypes' /\ Outcome'
<1>1. Sofar(k + 1)'
  <2>1. k \in Nat
    BY PhraseSlices
  <2>2. GivesNext(k, o, ws)
    BY DEF GivesNext, Parses, Stands
  <2> QED
    BY <2>1, <2>2, OptionTaken
<1>2. meant' = meant
  BY DEF TakesOption
<1>3. x[1] \in 0 .. Len(argv) /\ <<x[1], k + 1>> \in c[3]
  <2>1. c \in CommandLines /\ Len(argv) = Len(c[2])
    BY DEF Parses, Stands
  <2> QED
    BY <2>1, MarksAre
<1>4. BetweenPhrases(c, k + 1)'
  BY <1>3 DEF BetweenPhrases, Ahead
<1>5. Stands(c, k + 1)'
  BY <1>1, <1>2, <1>4 DEF Parses, Stands
<1>6. ReadingLine'
  BY <1>2, <1>5 DEF ReadingLine, Parses
<1>7. FlagTypes'
  <2>1. short' \in Argument /\ at' \in 0 .. Len(argv')
    BY <1>3 DEF Argument
  <2> QED
    BY <2>1, TakesTypes DEF Parses
<1> QED
  BY <1>6, <1>7 DEF Outcome, Parses

\* An option with the values after it.
LEMMA LongOptionStep ==
    ASSUME NEW c, NEW k, Parses(c, k), NEW o \in Long, LongOption(o)
    PROVE  FlagTypes' /\ Outcome'
<1> DEFINE b == argv[at + 1]
<1>1. /\ short = <<>> /\ ~ optsDone /\ at < Len(argv) /\ IsLong(b)
      /\ Names(SubSeq(b, 3, Len(b)), o)
      /\ Set(o, at + 1, argv) /\ short' = short
  BY DEF LongOption, Parsing, Arg
<1>2. b \in Argument
  BY <1>1, PhraseSlices
<1>3. Naming(b, o)
  BY <1>1, <1>2, NamingForm
<1> HIDE DEF b
<1>4. Coming(c, k) /\ BetweenPhrases(c, k)
  <2>1. ~ IsWord(b)
    BY <1>2, <1>3, OneForm
  <2> QED
    BY <1>1, <2>1, AtPhrase DEF b
<1>5. argv \in Seq(Argument) /\ at \in Nat /\ Len(argv) \in Nat /\ at + 1 \in 0 .. Len(argv)
  BY <1>1 DEF Parses, FlagTypes
<1>6. /\ argv' = argv /\ meant' = meant /\ rest' = rest /\ optsDone' = optsDone
      /\ Enough(o, From(argv, at + 2)) =>
            /\ at' = at + 1 + Operands(o) /\ at + 1 + Operands(o) <= Len(argv) /\ status' = status
            /\ TakesOption(o, SubSeq(argv, at + 2, at + 1 + Operands(o)))
      /\ ~ Enough(o, From(argv, at + 2)) => status' = "error" /\ UNCHANGED <<at, vals, mapKeys, active>>
  <2>1. (at + 1) + 1 = at + 2
    BY <1>5
  <2>2. /\ argv' = argv /\ meant' = meant /\ rest' = rest /\ optsDone' = optsDone
        /\ Enough(o, From(argv, (at + 1) + 1)) =>
            /\ at' = at + 1 + Operands(o) /\ at + 1 + Operands(o) <= Len(argv) /\ status' = status
            /\ TakesOption(o, SubSeq(argv, (at + 1) + 1, at + 1 + Operands(o)))
        /\ ~ Enough(o, From(argv, (at + 1) + 1)) => status' = "error" /\ UNCHANGED <<at, vals, mapKeys, active>>
    BY <1>1, <1>5, SetTakes
  <2> QED
    BY <2>1, <2>2
<1>7. CASE Wrong /\ IsWrong(From(argv, at + 1))
  <2>1. From(argv, at + 1)[1] = b /\ Tail(From(argv, at + 1)) = From(argv, at + 2)
    BY <1>1, PhraseSlices DEF b
  <2>2. ~ Enough(o, From(argv, at + 2))
    BY <1>2, <1>3, <1>7, <2>1, NamingSays
  <2> QED
    BY <1>1, <1>6, <1>7, <2>2, RefuseStep DEF Parses, FlagTypes
<1>8. ASSUME NEW x \in c[3], x[1] \in at + 1 .. Len(argv), x[2] \in k .. Len(meant),
             Says(SubSeq(meant, k + 1, x[2]), SubSeq(argv, at + 1, x[1]))
      PROVE  FlagTypes' /\ Outcome'
  <2> DEFINE a == SubSeq(argv, at + 1, x[1])
             m == SubSeq(meant, k + 1, x[2])
             ws == SubSeq(argv, at + 2, x[1])
  <2>1. a[1] = b /\ Len(a) = x[1] - at /\ Tail(a) = ws
    BY <1>8, PhraseSlices DEF b
  <2>2. Len(m) = x[2] - k /\ \A q \in 1 .. x[2] - k : m[q] = meant[k + q]
    BY <1>8, PhraseSlices
  <2> HIDE DEF a, m
  <2>3. Enough(o, ws) /\ Len(a) = Operands(o) + 1 /\ m = <<Given(o, ws)>>
    BY <1>2, <1>3, <1>8, <2>1, NamingSays DEF a, m
  <2>4. k \in Nat /\ Len(meant) \in Nat /\ Operands(o) \in Nat
    BY PhraseSlices, OperandsAre
  <2>5. x[2] = k + 1 /\ meant[k + 1] = Given(o, ws) /\ k + 1 \in 0 .. Len(meant)
    <3>1. Len(m) = 1 /\ m[1] = Given(o, ws)
      BY <2>3
    <3>2. x[2] - k = 1
      BY <2>2, <3>1
    <3>3. x[2] = k + 1 /\ k + 1 \in 0 .. Len(meant)
      BY <1>8, <2>4, <3>2
    <3>4. m[1] = meant[k + 1]
      BY <2>2, <3>2
    <3> QED
      BY <3>1, <3>3, <3>4
  <2>6. x[1] = at + 1 + Operands(o)
    <3>1. x[1] - at = Operands(o) + 1
      BY <2>1, <2>3
    <3>2. x[1] \in Int
      BY <1>5, <1>8
    <3> QED
      BY <1>5, <2>4, <3>1, <3>2
  <2>7. at + 2 \in 1 .. Len(argv) + 1 /\ x[1] \in (at + 2) - 1 .. Len(argv) /\ x[1] - (at + 2) + 1 = Operands(o)
    BY <1>5, <1>8, <2>4, <2>6
  <2>8. ws \in Seq(Argument) /\ Len(ws) = Operands(o)
    BY <1>5, <2>7, SliceOf
  <2>9. Enough(o, From(argv, at + 2))
    BY <1>5, <2>3, <2>7, EnoughMore
  <2>10. TakesOption(o, ws) /\ at' = x[1] /\ status' = status
    BY <1>6, <2>6, <2>9
  <2>11. \A i \in x[1] + 1 .. Len(argv) : argv'[i] = c[2][i]
    <3>1. \A i \in at + 1 .. Len(argv) : argv[i] = c[2][i]
      BY <1>4 DEF BetweenPhrases, Ahead
    <3> QED
      BY <1>5, <1>6, <1>8, <3>1
  <2> HIDE DEF ws
  <2> QED
    BY <1>1, <1>5, <1>6, <2>5, <2>8, <2>10, <2>11, Advanced
<1>9. ~ Dashes(b) /\ ~ (at = Len(argv))
  BY <1>1, <1>2, <1>3, <1>5, OneForm
<1> QED
  BY <1>4, <1>7, <1>8, <1>9 DEF Coming, b

\* An option with a value attached, which is put in its place; a word attached to a list is read as a word next.
LEMMA LongEqualsStep ==
    ASSUME NEW c, NEW k, Parses(c, k), NEW o \in Long, LongEquals(o)
    PROVE  FlagTypes' /\ Outcome'
<1> DEFINE b == argv[at + 1]
           v == ValueIn(b)
           av == [argv EXCEPT ![at + 1] = v]
<1>1. /\ short = <<>> /\ ~ optsDone /\ at < Len(argv) /\ IsLong(b)
      /\ EqualsAt(b) # 0 /\ Names(Before(b, EqualsAt(b)), o)
  BY DEF LongEquals, Parsing, Arg
<1>2. b \in Argument
  BY <1>1, PhraseSlices
<1>3. Giving(b, o) /\ After(b, EqualsAt(b)) = v /\ v \in Argument
  BY <1>1, <1>2, GivingForm
<1>4. IF Kind[o] = "bool" THEN Refuse ELSE Set(o, at, av) /\ short' = short
  BY <1>3 DEF LongEquals, Arg
<1> HIDE DEF b, v
<1>5. Coming(c, k) /\ BetweenPhrases(c, k)
  <2>1. ~ IsWord(b)
    BY <1>2, <1>3, OneForm
  <2> QED
    BY <1>1, <2>1, AtPhrase DEF b
<1>6. argv \in Seq(Argument) /\ at \in Nat /\ Len(argv) \in Nat /\ at + 1 \in 1 .. Len(argv)
  BY <1>1 DEF Parses, FlagTypes
<1>7. /\ av \in Seq(Argument) /\ Len(av) = Len(argv) /\ av[at + 1] = v
      /\ \A q \in at + 2 .. Len(argv) : av[q] = argv[q]
      /\ \A j \in at + 1 .. Len(argv) : SubSeq(av, at + 1, j) = <<v>> \o SubSeq(argv, at + 2, j)
  <2>1. (at + 1) + 1 = at + 2
    BY <1>6
  <2>2. Len(argv) \in at + 1 .. Len(argv)
    BY <1>6
  <2>3. ASSUME NEW j \in at + 1 .. Len(argv)
        PROVE  /\ av \in Seq(Argument) /\ Len(av) = Len(argv) /\ av[at + 1] = v
               /\ \A q \in (at + 1) + 1 .. Len(argv) : av[q] = argv[q]
               /\ SubSeq(av, at + 1, j) = <<v>> \o SubSeq(argv, (at + 1) + 1, j)
    BY <1>3, <1>6, PutBack
  <2> HIDE DEF av
  <2> QED
    BY <2>1, <2>2, <2>3
<1> HIDE DEF av
<1>8. Tail(From(argv, at + 1)) = SubSeq(argv, at + 2, Len(argv)) /\ From(argv, at + 1)[1] = b
  BY <1>1, PhraseSlices DEF b, From
<1>9. From(av, at + 1) = <<v>> \o Tail(From(argv, at + 1))
  <2>1. Len(argv) \in at + 1 .. Len(argv)
    BY <1>6
  <2> QED
    BY <1>7, <1>8, <2>1 DEF From
<1>10. ASSUME Kind[o] # "bool"
       PROVE  /\ argv' = av /\ meant' = meant /\ rest' = rest /\ optsDone' = optsDone /\ short' = short
              /\ Enough(o, From(av, at + 1)) =>
                    /\ at' = at + Operands(o) /\ at + Operands(o) <= Len(av) /\ status' = status
                    /\ TakesOption(o, SubSeq(av, at + 1, at + Operands(o)))
              /\ ~ Enough(o, From(av, at + 1)) => status' = "error" /\ UNCHANGED <<at, vals, mapKeys, active>>
  <2>1. Set(o, at, av) /\ short' = short
    BY <1>4, <1>10
  <2>2. at \in 0 .. Len(av)
    BY <1>6, <1>7
  <2> QED
    BY <1>7, <2>1, <2>2, SetTakes
<1>11. CASE Wrong /\ IsWrong(From(argv, at + 1))
  <2>1. CASE Kind[o] = "bool"
    <3>1. status' = "error" /\ UNCHANGED <<meant, argv, at, short, rest, vals, mapKeys, active, optsDone>>
      BY <1>4, <2>1 DEF Refuse
    <3> QED
      BY <1>11, <3>1, RefuseStep DEF Parses, FlagTypes
  <2>2. CASE Kind[o] # "bool"
    <3>1. ~ Enough(o, From(av, at + 1))
      BY <1>2, <1>3, <1>8, <1>9, <1>11, <2>2, GivingSays DEF v
    <3>2. /\ argv' = av /\ meant' = meant /\ optsDone' = optsDone /\ short' = short
          /\ status' = "error" /\ UNCHANGED <<at, vals, mapKeys, active>>
      BY <1>10, <2>2, <3>1
    <3>3. at' \in 0 .. Len(argv') /\ argv' \in Seq(Argument)
      BY <1>6, <1>7, <3>2
    <3> QED
      BY <1>11, <3>2, <3>3, RefuseStep DEF Parses, FlagTypes
  <2> QED
    BY <2>1, <2>2
<1>12. ASSUME NEW x \in c[3], x[1] \in at + 1 .. Len(argv), x[2] \in k .. Len(meant),
              Says(SubSeq(meant, k + 1, x[2]), SubSeq(argv, at + 1, x[1]))
       PROVE  FlagTypes' /\ Outcome'
  <2> DEFINE a == SubSeq(argv, at + 1, x[1])
             m == SubSeq(meant, k + 1, x[2])
             ws == SubSeq(av, at + 1, at + Operands(o))
  <2>1. a[1] = b /\ Len(a) = x[1] - at /\ Tail(a) = SubSeq(argv, at + 2, x[1])
    BY <1>12, PhraseSlices DEF b
  <2>2. Len(m) = x[2] - k /\ \A q \in 1 .. x[2] - k : m[q] = meant[k + q]
    BY <1>12, PhraseSlices
  <2>3. <<v>> \o Tail(a) = SubSeq(av, at + 1, x[1])
    BY <1>7, <1>12, <2>1
  <2> HIDE DEF a, m
  <2>4. \/ /\ Kind[o] \notin {"bool", "rest"} /\ Enough(o, SubSeq(av, at + 1, x[1])) /\ Len(a) = Operands(o)
           /\ m = <<Given(o, SubSeq(av, at + 1, x[1]))>>
        \/ /\ Kind[o] = "rest" /\ IsWord(v) /\ Len(a) = 1 /\ m = <<<<"list", o>>, <<"word", v>>>>
    BY <1>2, <1>3, <1>12, <2>1, <2>3, GivingSays DEF a, m, v
  <2>5. k \in Nat /\ Len(meant) \in Nat /\ Operands(o) \in Nat /\ x[1] \in Nat /\ x[2] \in Nat
    <3>1. k \in Nat /\ Len(meant) \in Nat /\ Operands(o) \in Nat
      BY PhraseSlices, OperandsAre
    <3> QED
      BY <1>6, <1>12, <3>1
  <2>6. \A i \in at + 2 .. Len(argv) : av[i] = c[2][i]
    <3>1. \A i \in at + 1 .. Len(argv) : argv[i] = c[2][i]
      BY <1>5 DEF BetweenPhrases, Ahead
    <3> QED
      BY <1>6, <1>7, <3>1
  <2>7. CASE /\ Kind[o] \notin {"bool", "rest"} /\ Enough(o, SubSeq(av, at + 1, x[1])) /\ Len(a) = Operands(o)
             /\ m = <<Given(o, SubSeq(av, at + 1, x[1]))>>
    <3>1. x[2] = k + 1 /\ meant[k + 1] = Given(o, SubSeq(av, at + 1, x[1])) /\ k + 1 \in 0 .. Len(meant)
      <4>1. Len(m) = 1 /\ m[1] = Given(o, SubSeq(av, at + 1, x[1]))
        BY <2>7
      <4>2. x[2] - k = 1
        BY <2>2, <4>1
      <4>3. x[2] = k + 1
        BY <2>5, <4>2
      <4>4. m[1] = meant[k + 1]
        BY <2>2, <4>2
      <4> QED
        BY <1>12, <2>5, <4>1, <4>3, <4>4
    <3>2. x[1] = at + Operands(o)
      <4>1. x[1] - at = Operands(o)
        BY <2>1, <2>7
      <4> QED
        BY <1>6, <2>5, <4>1
    <3>3. at + 1 \in 1 .. Len(av) + 1 /\ x[1] \in (at + 1) - 1 .. Len(av) /\ x[1] - (at + 1) + 1 = Operands(o)
      <4>1. Len(av) \in Nat /\ at + 1 <= Len(av) /\ x[1] <= Len(av) /\ at + 1 <= x[1]
        BY <1>6, <1>7, <1>12
      <4>2. x[1] - (at + 1) + 1 = Operands(o)
        BY <1>6, <2>5, <3>2
      <4> QED
        BY <1>6, <2>5, <4>1, <4>2
    <3>4. ws \in Seq(Argument) /\ Len(ws) = Operands(o)
      <4>1. SubSeq(av, at + 1, x[1]) \in Seq(Argument) /\ Len(SubSeq(av, at + 1, x[1])) = x[1] - (at + 1) + 1
        BY <1>7, <3>3, SliceOf
      <4> QED
        BY <3>2, <3>3, <4>1
    <3>5. Enough(o, From(av, at + 1))
      BY <1>7, <2>7, <3>3, EnoughMore
    <3>6. /\ argv' = av /\ optsDone' = optsDone /\ short' = short
          /\ TakesOption(o, ws) /\ at' = x[1] /\ status' = status
      BY <1>10, <2>7, <3>2, <3>5
    <3>7. meant[k + 1] = Given(o, ws)
      BY <3>1, <3>2
    <3>8. \A i \in x[1] + 1 .. Len(argv) : argv'[i] = c[2][i]
      BY <1>6, <1>12, <2>5, <2>6, <3>6
    <3> HIDE DEF ws
    <3> QED
      BY <1>1, <1>7, <3>1, <3>4, <3>6, <3>7, <3>8, Advanced
  <2>8. CASE /\ Kind[o] = "rest" /\ IsWord(v) /\ Len(a) = 1 /\ m = <<<<"list", o>>, <<"word", v>>>>
    <3>1. Len(m) = 2 /\ m[1] = <<"list", o>> /\ m[2] = <<"word", v>>
      BY <2>8
    <3>2. x[2] = k + 2
      <4>1. x[2] - k = 2
        BY <2>2, <3>1
      <4> QED
        BY <2>5, <4>1
    <3>3. meant[k + 1] = <<"list", o>> /\ meant[k + 2] = <<"word", v>> /\ k + 1 < Len(meant)
      <4>1. m[1] = meant[k + 1] /\ m[2] = meant[k + 2] /\ x[2] <= Len(meant)
        BY <1>12, <2>2, <2>5, <3>2
      <4> QED
        BY <2>5, <3>1, <3>2, <4>1
    <3>4. x[1] = at + 1
      <4>1. x[1] - at = 1
        BY <2>1, <2>8
      <4> QED
        BY <1>6, <2>5, <4>1
    <3>5. Operands(o) = 0 /\ at + 1 \in 1 .. Len(av) + 1 /\ at \in (at + 1) - 1 .. Len(av) /\ at - (at + 1) + 1 = 0 /\ at + 0 = at
      <4>1. Operands(o) = 0
        BY <2>8, OperandsAre
      <4> QED
        BY <1>6, <1>7, <4>1
    <3>6. ws \in Seq(Argument) /\ Len(ws) = 0
      BY <1>7, <3>5, SliceOf
    <3>7. Enough(o, From(av, at + 1))
      <4>1. Len(From(av, at + 1)) \in Nat
        BY <1>7, <3>5, FromIs
      <4> QED
        BY <2>8, <3>5, <4>1 DEF Enough
    <3>8. /\ argv' = av /\ optsDone' = optsDone /\ short' = short /\ meant' = meant
          /\ TakesOption(o, ws) /\ at' = at /\ status' = status
      BY <1>10, <2>8, <3>5, <3>7
    <3>9. meant[k + 1] = Given(o, ws)
      BY <2>8, <3>3 DEF Given
    <3> HIDE DEF ws
    <3>10. Sofar(k + 1)'
      <4>1. GivesNext(k, o, ws)
        BY <3>5, <3>6, <3>8, <3>9 DEF GivesNext, Parses, Stands
      <4> QED
        BY <2>5, <4>1, OptionTaken
    <3>11. AtWord(c, k + 1)'
      <4>1. <<at + 1, k + 2>> \in c[3]
        <5>1. c \in CommandLines
          BY DEF Parses
        <5> QED
          BY <3>2, <3>4, <5>1, MarksAre
      <4>2. k + 1 + 1 = k + 2 /\ at + 1 + 1 = at + 2 /\ at < Len(av)
        BY <1>1, <1>6, <1>7, <2>5
      <4> QED
        BY <1>1, <1>7, <2>6, <2>8, <3>3, <3>8, <4>1, <4>2 DEF AtWord, Ahead
    <3>12. Stands(c, k + 1)'
      BY <1>7, <3>8, <3>10, <3>11 DEF Parses, Stands
    <3>13. k + 1 \in 0 .. Len(meant)
      BY <2>5, <3>3
    <3>14. FlagTypes'
      <4>1. argv' \in Seq(Argument) /\ at' \in 0 .. Len(argv') /\ short' \in Argument
        BY <1>6, <1>7, <3>8 DEF Parses, FlagTypes
      <4> QED
        BY <3>8, <4>1, TakesTypes DEF Parses
    <3>15. ReadingLine'
      BY <3>8, <3>12, <3>13 DEF ReadingLine, Parses
    <3> QED
      BY <3>8, <3>14, <3>15 DEF Outcome, Parses
  <2> QED
    BY <2>4, <2>7, <2>8
<1>13. ~ Dashes(b) /\ ~ (at = Len(argv))
  BY <1>1, <1>2, <1>3, <1>6, OneForm
<1> QED
  BY <1>5, <1>11, <1>12, <1>13 DEF Coming, b

\* A word.
LEMMA WordStep ==
    ASSUME NEW c, NEW k, Parses(c, k), Word
    PROVE  FlagTypes' /\ Outcome'
<1> DEFINE b == argv[at + 1]
<1>1. /\ short = <<>> /\ at < Len(argv)
      /\ optsDone \/ (~ IsLong(b) /\ b # <<"-", "-">> /\ ~ (IsShort(b) /\ Grouped(b)))
      /\ at' = at + 1 /\ UNCHANGED <<meant, argv, short, mapKeys, active, optsDone, status>>
      /\ TakesWord(b)
  BY DEF Word, Parsing, Arg, TakesWord
<1>2. b \in Argument
  BY <1>1, PhraseSlices
<1> HIDE DEF b
<1>3. /\ argv \in Seq(Argument) /\ at \in Nat /\ Len(argv) \in Nat /\ optsDone \in BOOLEAN
      /\ meant \in Seq(Thing) /\ Len(meant) \in Nat /\ k \in Nat
  BY <1>1, PhraseSlices DEF Parses, FlagTypes
<1>4. FlagTypes'
  <2>1. DOMAIN vals' = Long
    BY <1>1 DEF TakesWord, Parses, FlagTypes
  <2>2. at' \in 0 .. Len(argv')
    BY <1>1, <1>3
  <2> QED
    BY <1>1, <2>1, <2>2 DEF Parses, FlagTypes
<1>5. ASSUME k + 1 <= Len(meant), meant[k + 1] = <<"word", b>> PROVE Sofar(k + 1)' /\ k + 1 \in 0 .. Len(meant)
  BY <1>1, <1>2, <1>3, <1>5, WordTaken DEF Parses, Stands
<1>6. CASE ~ optsDone
  <2>1. IsWord(b)
    BY <1>1, <1>2, <1>6, WordForm
  <2>2. k + 1 <= Len(meant) /\ meant[k + 1] = <<"word", b>> /\ <<at + 1, k + 1>> \in c[3] /\ Ahead(c, at + 1)
    <3>1. CASE AtWord(c, k)
      BY <1>3, <3>1 DEF AtWord, b
    <3>2. CASE BetweenPhrases(c, k)
      <4>1. Coming(c, k)
        BY <3>2, Upcoming DEF Parses, Stands, FlagTypes
      <4>2. ~ IsWrong(From(argv, at + 1)) /\ ~ Dashes(b) /\ ~ (at = Len(argv))
        <5>1. From(argv, at + 1)[1] = b
          BY <1>1, PhraseSlices DEF b
        <5>2. ~ IsWrong(From(argv, at + 1))
          BY <1>2, <2>1, <5>1, WordSays
        <5>3. ~ Dashes(b)
          BY <1>2, <2>1, OneForm
        <5> QED
          BY <1>1, <1>3, <5>2, <5>3
      <4>3. PICK x \in c[3] : /\ x[1] \in at + 1 .. Len(argv) /\ x[2] \in k .. Len(meant)
                              /\ Says(SubSeq(meant, k + 1, x[2]), SubSeq(argv, at + 1, x[1]))
        BY <4>1, <4>2 DEF Coming, b
      <4> DEFINE a == SubSeq(argv, at + 1, x[1])
                 m == SubSeq(meant, k + 1, x[2])
      <4>4. a[1] = b /\ Len(a) = x[1] - at
        BY <4>3, PhraseSlices DEF b
      <4>5. Len(m) = x[2] - k /\ \A q \in 1 .. x[2] - k : m[q] = meant[k + q]
        BY <4>3, PhraseSlices
      <4>6. Says(m, a)
        BY <4>3
      <4> HIDE DEF a, m
      <4>7. Len(a) = 1 /\ m = <<<<"word", b>>>>
        BY <1>2, <2>1, <4>4, <4>6, WordSays
      <4>8. x[1] = at + 1
        <5>1. x[1] - at = 1 /\ x[1] \in Int
          <6>1. x[1] - at = 1
            BY <4>4, <4>7
          <6> QED
            BY <1>3, <4>3, <6>1
        <5> QED
          BY <1>3, <5>1
      <4>9. x[2] = k + 1 /\ meant[k + 1] = <<"word", b>>
        <5>1. Len(m) = 1 /\ m[1] = <<"word", b>>
          BY <4>7
        <5>2. x[2] - k = 1 /\ x[2] \in Int
          BY <1>3, <4>3, <4>5, <5>1
        <5> QED
          BY <1>3, <4>5, <5>1, <5>2
      <4>10. x = <<at + 1, k + 1>>
        <5>1. c \in CommandLines
          BY DEF Parses
        <5> QED
          BY <4>8, <4>9, <5>1, MarksAre
      <4>11. k + 1 <= Len(meant)
        BY <4>3, <4>9
      <4>12. Ahead(c, at + 1)
        BY <1>3, <3>2 DEF BetweenPhrases, Ahead
      <4> QED
        BY <4>9, <4>10, <4>11, <4>12
    <3> QED
      BY <1>1, <1>6, <3>1, <3>2 DEF Parses, Stands, InGroup, OnlyWords
  <2>3. BetweenPhrases(c, k + 1)'
    BY <1>1, <1>6, <2>2 DEF BetweenPhrases, Ahead
  <2>4. Stands(c, k + 1)'
    BY <1>1, <1>5, <2>2, <2>3 DEF Parses, Stands
  <2>5. ReadingLine'
    BY <1>1, <1>5, <2>2, <2>4 DEF Parses, ReadingLine
  <2> QED
    BY <1>1, <1>4, <2>5 DEF Parses, Outcome
<1>7. CASE optsDone
  <2>1. OnlyWords(k)
    BY <1>7 DEF Parses, Stands, BetweenPhrases, AtWord, InGroup
  <2>2. /\ Len(argv) - at = Len(meant) - k
        /\ \A i \in 1 .. Len(argv) - at : meant[k + i] = <<"word", argv[at + i]>>
    BY <2>1 DEF OnlyWords
  <2>3. k + 1 <= Len(meant) /\ meant[k + 1] = <<"word", b>>
    <3>1. 1 \in 1 .. Len(argv) - at
      BY <1>1, <1>3
    <3>2. Len(meant) - k >= 1
      BY <1>1, <1>3, <2>2
    <3> QED
      BY <1>3, <2>2, <3>1, <3>2 DEF b
  <2>4. OnlyWords(k + 1)'
    <3>1. Len(argv) - (at + 1) = Len(meant) - (k + 1)
      BY <1>3, <2>2
    <3>2. ASSUME NEW i \in 1 .. Len(argv) - (at + 1) PROVE meant[k + 1 + i] = <<"word", argv[at + 1 + i]>>
      <4>1. i + 1 \in 1 .. Len(argv) - at /\ k + (i + 1) = k + 1 + i /\ at + (i + 1) = at + 1 + i
        BY <1>3
      <4>2. meant[k + (i + 1)] = <<"word", argv[at + (i + 1)]>>
        BY <2>2, <4>1
      <4> QED
        BY <4>1, <4>2
    <3> QED
      BY <1>1, <1>7, <3>1, <3>2 DEF OnlyWords
  <2>5. Stands(c, k + 1)'
    BY <1>1, <1>5, <2>3, <2>4 DEF Parses, Stands
  <2>6. ReadingLine'
    BY <1>1, <1>5, <2>3, <2>5 DEF Parses, ReadingLine
  <2> QED
    BY <1>1, <1>4, <2>6 DEF Parses, Outcome
<1> QED
  BY <1>6, <1>7

\* At the end everything that is meant is done.
LEMMA ParsingEndsStep ==
    ASSUME NEW c, NEW k, Parses(c, k), ParsingEnds
    PROVE  FlagTypes' /\ Outcome'
<1>1. /\ short = <<>> /\ at = Len(argv) /\ status' = "done"
      /\ UNCHANGED <<meant, argv, at, short, rest, vals, mapKeys, active, optsDone>>
  BY DEF ParsingEnds
<1>2. meant \in Seq(Thing) /\ Len(meant) \in Nat /\ k \in Nat /\ at \in Nat
  BY <1>1, PhraseSlices DEF Parses, FlagTypes
<1>3. k = Len(meant)
  <2>1. CASE BetweenPhrases(c, k)
    <3>1. Coming(c, k)
      BY <2>1, Upcoming DEF Parses, Stands, FlagTypes
    <3> QED
      BY <1>1, <1>2, <3>1 DEF Coming
  <2>2. CASE OnlyWords(k)
    <3>1. Len(meant) - k = 0
      BY <1>1, <1>2, <2>2 DEF OnlyWords
    <3> QED
      BY <1>2, <3>1
  <2>3. CASE AtWord(c, k)
    BY <1>1, <1>2, <2>3 DEF AtWord
  <2> QED
    BY <1>1, <2>1, <2>2, <2>3 DEF Parses, Stands, InGroup
<1>4. Sofar(k)'
  BY <1>1, SofarKept DEF Parses, Stands
<1>5. FlagTypes'
  BY <1>1 DEF Parses, FlagTypes
<1> QED
  BY <1>1, <1>2, <1>3, <1>4, <1>5 DEF Outcome

\* A group of letters is entered.
LEMMA ShortGroupStep ==
    ASSUME NEW c, NEW k, Parses(c, k), ShortGroup
    PROVE  FlagTypes' /\ Outcome'
<1> DEFINE b == argv[at + 1]
<1>1. /\ short = <<>> /\ ~ optsDone /\ at < Len(argv) /\ IsShort(b) /\ Grouped(b)
      /\ short' = Tail(b) /\ at' = at + 1
      /\ UNCHANGED <<meant, argv, rest, vals, mapKeys, active, optsDone, status>>
  BY DEF ShortGroup, Parsing, Arg
<1>2. b \in Argument
  BY <1>1, PhraseSlices
<1> HIDE DEF b
<1>3. IsGroup(b) /\ ~ IsWord(b) /\ ~ Dashes(b)
  BY <1>1, <1>2, GroupForm, OneForm
<1>4. Coming(c, k) /\ BetweenPhrases(c, k)
  BY <1>1, <1>3, AtPhrase DEF b
<1>5. argv \in Seq(Argument) /\ at \in Nat /\ Len(argv) \in Nat
  BY <1>1 DEF Parses, FlagTypes
<1>6. short' \in Argument /\ short' # <<>>
  <2>1. b \in Seq(Piece) /\ Len(b) > 1
    BY <1>1, <1>2 DEF Argument, IsShort
  <2>2. b # <<>>
    BY <2>1
  <2>3. Tail(b) \in Seq(Piece) /\ Len(Tail(b)) = Len(b) - 1
    BY <2>1, <2>2, HeadTailProperties
  <2>4. Len(Tail(b)) # 0
    BY <2>1, <2>3
  <2>5. Tail(b) # <<>>
    <3> DEFINE t == Tail(b)
    <3>1. Len(t) # 0
      BY <2>4
    <3> HIDE DEF t
    <3>2. t # <<>>
      BY <3>1
    <3> QED
      BY <3>2 DEF t
  <2> QED
    BY <1>1, <2>3, <2>5 DEF Argument
<1>7. FlagTypes'
  <2>1. at' \in 0 .. Len(argv')
    BY <1>1, <1>5
  <2> QED
    BY <1>1, <1>6, <2>1 DEF Parses, FlagTypes
<1>8. CASE Wrong /\ IsWrong(From(argv, at + 1))
  <2>1. From(argv, at + 1)[1] = b /\ Tail(From(argv, at + 1)) = From(argv, at + 2)
    BY <1>1, PhraseSlices DEF b
  <2>2. GroupWrong(Tail(b), From(argv, at + 2))
    BY <1>2, <1>3, <1>8, <2>1, GroupFormSays
  <2>3. at' + 1 = at + 2 /\ at' >= 1
    BY <1>1, <1>5
  <2>4. InWrong'
    BY <1>1, <1>6, <1>8, <2>2, <2>3 DEF InWrong, Wrong
  <2> QED
    BY <1>1, <1>7, <2>4 DEF Parses, Outcome, ReadingLine
<1>9. ASSUME NEW x \in c[3], x[1] \in at + 1 .. Len(argv), x[2] \in k .. Len(meant),
             Says(SubSeq(meant, k + 1, x[2]), SubSeq(argv, at + 1, x[1]))
      PROVE  FlagTypes' /\ Outcome'
  <2> DEFINE a == SubSeq(argv, at + 1, x[1])
             m == SubSeq(meant, k + 1, x[2])
  <2>1. a[1] = b /\ Tail(a) = SubSeq(argv, at + 2, x[1])
    BY <1>9, PhraseSlices DEF b
  <2>2. GroupSays(m, Tail(b), SubSeq(argv, at + 2, x[1]))
    BY <1>2, <1>3, <1>9, <2>1, GroupFormSays
  <2>3. at' + 1 = at + 2 /\ at' >= 1 /\ x[1] >= at' /\ x[2] >= k
    BY <1>1, <1>5, <1>9, PhraseSlices
  <2>4. Ahead(c, at)'
    <3>1. \A i \in at + 1 .. Len(argv) : argv[i] = c[2][i]
      BY <1>4 DEF BetweenPhrases, Ahead
    <3>2. \A i \in at' + 1 .. Len(argv) : argv[i] = c[2][i]
      BY <1>5, <2>3, <3>1
    <3> QED
      BY <1>1, <3>2 DEF Ahead
  <2>5. InGroup(c, k)'
    BY <1>1, <1>6, <2>2, <2>3, <2>4 DEF InGroup
  <2>6. Sofar(k)'
    BY <1>1, SofarKept DEF Parses, Stands
  <2>7. Stands(c, k)'
    BY <1>1, <2>5, <2>6 DEF Parses, Stands
  <2>8. ReadingLine'
    BY <1>1, <2>7 DEF Parses, ReadingLine
  <2> QED
    BY <1>1, <1>7, <2>8 DEF Parses, Outcome
<1>10. ~ (at = Len(argv))
  BY <1>1, <1>5
<1> QED
  BY <1>3, <1>4, <1>8, <1>9, <1>10 DEF Coming, b

-------------------------------------------------------------------------------
(* Letters.                                                                *)

\* The tail of a group, for its letters after the first.
LEMMA GroupTail ==
    ASSUME NEW s \in Argument, s # <<>>
    PROVE  /\ Tail(s) \in Argument /\ Len(Tail(s)) = Len(s) - 1 /\ Len(s) \in Nat \ {0}
           /\ From(s, 1) = s
           /\ \A n \in 1 .. Len(s) - 1 : From(Tail(s), (n - 1) + 1) = From(s, n + 1) /\ Tail(s)[n] = s[n + 1]
           /\ \A n \in 1 .. Len(s) : Switches(s, n) <=> Switch(s[1]) /\ Switches(Tail(s), n - 1)
<1>1. s \in Seq(Piece) /\ Len(s) \in Nat \ {0}
  BY DEF Argument
<1>2. Tail(s) \in Seq(Piece) /\ Len(Tail(s)) = Len(s) - 1 /\ \A i \in 1 .. Len(Tail(s)) : Tail(s)[i] = s[i + 1]
  BY <1>1, HeadTailProperties
<1>3. From(s, 1) = s
  BY <1>1, SubSeqFull DEF From
<1>4. Tail(s) = From(s, 2)
  BY <1>1, TailIsFrom
<1> DEFINE t == Tail(s)
<1> HIDE DEF t
<1>5. t \in Seq(Piece) /\ Len(t) = Len(s) - 1 /\ \A i \in 1 .. Len(s) - 1 : t[i] = s[i + 1]
  BY <1>2 DEF t
<1>6. ASSUME NEW n \in 1 .. Len(s) - 1 PROVE From(t, (n - 1) + 1) = From(s, n + 1)
  <2>1. (n - 1) + 1 \in 1 .. Len(t) + 1 /\ n + 1 \in 1 .. Len(s) + 1
    BY <1>1, <1>5
  <2>2. /\ From(t, (n - 1) + 1) \in Seq(Piece) /\ Len(From(t, (n - 1) + 1)) = Len(t) - ((n - 1) + 1) + 1
        /\ \A q \in 1 .. Len(t) - ((n - 1) + 1) + 1 : From(t, (n - 1) + 1)[q] = t[(n - 1) + 1 + q - 1]
    BY <1>5, <2>1, FromIs
  <2>3. /\ From(s, n + 1) \in Seq(Piece) /\ Len(From(s, n + 1)) = Len(s) - (n + 1) + 1
        /\ \A q \in 1 .. Len(s) - (n + 1) + 1 : From(s, n + 1)[q] = s[n + 1 + q - 1]
    BY <1>1, <2>1, FromIs
  <2> DEFINE f == From(t, (n - 1) + 1)
             g == From(s, n + 1)
             l == Len(s) - n
  <2>4. f \in Seq(Piece) /\ g \in Seq(Piece) /\ Len(f) = l /\ Len(g) = l
    <3>1. Len(t) - ((n - 1) + 1) + 1 = l /\ Len(s) - (n + 1) + 1 = l
      BY <1>1, <1>5
    <3> QED
      BY <2>2, <2>3, <3>1
  <2>5. \A q \in 1 .. l : f[q] = g[q]
    <3> SUFFICES ASSUME NEW q \in 1 .. l PROVE f[q] = g[q]
      OBVIOUS
    <3>1. q \in 1 .. Len(t) - ((n - 1) + 1) + 1 /\ q \in 1 .. Len(s) - (n + 1) + 1
      BY <1>1, <1>5
    <3>2. f[q] = t[(n - 1) + 1 + q - 1] /\ g[q] = s[n + 1 + q - 1]
      BY <2>2, <2>3, <3>1
    <3>3. (n - 1) + 1 + q - 1 = n + q - 1 /\ n + 1 + q - 1 = (n + q - 1) + 1 /\ n + q - 1 \in 1 .. Len(s) - 1
      BY <1>1
    <3> QED
      BY <1>5, <3>2, <3>3
  <2> HIDE DEF f, g
  <2>6. f = g
    BY <2>4, <2>5, SeqEqual
  <2> QED
    BY <2>6 DEF f, g
<1>7. ASSUME NEW n \in 1 .. Len(s) PROVE Switches(s, n) <=> Switch(s[1]) /\ Switches(t, n - 1)
  <2>1. n \in 0 .. Len(s) /\ n - 1 \in 0 .. Len(t)
    BY <1>1, <1>5
  <2>2. \A i \in 1 .. n - 1 : i \in 1 .. Len(s) - 1 /\ i + 1 \in 1 .. n
    BY <1>1
  <2>3. \A i \in 1 .. n : i = 1 \/ (i - 1 \in 1 .. n - 1 /\ (i - 1) + 1 = i)
    OBVIOUS
  <2>4. 1 \in 1 .. n
    OBVIOUS
  <2>5. ASSUME \A i \in 1 .. n : Switch(s[i]) PROVE Switch(s[1]) /\ \A i \in 1 .. n - 1 : Switch(t[i])
    BY <1>5, <2>2, <2>4, <2>5
  <2>6. ASSUME Switch(s[1]), \A i \in 1 .. n - 1 : Switch(t[i]), NEW i \in 1 .. n PROVE Switch(s[i])
    <3>1. CASE i = 1
      BY <2>6, <3>1
    <3>2. CASE i # 1
      <4>1. i - 1 \in 1 .. n - 1 /\ (i - 1) + 1 = i
        BY <2>3, <3>2
      <4>2. t[i - 1] = s[(i - 1) + 1]
        BY <1>5, <2>2, <4>1
      <4>3. Switch(t[i - 1])
        BY <2>6, <4>1
      <4> QED
        BY <4>1, <4>2, <4>3
    <3> QED
      BY <3>1, <3>2
  <2> QED
    BY <2>1, <2>5, <2>6 DEF Switches
<1> QED
  BY <1>1, <1>3, <1>5, <1>6, <1>7 DEF t, Argument

\* A letter stands for a switch, for an option with values, or for none.
LEMMA OneLetter ==
    ASSUME NEW l
    PROVE  /\ Switch(l) => ~ Wants(l) /\ ~ Unknown(l) /\ l \in DOMAIN Short /\ Short[l] \in Long /\ Kind[Short[l]] = "bool"
           /\ Wants(l) => ~ Unknown(l) /\ l \in DOMAIN Short /\ Short[l] \in Long
                          /\ Kind[Short[l]] # "bool" /\ Kind[Short[l]] # "rest"
BY OptionsAssumption, ListsAre DEF Switch, Wants, Unknown

\* What is wrong with a group is wrong with its first letter or with what follows it.
LEMMA GroupWrongHead ==
    ASSUME NEW s \in Argument, s # <<>>, NEW as, GroupWrong(s, as)
    PROVE  \/ Unknown(s[1])
           \/ Wants(s[1]) /\ ~ Enough(Short[s[1]], ValuesOf(s, as))
           \/ Switch(s[1]) /\ Tail(s) # <<>> /\ GroupWrong(Tail(s), as)
<1>1. PICK n \in 0 .. Len(s) - 1 :
         /\ Switches(s, n)
         /\ Unknown(From(s, n + 1)[1])
            \/ (Wants(From(s, n + 1)[1]) /\ ~ Enough(Short[From(s, n + 1)[1]], ValuesOf(From(s, n + 1), as)))
  BY DEF GroupWrong
<1>2. CASE n = 0
  <2>1. From(s, n + 1) = s
    BY <1>2, GroupTail
  <2> QED
    BY <1>1, <2>1
<1>3. CASE n # 0
  <2>1. n \in 1 .. Len(s) - 1 /\ n \in 1 .. Len(s) /\ Len(s) \in Nat
    BY <1>3, GroupTail
  <2>2. Switch(s[1]) /\ Switches(Tail(s), n - 1) /\ From(Tail(s), (n - 1) + 1) = From(s, n + 1)
    BY <1>1, <2>1, GroupTail
  <2>3. Len(Tail(s)) = Len(s) - 1
    BY GroupTail
  <2>4. n - 1 \in 0 .. Len(Tail(s)) - 1
    BY <2>1, <2>3
  <2>5. GroupWrong(Tail(s), as)
    BY <1>1, <2>2, <2>4 DEF GroupWrong
  <2>6. Tail(s) # <<>>
    <3>1. Len(Tail(s)) # 0
      BY <2>1, <2>3
    <3> DEFINE t == Tail(s)
    <3>2. Len(t) # 0
      BY <3>1
    <3> HIDE DEF t
    <3>3. t # <<>>
      BY <3>2
    <3> QED
      BY <3>3 DEF t
  <2> QED
    BY <2>2, <2>5, <2>6
<1> QED
  BY <1>2, <1>3

\* After a switch the other switches are left.
LEMMA SwitchedTail ==
    ASSUME NEW s \in Argument, s # <<>>, NEW n \in 1 .. Len(s), NEW S, NEW u \in Seq(S), u = Switched(s, n)
    PROVE  /\ Len(u) = n /\ u[1] = Given(Short[s[1]], <<>>)
           /\ Tail(u) = Switched(Tail(s), n - 1)
<1>1. u = [i \in 1 .. n |-> Given(Short[s[i]], <<>>)]
  BY DEF Switched
<1>2. Len(u) = n /\ \A i \in 1 .. n : u[i] = Given(Short[s[i]], <<>>)
  BY <1>1
<1>3. u # <<>>
  BY <1>2
<1>4. Tail(u) \in Seq(S) /\ Len(Tail(u)) = n - 1 /\ \A i \in 1 .. n - 1 : Tail(u)[i] = u[i + 1]
  BY <1>2, <1>3, HeadTailProperties
<1>5. \A i \in 1 .. n - 1 : Tail(u)[i] = Given(Short[Tail(s)[i]], <<>>)
  <2> SUFFICES ASSUME NEW i \in 1 .. n - 1 PROVE Tail(u)[i] = Given(Short[Tail(s)[i]], <<>>)
    OBVIOUS
  <2>1. i \in 1 .. Len(s) - 1 /\ i + 1 \in 1 .. n
    BY GroupTail
  <2>2. Tail(s)[i] = s[i + 1]
    BY <2>1, GroupTail
  <2> QED
    BY <1>2, <1>4, <2>1, <2>2
<1> DEFINE t == Tail(u)
<1> HIDE DEF t
<1>6. t \in Seq(S) /\ Len(t) = n - 1 /\ \A i \in 1 .. n - 1 : t[i] = Given(Short[Tail(s)[i]], <<>>)
  BY <1>4, <1>5 DEF t
<1>7. t = [i \in 1 .. n - 1 |-> Given(Short[Tail(s)[i]], <<>>)]
  BY <1>6
<1> QED
  BY <1>2, <1>7 DEF Switched, t

\* An empty sequence has no elements.
LEMMA EmptyLen ==
    ASSUME NEW t
    PROVE  (t = <<>> => Len(t) = 0) /\ (Len(t) # 0 => t # <<>>)
OBVIOUS

\* Appending commutes with taking the first away.
LEMMA TailAppend ==
    ASSUME NEW S, NEW u \in Seq(S), NEW g \in S, u # <<>>
    PROVE  Tail(Append(u, g)) = Append(Tail(u), g)
<1> DEFINE a == Append(u, g)
           t == Tail(a)
           w == Append(Tail(u), g)
           n == Len(u)
<1>1. n \in Nat \ {0}
  OBVIOUS
<1>2. a \in Seq(S) /\ a # <<>> /\ Len(a) = n + 1 /\ (\A i \in 1 .. n : a[i] = u[i]) /\ a[n + 1] = g
  BY AppendProperties
<1> HIDE DEF a
<1>3. t \in Seq(S) /\ Len(t) = Len(a) - 1 /\ \A i \in 1 .. Len(t) : t[i] = a[i + 1]
  BY <1>2, HeadTailProperties
<1>4. Tail(u) \in Seq(S) /\ Len(Tail(u)) = n - 1 /\ \A i \in 1 .. n - 1 : Tail(u)[i] = u[i + 1]
  BY HeadTailProperties
<1>5. w \in Seq(S) /\ Len(w) = (n - 1) + 1 /\ (\A i \in 1 .. n - 1 : w[i] = Tail(u)[i]) /\ w[(n - 1) + 1] = g
  BY <1>4, AppendProperties
<1> HIDE DEF t, w, n
<1>6. Len(t) = n /\ Len(w) = n
  BY <1>1, <1>2, <1>3, <1>5
<1>7. \A i \in 1 .. n : t[i] = w[i]
  <2> SUFFICES ASSUME NEW i \in 1 .. n PROVE t[i] = w[i]
    OBVIOUS
  <2>1. CASE i = n
    BY <1>1, <1>2, <1>3, <1>5, <1>6, <2>1
  <2>2. CASE i # n
    <3>1. i \in 1 .. n - 1 /\ i + 1 \in 1 .. n
      BY <1>1, <2>2
    <3>2. w[i] = u[i + 1]
      BY <1>4, <1>5, <3>1
    <3>3. t[i] = u[i + 1]
      BY <1>2, <1>3, <1>6, <3>1
    <3> QED
      BY <3>2, <3>3
  <2> QED
    BY <2>1, <2>2
<1>8. t = w
  BY <1>3, <1>5, <1>6, <1>7, SeqEqual
<1> QED
  BY <1>8 DEF t, w, a

\* What a group says is said by its first letter and what follows it.
LEMMA GroupSaysHead ==
    ASSUME NEW s \in Argument, s # <<>>, NEW m \in Seq(Thing), NEW as, GroupSays(m, s, as)
    PROVE  \/ /\ Wants(s[1]) /\ Enough(Short[s[1]], ValuesOf(s, as)) /\ Len(ValuesOf(s, as)) = Operands(Short[s[1]])
              /\ m = <<Given(Short[s[1]], ValuesOf(s, as))>>
           \/ /\ Switch(s[1]) /\ m # <<>> /\ m[1] = Given(Short[s[1]], <<>>)
              /\ IF Tail(s) = <<>> THEN Len(m) = 1 /\ as = <<>> ELSE GroupSays(Tail(m), Tail(s), as)
<1>1. Len(s) \in Nat \ {0} /\ Len(Tail(s)) = Len(s) - 1 /\ Tail(s) \in Argument
  BY GroupTail
<1>2. CASE Switches(s, Len(s)) /\ as = <<>> /\ m = Switched(s, Len(s))
  <2>1. Len(s) \in 1 .. Len(s)
    BY <1>1
  <2>2. Len(m) = Len(s) /\ m[1] = Given(Short[s[1]], <<>>) /\ Tail(m) = Switched(Tail(s), Len(s) - 1)
    BY <1>2, <2>1, SwitchedTail
  <2>3. Switch(s[1]) /\ Switches(Tail(s), Len(s) - 1)
    BY <1>2, <2>1, GroupTail
  <2>4. Tail(s) = <<>> => Len(m) = 1
    <3>1. Tail(s) = <<>> => Len(Tail(s)) = 0
      BY EmptyLen
    <3> QED
      BY <1>1, <2>2, <3>1
  <2>5. m # <<>>
    <3>1. Len(m) # 0
      BY <1>1, <2>2
    <3> QED
      BY <3>1
  <2>6. GroupSays(Tail(m), Tail(s), as)
    BY <1>1, <1>2, <2>2, <2>3 DEF GroupSays
  <2> QED
    BY <1>2, <2>2, <2>3, <2>4, <2>5, <2>6
<1>3. ASSUME NEW n \in 0 .. Len(s) - 1, NEW t, t = From(s, n + 1), NEW o, o = Short[t[1]],
             Switches(s, n), Wants(t[1]),
             Enough(o, ValuesOf(t, as)), Len(ValuesOf(t, as)) = Operands(o),
             m = Append(Switched(s, n), Given(o, ValuesOf(t, as)))
      PROVE  \/ /\ Wants(s[1]) /\ Enough(Short[s[1]], ValuesOf(s, as)) /\ Len(ValuesOf(s, as)) = Operands(Short[s[1]])
                /\ m = <<Given(Short[s[1]], ValuesOf(s, as))>>
             \/ /\ Switch(s[1]) /\ m # <<>> /\ m[1] = Given(Short[s[1]], <<>>)
                /\ IF Tail(s) = <<>> THEN Len(m) = 1 /\ as = <<>> ELSE GroupSays(Tail(m), Tail(s), as)
  <2> DEFINE g == Given(o, ValuesOf(t, as))
  <2>1. CASE n = 0
    <3>1. t = s
      BY <1>3, <2>1, GroupTail
    <3>2. Switched(s, 0) = <<>>
      BY DEF Switched
    <3>3. m = <<g>>
      <4>1. m = Append(<<>>, g)
        BY <1>3, <2>1, <3>2
      <4> HIDE DEF g
      <4> QED
        BY <4>1
    <3> QED
      BY <1>3, <3>1, <3>3
  <2>2. CASE n # 0
    <3>1. n \in 1 .. Len(s) /\ n \in 1 .. Len(s) - 1
      BY <1>1, <2>2
    <3> DEFINE u == Switched(s, n)
               S == {Given(Short[s[i]], <<>>) : i \in 1 .. n} \cup {g}
    <3>2. u \in Seq(S)
      <4>1. \A i \in 1 .. n : Given(Short[s[i]], <<>>) \in S
        OBVIOUS
      <4>2. u = [i \in 1 .. n |-> Given(Short[s[i]], <<>>)] /\ n \in Nat
        BY <3>1 DEF Switched
      <4> HIDE DEF u, S
      <4> QED
        BY <4>1, <4>2
    <3>3. g \in S
      OBVIOUS
    <3> HIDE DEF u, S, g
    <3>4. Len(u) = n /\ u[1] = Given(Short[s[1]], <<>>) /\ Tail(u) = Switched(Tail(s), n - 1)
      BY <3>1, <3>2, SwitchedTail DEF u
    <3>5. u # <<>>
      <4>1. Len(u) # 0
        BY <3>1, <3>4
      <4> QED
        BY <4>1
    <3>6. m = Append(u, g)
      BY <1>3 DEF u, g
    <3>7. Tail(m) = Append(Switched(Tail(s), n - 1), g)
      BY <3>2, <3>3, <3>4, <3>5, <3>6, TailAppend
    <3>8. m # <<>> /\ m[1] = Given(Short[s[1]], <<>>)
      <4>1. m # <<>> /\ \A i \in 1 .. Len(u) : m[i] = u[i]
        BY <3>2, <3>3, <3>6, AppendProperties
      <4> QED
        BY <3>1, <3>4, <4>1
    <3>9. Switch(s[1]) /\ Switches(Tail(s), n - 1) /\ From(Tail(s), (n - 1) + 1) = t
      BY <1>3, <3>1, GroupTail
    <3>10. n - 1 \in 0 .. Len(Tail(s)) - 1
      BY <1>1, <3>1
    <3>11. GroupSays(Tail(m), Tail(s), as)
      BY <1>3, <3>7, <3>9, <3>10 DEF GroupSays, g
    <3>12. Tail(s) # <<>>
      <4>1. Tail(s) = <<>> => Len(Tail(s)) = 0
        BY EmptyLen
      <4> QED
        BY <1>1, <3>1, <4>1
    <3> QED
      BY <3>8, <3>9, <3>11, <3>12
  <2> QED
    BY <2>1, <2>2
<1> QED
  BY <1>2, <1>3 DEF GroupSays

\* The arguments with the value that is attached to a letter in their place.
LEMMA PutAttached ==
    ASSUME FlagTypes, at >= 1, Len(short) > 1, NEW v, v = Attached(short), NEW av, av = [argv EXCEPT ![at] = v]
    PROVE  /\ av \in Seq(Argument) /\ Len(av) = Len(argv)
           /\ \A q \in at + 1 .. Len(argv) : av[q] = argv[q]
           /\ \A j \in at .. Len(argv) : SubSeq(av, at, j) = ValuesOf(short, SubSeq(argv, at + 1, j))
<1>1. argv \in Seq(Argument) /\ Len(argv) \in Nat /\ at \in 1 .. Len(argv) /\ short \in Seq(Piece) /\ Len(short) \in Nat
  BY DEF FlagTypes, Argument
<1>2. v \in Argument
  <2>1. 2 \in 1 .. Len(short) + 1 /\ 3 \in 1 .. Len(short) + 1
    BY <1>1
  <2>2. From(short, 2) \in Seq(Piece) /\ From(short, 3) \in Seq(Piece)
    BY <1>1, <2>1, FromIs
  <2> QED
    BY <2>2 DEF Attached, From, Argument
<1>3. \A as : ValuesOf(short, as) = <<v>> \o as
  <2>1. ASSUME Len(short) = 1 PROVE FALSE
    BY <2>1
  <2> QED
    BY <2>1 DEF ValuesOf, Attached, From
<1>4. ASSUME NEW j \in at .. Len(argv)
      PROVE  /\ av \in Seq(Argument) /\ Len(av) = Len(argv)
             /\ \A q \in at + 1 .. Len(argv) : av[q] = argv[q]
             /\ SubSeq(av, at, j) = <<v>> \o SubSeq(argv, at + 1, j)
  BY <1>1, <1>2, PutBack
<1>5. at \in at .. Len(argv)
  BY <1>1
<1> QED
  BY <1>3, <1>4, <1>5

\* A letter at the end of its group finds its values in the next arguments.
LEMMA OneLetterLeft ==
    ASSUME NEW s, NEW as, Len(s) = 1
    PROVE  ValuesOf(s, as) = as
<1>1. ValuesOf(s, as) = CASE TRUE -> as [] Len(s) > 1 /\ s[2] = "=" -> <<From(s, 3)>> \o as
                     [] OTHER -> <<From(s, 2)>> \o as
  BY DEF ValuesOf
<1>2. ~ (Len(s) > 1)
  <2> DEFINE n == Len(s)
  <2>1. n = 1
    OBVIOUS
  <2> HIDE DEF n
  <2>2. ~ (n > 1)
    BY <2>1
  <2> QED
    BY <2>2 DEF n
<1> QED
  BY <1>1, <1>2

\* What the code does with the letter l at hand, in terms of the arguments as after it.
LEMMA LetterSteps ==
    ASSUME FlagTypes, status = "parsing", short # <<>>, at >= 1, ShortOption,
           NEW j \in at .. Len(argv), NEW l, l = short[1], NEW o, o = Short[l], NEW as, as = SubSeq(argv, at + 1, j)
    PROVE  /\ Unknown(l) => status' = "error" /\ UNCHANGED <<meant, argv, at, short, active, optsDone, vals>>
           /\ Switch(l) => /\ UNCHANGED <<meant, argv, at, optsDone, status>> /\ short' = Tail(short)
                           /\ \E ws \in Seq(Argument) : Len(ws) = Operands(o) /\ TakesOption(o, ws)
           /\ Wants(l) => /\ meant' = meant /\ optsDone' = optsDone /\ short' = <<>>
                          /\ argv' \in Seq(Argument) /\ Len(argv') = Len(argv)
                          /\ \A q \in at + 1 .. Len(argv) : argv'[q] = argv[q]
                          /\ Enough(o, ValuesOf(short, as)) /\ Len(ValuesOf(short, as)) = Operands(o) =>
                                /\ at' = j /\ status' = status
                                /\ ValuesOf(short, as) \in Seq(Argument) /\ TakesOption(o, ValuesOf(short, as))
                          /\ j = Len(argv) /\ ~ Enough(o, ValuesOf(short, as)) =>
                                status' = "error" /\ UNCHANGED <<at, active, vals>>
<1>1. argv \in Seq(Argument) /\ Len(argv) \in Nat /\ at \in 1 .. Len(argv) /\ short \in Argument /\ j \in Nat
  BY DEF FlagTypes
<1>2. Len(short) \in Nat \ {0} /\ Head(short) = l
  BY <1>1, GroupTail DEF Argument
<1>3. CASE Unknown(l)
  <2>1. ~ Switch(l) /\ ~ Wants(l) /\ l \notin DOMAIN Short
    BY <1>3, OneLetter DEF Unknown
  <2> QED
    BY <1>2, <1>3, <2>1 DEF ShortOption, Refuse
<1>4. CASE Switch(l)
  <2>1. ~ Unknown(l) /\ ~ Wants(l) /\ l \in DOMAIN Short /\ o \in Long /\ Kind[o] = "bool"
    BY <1>4, OneLetter
  <2>2. Set(o, at, argv) /\ short' = Tail(short)
    BY <1>2, <2>1 DEF ShortOption
  <2>3. Operands(o) = 0 /\ at \in 0 .. Len(argv) /\ at + 0 = at
    BY <1>1, <2>1, OperandsAre
  <2>4. at + 1 \in 1 .. Len(argv) + 1 /\ at \in (at + 1) - 1 .. Len(argv) /\ at - (at + 1) + 1 = 0
    BY <1>1
  <2>5. Enough(o, From(argv, at + 1))
    <3>1. Len(From(argv, at + 1)) \in Nat
      BY <1>1, <2>4, FromIs
    <3> QED
      BY <2>1, <2>3, <3>1 DEF Enough
  <2>6. /\ argv' = argv /\ meant' = meant /\ optsDone' = optsDone
        /\ at' = at + Operands(o) /\ status' = status /\ TakesOption(o, SubSeq(argv, at + 1, at + Operands(o)))
    BY <1>1, <2>1, <2>2, <2>3, <2>5, SetTakes
  <2>7. SubSeq(argv, at + 1, at) \in Seq(Argument) /\ Len(SubSeq(argv, at + 1, at)) = 0
    BY <1>1, <2>4, SliceOf
  <2> QED
    BY <1>4, <2>1, <2>2, <2>3, <2>6, <2>7
<1>5. CASE Wants(l)
  <2>1. ~ Unknown(l) /\ ~ Switch(l) /\ l \in DOMAIN Short /\ o \in Long /\ Kind[o] # "bool" /\ Operands(o) \in Nat
    BY <1>5, OneLetter, OperandsAre
  <2>2. CASE Len(short) > 1
    <3> DEFINE v == Attached(short)
               av == [argv EXCEPT ![at] = v]
    <3>1. Set(o, at - 1, av) /\ short' = <<>>
      BY <1>2, <2>1, <2>2 DEF ShortOption
    <3>2. /\ av \in Seq(Argument) /\ Len(av) = Len(argv)
          /\ \A q \in at + 1 .. Len(argv) : av[q] = argv[q]
          /\ \A i \in at .. Len(argv) : SubSeq(av, at, i) = ValuesOf(short, SubSeq(argv, at + 1, i))
      BY <2>2, PutAttached
    <3> HIDE DEF v, av
    <3>3. at - 1 \in 0 .. Len(av) /\ (at - 1) + 1 = at
      BY <1>1, <3>2
    <3>4. /\ argv' = av /\ meant' = meant /\ optsDone' = optsDone
          /\ Enough(o, From(av, (at - 1) + 1)) =>
                /\ at' = (at - 1) + Operands(o) /\ status' = status
                /\ TakesOption(o, SubSeq(av, (at - 1) + 1, (at - 1) + Operands(o)))
          /\ ~ Enough(o, From(av, (at - 1) + 1)) => status' = "error" /\ UNCHANGED <<at, vals, mapKeys, active>>
      BY <2>1, <3>1, <3>2, <3>3, SetTakes
    <3>5. SubSeq(av, at, j) = ValuesOf(short, as)
      BY <3>2
    <3>6. at \in 1 .. Len(av) + 1 /\ j \in at - 1 .. Len(av)
      BY <1>1, <3>2
    <3>7. SubSeq(av, at, j) \in Seq(Argument) /\ Len(SubSeq(av, at, j)) = j - at + 1
      BY <3>2, <3>6, SliceOf
    <3>8. ASSUME Enough(o, ValuesOf(short, as)), Len(ValuesOf(short, as)) = Operands(o)
          PROVE  at' = j /\ status' = status /\ ValuesOf(short, as) \in Seq(Argument) /\ TakesOption(o, ValuesOf(short, as))
      <4>1. j = (at - 1) + Operands(o)
        <5>1. j - at + 1 = Operands(o)
          BY <3>5, <3>7, <3>8
        <5> QED
          BY <1>1, <2>1, <5>1
      <4>2. Enough(o, From(av, at))
        BY <2>1, <3>2, <3>5, <3>6, <3>8, EnoughMore
      <4> QED
        BY <3>3, <3>4, <3>5, <3>7, <4>1, <4>2
    <3>9. ASSUME j = Len(argv), ~ Enough(o, ValuesOf(short, as))
          PROVE  status' = "error" /\ UNCHANGED <<at, active, vals>>
      <4>1. From(av, at) = ValuesOf(short, as)
        BY <3>2, <3>5, <3>9 DEF From
      <4> QED
        BY <3>3, <3>4, <3>9, <4>1
    <3> QED
      BY <2>1, <3>1, <3>2, <3>4, <3>8, <3>9
  <2>3. CASE ~ (Len(short) > 1)
    <3>1. Len(short) = 1
      <4> DEFINE n == Len(short)
      <4>1. n \in Nat \ {0} /\ ~ (n > 1)
        BY <1>2, <2>3
      <4> HIDE DEF n
      <4>2. n = 1
        BY <4>1
      <4> QED
        BY <4>2 DEF n
    <3>2. Set(o, at, argv) /\ short' = <<>>
      <4>1. Len(Tail(short)) = 0 /\ Tail(short) \in Seq(Piece)
        BY <1>1, <3>1, GroupTail DEF Argument
      <4>2. Tail(short) = <<>>
        <5> DEFINE t == Tail(short)
        <5>1. Len(t) = 0 /\ t \in Seq(Piece)
          BY <4>1
        <5> HIDE DEF t
        <5>2. t = <<>>
          BY <5>1
        <5> QED
          BY <5>2 DEF t
      <4> QED
        BY <1>2, <2>1, <2>3, <4>2 DEF ShortOption
    <3>3. ValuesOf(short, as) = as
      BY <3>1, OneLetterLeft
    <3>4. /\ argv' = argv /\ meant' = meant /\ optsDone' = optsDone
          /\ Enough(o, From(argv, at + 1)) =>
                /\ at' = at + Operands(o) /\ status' = status
                /\ TakesOption(o, SubSeq(argv, at + 1, at + Operands(o)))
          /\ ~ Enough(o, From(argv, at + 1)) => status' = "error" /\ UNCHANGED <<at, vals, mapKeys, active>>
      <4>1. at \in 0 .. Len(argv)
        BY <1>1
      <4> QED
        BY <1>1, <2>1, <3>2, <4>1, SetTakes
    <3>5. at + 1 \in 1 .. Len(argv) + 1 /\ j \in (at + 1) - 1 .. Len(argv) /\ j - (at + 1) + 1 = j - at
      BY <1>1
    <3>6. as \in Seq(Argument) /\ Len(as) = j - at
      BY <1>1, <3>5, SliceOf
    <3>7. ASSUME Enough(o, as), Len(as) = Operands(o)
          PROVE  at' = j /\ status' = status /\ TakesOption(o, as)
      <4>1. j = at + Operands(o)
        BY <1>1, <2>1, <3>6, <3>7
      <4>2. Enough(o, From(argv, at + 1))
        BY <1>1, <2>1, <3>5, <3>7, EnoughMore
      <4> QED
        BY <3>4, <4>1, <4>2
    <3>8. ASSUME j = Len(argv), ~ Enough(o, as)
          PROVE  status' = "error" /\ UNCHANGED <<at, active, vals>>
      <4>1. From(argv, at + 1) = as
        BY <3>8 DEF From
      <4> QED
        BY <3>4, <3>8, <4>1
    <3> QED
      BY <1>1, <2>1, <3>2, <3>3, <3>4, <3>6, <3>7, <3>8
  <2> QED
    BY <2>2, <2>3
<1> QED
  BY <1>3, <1>4, <1>5

\* The next letter of a group in which something is wrong.
LEMMA InWrongStep ==
    ASSUME FlagTypes, status = "parsing", InWrong, ShortOption
    PROVE  FlagTypes' /\ Outcome'
<1> DEFINE l == short[1]
           o == Short[l]
           as == From(argv, at + 1)
<1>1. Wrong /\ ~ optsDone /\ short # <<>> /\ at >= 1 /\ GroupWrong(short, as)
  BY DEF InWrong
<1>2. argv \in Seq(Argument) /\ Len(argv) \in Nat /\ at \in 0 .. Len(argv) /\ short \in Argument
  BY DEF FlagTypes
<1>3. Len(argv) \in at .. Len(argv) /\ as = SubSeq(argv, at + 1, Len(argv))
  BY <1>2 DEF From
<1>4. /\ Unknown(l) => status' = "error" /\ UNCHANGED <<meant, argv, at, short, active, optsDone, vals>>
      /\ Switch(l) => /\ UNCHANGED <<meant, argv, at, optsDone, status>> /\ short' = Tail(short)
                      /\ \E ws \in Seq(Argument) : Len(ws) = Operands(o) /\ TakesOption(o, ws)
      /\ Wants(l) => /\ meant' = meant /\ optsDone' = optsDone /\ short' = <<>>
                     /\ argv' \in Seq(Argument) /\ Len(argv') = Len(argv)
                     /\ ~ Enough(o, ValuesOf(short, as)) => status' = "error" /\ UNCHANGED <<at, active, vals>>
  BY <1>1, <1>3, LetterSteps
<1>5. \/ Unknown(l)
      \/ Wants(l) /\ ~ Enough(o, ValuesOf(short, as))
      \/ Switch(l) /\ Tail(short) # <<>> /\ GroupWrong(Tail(short), as)
  BY <1>1, <1>2, GroupWrongHead
<1> HIDE DEF l, o, as
<1>6. CASE Unknown(l)
  BY <1>1, <1>4, <1>6, RefuseStep DEF FlagTypes
<1>7. CASE Wants(l) /\ ~ Enough(o, ValuesOf(short, as))
  <2>1. at' \in 0 .. Len(argv') /\ short' \in Argument
    BY <1>2, <1>4, <1>7 DEF Argument
  <2> QED
    BY <1>1, <1>4, <1>7, <2>1, RefuseStep
<1>8. CASE Switch(l) /\ Tail(short) # <<>> /\ GroupWrong(Tail(short), as)
  <2>1. /\ UNCHANGED <<meant, argv, at, optsDone, status>> /\ short' = Tail(short)
        /\ \E ws \in Seq(Argument) : Len(ws) = Operands(o) /\ TakesOption(o, ws)
    BY <1>4, <1>8
  <2>2. PICK ws \in Seq(Argument) : TakesOption(o, ws)
    BY <2>1
  <2>3. o \in Long
    BY <1>8, OneLetter DEF o
  <2>4. Tail(short) \in Argument
    BY <1>1, <1>2, GroupTail
  <2>5. FlagTypes'
    BY <1>2, <2>1, <2>2, <2>3, <2>4, TakesTypes
  <2>6. InWrong'
    BY <1>1, <1>8, <2>1 DEF InWrong, Wrong, as
  <2> QED
    BY <2>1, <2>5, <2>6 DEF Outcome, ReadingLine
<1> QED
  BY <1>5, <1>6, <1>7, <1>8

\* The next letter of a group in which nothing is wrong.
LEMMA InGroupStep ==
    ASSUME NEW c, NEW k, Parses(c, k), ShortOption
    PROVE  FlagTypes' /\ Outcome'
<1>1. /\ ~ optsDone /\ short # <<>> /\ short \in Argument /\ at >= 1 /\ Ahead(c, at)
      /\ \E x \in c[3] : /\ x[1] >= at /\ x[2] >= k
                         /\ GroupSays(SubSeq(meant, k + 1, x[2]), short, SubSeq(argv, at + 1, x[1]))
  <2>1. short # <<>>
    BY DEF ShortOption
  <2> QED
    BY <2>1 DEF Parses, Stands, BetweenPhrases, AtWord, OnlyWords, InGroup
<1>2. PICK x \in c[3] : /\ x[1] >= at /\ x[2] >= k
                        /\ GroupSays(SubSeq(meant, k + 1, x[2]), short, SubSeq(argv, at + 1, x[1]))
  BY <1>1
<1> DEFINE l == short[1]
           o == Short[l]
           m == SubSeq(meant, k + 1, x[2])
           as == SubSeq(argv, at + 1, x[1])
<1>3. /\ meant \in Seq(Thing) /\ Len(meant) \in Nat /\ k \in 0 .. Len(meant) /\ k \in Nat
      /\ argv \in Seq(Argument) /\ Len(argv) \in Nat /\ at \in 1 .. Len(argv)
      /\ c \in CommandLines /\ meant = c[1] /\ Len(argv) = Len(c[2]) /\ FlagTypes /\ status = "parsing" /\ Sofar(k)
  BY <1>1, PhraseSlices DEF Parses, Stands, FlagTypes
<1>4. x[1] \in at .. Len(argv) /\ x[2] \in k .. Len(meant) /\ x = <<x[1], x[2]>>
  <2>1. x[1] \in 0 .. Len(argv) /\ x[2] \in 0 .. Len(meant) /\ x = <<x[1], x[2]>>
    BY <1>3, MarksAre
  <2> QED
    BY <1>2, <1>3, <2>1
<1>5. m \in Seq(Thing) /\ Len(m) = x[2] - k /\ \A q \in 1 .. x[2] - k : m[q] = meant[k + q]
  BY <1>4, PhraseSlices
<1>6. /\ Switch(l) => /\ UNCHANGED <<meant, argv, at, optsDone, status>> /\ short' = Tail(short)
                      /\ \E ws \in Seq(Argument) : Len(ws) = Operands(o) /\ TakesOption(o, ws)
      /\ Wants(l) => /\ meant' = meant /\ optsDone' = optsDone /\ short' = <<>>
                     /\ argv' \in Seq(Argument) /\ Len(argv') = Len(argv)
                     /\ \A q \in at + 1 .. Len(argv) : argv'[q] = argv[q]
                     /\ Enough(o, ValuesOf(short, as)) /\ Len(ValuesOf(short, as)) = Operands(o) =>
                           /\ at' = x[1] /\ status' = status
                           /\ ValuesOf(short, as) \in Seq(Argument) /\ TakesOption(o, ValuesOf(short, as))
  BY <1>1, <1>3, <1>4, LetterSteps
<1>7. \/ /\ Wants(l) /\ Enough(o, ValuesOf(short, as)) /\ Len(ValuesOf(short, as)) = Operands(o)
         /\ m = <<Given(o, ValuesOf(short, as))>>
      \/ /\ Switch(l) /\ m # <<>> /\ m[1] = Given(o, <<>>)
         /\ IF Tail(short) = <<>> THEN Len(m) = 1 /\ as = <<>> ELSE GroupSays(Tail(m), Tail(short), as)
  BY <1>1, <1>2, <1>5, GroupSaysHead
<1>8. as \in Seq(Argument) /\ Len(as) = x[1] - at
  <2> DEFINE n == Len(argv)
             i == x[1]
  <2>1. n \in Nat /\ at \in 1 .. n /\ i \in at .. n
    BY <1>3, <1>4
  <2> HIDE DEF n, i
  <2>2. at + 1 \in 1 .. n + 1 /\ i \in (at + 1) - 1 .. n /\ i - (at + 1) + 1 = i - at
    BY <2>1
  <2>3. at + 1 \in 1 .. Len(argv) + 1 /\ x[1] \in (at + 1) - 1 .. Len(argv) /\ x[1] - (at + 1) + 1 = x[1] - at
    BY <2>2 DEF n, i
  <2> QED
    BY <1>3, <2>3, SliceOf
<1>9. \A q \in at + 1 .. Len(argv) : argv[q] = c[2][q]
  BY <1>1 DEF Ahead
<1>10. Switch(l) \/ Wants(l) => o \in Long
  BY OneLetter
<1>11. Tail(short) \in Argument
  BY <1>1, GroupTail
<1>12. m # <<>> => x[2] \in k + 1 .. Len(meant) /\ k + 1 \in 0 .. Len(meant) /\ m[1] = meant[k + 1]
  <2> SUFFICES ASSUME m # <<>>
               PROVE  x[2] \in k + 1 .. Len(meant) /\ k + 1 \in 0 .. Len(meant) /\ m[1] = meant[k + 1]
    OBVIOUS
  <2> DEFINE n == Len(m)
  <2>1. n \in Nat /\ n # 0 /\ n = x[2] - k
    <3> HIDE DEF m
    <3>1. n # 0
      BY <1>5
    <3> QED
      BY <1>5, <3>1
  <2> HIDE DEF n
  <2>2. x[2] \in k + 1 .. Len(meant) /\ k + 1 \in 0 .. Len(meant) /\ 1 \in 1 .. x[2] - k
    <3> DEFINE i == x[2]
               top == Len(meant)
    <3>1. i \in k .. top /\ top \in Nat /\ k \in Nat /\ n \in Nat /\ n # 0 /\ n = i - k
      BY <1>3, <1>4, <2>1
    <3> HIDE DEF i, top
    <3>2. i \in k + 1 .. top /\ k + 1 \in 0 .. top /\ 1 \in 1 .. i - k
      BY <3>1
    <3> QED
      BY <3>2 DEF i, top
  <2> QED
    BY <1>5, <2>2
<1>13. Len(m) = 1 => x[2] = k + 1
  <2> SUFFICES ASSUME Len(m) = 1 PROVE x[2] = k + 1
    OBVIOUS
  <2>1. x[2] - k = 1 /\ x[2] \in Int /\ k \in Int
    BY <1>3, <1>4, <1>5
  <2> QED
    BY <2>1
<1> HIDE DEF m, as, l, o
<1>14. ASSUME Wants(l), Enough(o, ValuesOf(short, as)), Len(ValuesOf(short, as)) = Operands(o),
              m = <<Given(o, ValuesOf(short, as))>>
       PROVE  FlagTypes' /\ Outcome'
  <2> DEFINE ws == ValuesOf(short, as)
  <2>1. /\ optsDone' = optsDone /\ short' = <<>> /\ argv' \in Seq(Argument) /\ Len(argv') = Len(argv)
        /\ \A q \in at + 1 .. Len(argv) : argv'[q] = argv[q]
        /\ at' = x[1] /\ status' = status /\ ws \in Seq(Argument) /\ TakesOption(o, ws) /\ Len(ws) = Operands(o)
    BY <1>6, <1>14
  <2>2. Len(m) = 1 /\ m # <<>> /\ m[1] = Given(o, ws)
    BY <1>14
  <2> HIDE DEF ws
  <2>3. x[2] = k + 1 /\ k + 1 \in 0 .. Len(meant) /\ meant[k + 1] = Given(o, ws)
    BY <1>12, <1>13, <2>2
  <2>4. \A i \in x[1] + 1 .. Len(argv) : argv'[i] = c[2][i]
    BY <1>3, <1>4, <1>9, <2>1
  <2> QED
    BY <1>1, <1>10, <1>14, <2>1, <2>3, <2>4, Advanced
<1>15. ASSUME Switch(l), m # <<>>, m[1] = Given(o, <<>>),
              IF Tail(short) = <<>> THEN Len(m) = 1 /\ as = <<>> ELSE GroupSays(Tail(m), Tail(short), as)
       PROVE  FlagTypes' /\ Outcome'
  <2>1. UNCHANGED <<meant, argv, at, optsDone, status>> /\ short' = Tail(short)
    BY <1>6, <1>15
  <2>2. PICK ws \in Seq(Argument) : Len(ws) = Operands(o) /\ TakesOption(o, ws)
    BY <1>6, <1>15
  <2>3. o \in Long /\ Given(o, ws) = Given(o, <<>>)
    <3>1. Kind[o] = "bool"
      BY <1>15, OneLetter DEF o
    <3> QED
      BY <1>10, <1>15, <3>1 DEF Given
  <2>4. x[2] \in k + 1 .. Len(meant) /\ k + 1 \in 0 .. Len(meant) /\ meant[k + 1] = Given(o, ws)
    BY <1>12, <1>15, <2>3
  <2>5. CASE Tail(short) = <<>>
    <3>1. x[2] = k + 1
      BY <1>13, <1>15, <2>5
    <3>2. at = x[1]
      <4>1. x[1] - at = 0
        BY <1>8, <1>15, <2>5
      <4> QED
        BY <1>3, <1>4, <4>1
    <3>3. \A i \in x[1] + 1 .. Len(argv) : argv'[i] = c[2][i]
      BY <1>9, <2>1, <3>2
    <3>4. short' = <<>> /\ argv' \in Seq(Argument) /\ Len(argv') = Len(argv) /\ at' = x[1]
      BY <1>3, <2>1, <2>5, <3>2
    <3> QED
      BY <1>1, <2>1, <2>2, <2>3, <2>4, <3>1, <3>3, <3>4, Advanced
  <2>6. CASE Tail(short) # <<>>
    <3>1. Sofar(k + 1)'
      <4>1. GivesNext(k, o, ws)
        BY <1>3, <2>2, <2>4 DEF GivesNext
      <4> QED
        BY <1>3, <2>3, <4>1, OptionTaken
    <3>2. Tail(m) = SubSeq(meant, k + 2, x[2])
      <4>1. k + 1 \in 1 .. Len(meant) /\ (k + 1) + 1 = k + 2
        BY <1>3, <2>4
      <4> QED
        BY <1>3, <2>4, <4>1, SliceTail DEF m
    <3>3. GroupSays(SubSeq(meant, k + 2, x[2]), Tail(short), SubSeq(argv, at + 1, x[1]))
      BY <1>15, <2>6, <3>2 DEF as
    <3>4. (k + 1) + 1 = k + 2 /\ x[2] >= k + 1 /\ k + 1 \in 0 .. Len(meant)
      BY <1>3, <2>4
    <3>5. GroupSays(SubSeq(meant, (k + 1) + 1, x[2]), Tail(short), SubSeq(argv, at + 1, x[1]))
      BY <3>3, <3>4
    <3>6. InGroup(c, k + 1)'
      <4>1. Ahead(c, at)'
        BY <1>1, <2>1 DEF Ahead
      <4>2. GroupSays(SubSeq(meant, (k + 1) + 1, x[2]), short, SubSeq(argv, at + 1, x[1]))'
        BY <2>1, <3>5
      <4> QED
        BY <1>1, <1>2, <1>11, <2>1, <2>6, <3>4, <4>1, <4>2 DEF InGroup
    <3>7. Stands(c, k + 1)'
      BY <1>3, <2>1, <3>1, <3>6 DEF Stands
    <3>8. ReadingLine'
      BY <1>3, <2>1, <2>4, <3>7 DEF ReadingLine
    <3>9. FlagTypes'
      <4>1. at' \in 0 .. Len(argv') /\ argv' \in Seq(Argument) /\ short' \in Argument
        BY <1>3, <1>11, <2>1
      <4> QED
        BY <1>3, <2>1, <2>2, <2>3, <4>1, TakesTypes
    <3> QED
      BY <1>3, <2>1, <3>8, <3>9 DEF Outcome
  <2> QED
    BY <2>5, <2>6
<1> QED
  BY <1>7, <1>14, <1>15

-------------------------------------------------------------------------------
(* The loop has the invariant.                                             *)

\* At the beginning nothing is meant so far, and nothing set.
LEMMA NothingYet ==
    ASSUME vals = Unset, mapKeys = {}, active = "none", rest = <<>>
    PROVE  Sofar(0)
<1>1. 1 .. 0 = {} /\ 1 .. (0 + 1) - 1 = {} /\ Ascending({}) = <<>>
  BY AscendingEmpty
<1>2. Said(0)
  BY <1>1 DEF Said
<1>3. \A o : Sets(o, 0) = {}
  BY <1>1 DEF Sets
<1>4. Words(0) = {}
  BY <1>1 DEF Words
<1>5. DOMAIN vals = Long /\ \A o \in Long : vals[o] = IF Kind[o] = "map" THEN {} ELSE <<>>
  BY DEF Unset
<1>6. Scalars(0)
  BY <1>3, <1>5 DEF Scalars
<1>7. Listing(0)
  <2>1. ValuesIn(Ascending({})) = <<>>
    <3>1. ValuesIn(<<>>) = [j \in {} |-> meant[(<<>>)[j]][3][1]]
      BY DEF ValuesIn
    <3> QED
      BY <1>1, <3>1
  <2> QED
    BY <1>3, <1>5, <2>1 DEF Listing
<1>8. Mapping(0)
  <2>1. Keys(0) = {}
    BY <1>1 DEF Keys
  <2>2. \A o : MeantMap(o, 0) = {}
    BY <1>3 DEF MeantMap
  <2> QED
    BY <1>5, <2>1, <2>2 DEF Mapping
<1>9. Collecting(0)
  <2>1. ListBefore(0 + 1) = "none"
    BY <1>1 DEF ListBefore
  <2>2. Collects(0) = <<>>
    <3>1. {j \in Words(0) : Collected(j)} = {}
      BY <1>4
    <3> QED
      BY <1>1, <3>1 DEF Collects
  <2>3. MeantRest(0) = <<>>
    <3>1. {j \in Words(0) : ~ Collected(j)} = {}
      BY <1>4
    <3>2. MeantRest(0) = [j \in DOMAIN Ascending({}) |-> meant[Ascending({})[j]][2]]
      BY <3>1 DEF MeantRest
    <3> QED
      BY <1>1, <3>2
  <2>4. \A o \in Lists : vals[o] = <<>>
    BY <1>5, ListsAre DEF Lists
  <2>5. \A o \in Lists : Holds(o, vals[o], Collects(0))
    <3>1. <<>> \in Seq(Argument \cup {Missing}) /\ Len(<<>>) = 0 /\ 1 .. 0 = {}
      OBVIOUS
    <3>2. \A v, C, o : v = <<>> /\ C = <<>> => Holds(o, v, C)
      <4> SUFFICES ASSUME NEW v, NEW C, NEW o, v = <<>>, C = <<>> PROVE Holds(o, v, C)
        OBVIOUS
      <4>1. v \in Seq(Argument \cup {Missing}) /\ Len(v) = 0 /\ Len(C) = 0
        BY <3>1
      <4>2. 1 .. Len(C) = {} /\ Len(v) <= Len(C)
        BY <4>1
      <4> QED
        BY <4>1, <4>2 DEF Holds
    <3> QED
      BY <2>2, <2>4, <3>2
  <2> QED
    BY <1>4, <2>1, <2>2, <2>3, <2>5 DEF Collecting
<1> QED
  BY <1>2, <1>5, <1>6, <1>7, <1>8, <1>9 DEF Sofar

\* The invariant holds at first.
LEMMA FlagsInvInit == FlagsInit => FlagsInv
<1> SUFFICES ASSUME NEW c \in CommandLines, FlagsStart(c[1], c[2])
             PROVE  FlagsInv
  BY DEF FlagsInit
<1>1. /\ meant = c[1] /\ argv = c[2] /\ at = 0 /\ short = <<>> /\ rest = <<>> /\ vals = Unset
      /\ mapKeys = {} /\ active = "none" /\ optsDone = FALSE /\ status = "parsing"
  BY DEF FlagsStart
<1>2. meant \in Seq(Thing) /\ argv \in Seq(Argument) /\ <<0, 0>> \in c[3]
  BY <1>1, PhrasesAssumption
<1>3. FlagTypes
  <2>1. DOMAIN vals = Long
    BY <1>1 DEF Unset
  <2>2. at \in 0 .. Len(argv) /\ argv \in Seq(Argument)
    BY <1>1, <1>2
  <2>3. short \in Argument
    BY <1>1 DEF Argument
  <2> QED
    BY <1>1, <2>1, <2>2, <2>3 DEF FlagTypes
<1>4. BetweenPhrases(c, 0)
  BY <1>1, <1>2 DEF BetweenPhrases, Ahead
<1>5. Sofar(0)
  BY <1>1, NothingYet
<1>6. Stands(c, 0) /\ 0 \in 0 .. Len(meant)
  BY <1>1, <1>2, <1>4, <1>5 DEF Stands
<1>7. ReadingLine
  BY <1>6 DEF ReadingLine
<1> QED
  BY <1>1, <1>3, <1>7 DEF FlagsInv, Outcome

\* Every step keeps it.
LEMMA FlagsInvNext == FlagsInv /\ [FlagsNext]_flagVars => FlagsInv'
<1> SUFFICES ASSUME FlagsInv, [FlagsNext]_flagVars PROVE FlagsInv'
  OBVIOUS
<1>1. CASE UNCHANGED flagVars
  <2>1. UNCHANGED <<meant, argv, at, short, rest, vals, mapKeys, active, optsDone, status>>
    BY <1>1 DEF flagVars
  <2>2. FlagTypes'
    BY <2>1 DEF FlagsInv, FlagTypes
  <2>3. \A k : Sofar(k) => Sofar(k)'
    BY <2>1, SofarKept
  <2>4. InWrong => InWrong'
    BY <2>1 DEF InWrong, Wrong
  <2>5. \A c, k : BetweenPhrases(c, k) => BetweenPhrases(c, k)'
    BY <2>1 DEF BetweenPhrases, Ahead
  <2>6. \A c, k : AtWord(c, k) => AtWord(c, k)'
    BY <2>1 DEF AtWord, Ahead
  <2>7. \A c, k : InGroup(c, k) => InGroup(c, k)'
    BY <2>1 DEF InGroup, Ahead
  <2>8. \A c, k : OnlyWords(k) => OnlyWords(k)'
    BY <2>1 DEF OnlyWords
  <2>9. \A c, k : Stands(c, k) => Stands(c, k)'
    BY <2>1, <2>3, <2>5, <2>6, <2>7, <2>8 DEF Stands
  <2>10. ReadingLine => ReadingLine'
    BY <2>1, <2>4, <2>9 DEF ReadingLine
  <2> QED
    BY <2>1, <2>2, <2>3, <2>10 DEF FlagsInv, Outcome, Wrong
<1>2. CASE FlagsNext
  <2>1. FlagTypes /\ status = "parsing" /\ ReadingLine
    <3>1. status = "parsing"
      BY <1>2 DEF FlagsNext, EndOptions, LongOption, LongEquals, LongUnknown, ShortGroup, ShortOption, Word,
                  ParsingEnds, Parsing
    <3> QED
      BY <3>1 DEF FlagsInv, Outcome
  <2>2. CASE InWrong
    <3>1. ShortOption
      <4>1. short # <<>>
        BY <2>2 DEF InWrong
      <4> QED
        BY <1>2, <4>1 DEF FlagsNext, EndOptions, LongOption, LongEquals, LongUnknown, ShortGroup, Word, ParsingEnds,
                          Parsing
    <3> QED
      BY <2>1, <2>2, <3>1, InWrongStep DEF FlagsInv
  <2>3. CASE ~ InWrong
    <3>1. PICK c \in CommandLines, k \in 0 .. Len(meant) : Stands(c, k)
      BY <2>1, <2>3 DEF ReadingLine
    <3>2. Parses(c, k)
      BY <2>1, <3>1 DEF Parses
    <3>3. CASE EndOptions
      BY <3>2, <3>3, EndOptionsStep DEF FlagsInv
    <3>4. ASSUME NEW o \in Long, LongOption(o) PROVE FlagsInv'
      BY <3>2, <3>4, LongOptionStep DEF FlagsInv
    <3>5. ASSUME NEW o \in Long, LongEquals(o) PROVE FlagsInv'
      BY <3>2, <3>5, LongEqualsStep DEF FlagsInv
    <3>6. CASE LongUnknown
      BY <3>2, <3>6, LongUnknownStep DEF FlagsInv
    <3>7. CASE ShortGroup
      BY <3>2, <3>7, ShortGroupStep DEF FlagsInv
    <3>8. CASE ShortOption
      BY <3>2, <3>8, InGroupStep DEF FlagsInv
    <3>9. CASE Word
      BY <3>2, <3>9, WordStep DEF FlagsInv
    <3>10. CASE ParsingEnds
      BY <3>2, <3>10, ParsingEndsStep DEF FlagsInv
    <3> QED
      BY <1>2, <3>3, <3>4, <3>5, <3>6, <3>7, <3>8, <3>9, <3>10 DEF FlagsNext
  <2> QED
    BY <2>2, <2>3
<1> QED
  BY <1>1, <1>2

-------------------------------------------------------------------------------
(* The words of $ARGS.positional.                                          *)

\* The elements of a list.
Elements == Argument \cup {Missing}

\* What becomes of the list when the j-th value of J is put in.
Putting(J, list, j) ==
    IF J[j] = Missing THEN list
    ELSE IF j <= Len(list) THEN [list EXCEPT ![j] = <<"json", J[j]>>]
    ELSE Append(list, <<"json", J[j]>>)

\* f[j] is what becomes of the strings A when the first j values of J are put in.
Merges(f, A, J) ==
    f = [j \in 0 .. Len(J) |-> IF j = 0 THEN [i \in DOMAIN A |-> <<"string", A[i]>>] ELSE Putting(J, f[j - 1], j)]

\* Where there is no string, there is a value.
Fits(A, J) == \A j \in 1 .. Len(J) : j > Len(A) => J[j] # Missing

\* How long the mixture is.
Longer(A, j) == IF j > Len(A) THEN j ELSE Len(A)

\* The strings A, with the first j values of J in their places.
Mixed(A, J, j) ==
    [q \in 1 .. Longer(A, j) |-> IF q <= j /\ J[q] # Missing THEN <<"json", J[q]>> ELSE <<"string", A[q]>>]

\* Putting one more value in keeps the sequence the mixture of both.
LEMMA MixedNext ==
    ASSUME NEW A \in Seq(Elements), NEW J \in Seq(Elements), Fits(A, J), NEW j \in 1 .. Len(J)
    PROVE  Mixed(A, J, j) = Putting(J, Mixed(A, J, j - 1), j)
<1> DEFINE n == Len(A)
           v(i, q) == IF q <= i /\ J[q] # Missing THEN <<"json", J[q]>> ELSE <<"string", A[q]>>
           m == Longer(A, j - 1)
           s == Mixed(A, J, j - 1)
<1>1. n \in Nat /\ j \in Nat /\ j >= 1 /\ j - 1 \in Nat /\ (j > n => J[j] # Missing)
  BY DEF Fits
<1>2. \A i : Longer(A, i) = IF i > n THEN i ELSE n
  BY DEF Longer
<1>3. m \in Nat /\ s = [q \in 1 .. m |-> v(j - 1, q)]
  BY <1>1, <1>2 DEF Mixed
<1>4. Mixed(A, J, j) = [q \in 1 .. Longer(A, j) |-> v(j, q)]
  BY DEF Mixed
<1>5. \A q \in Nat : q # j => v(j, q) = v(j - 1, q)
  BY <1>1
<1>6. v(j, j) = IF J[j] # Missing THEN <<"json", J[j]>> ELSE <<"string", A[j]>>
  BY <1>1
<1>7. m = IF j - 1 > n THEN j - 1 ELSE n
  BY <1>2
<1>8. J[j] = Missing => v(j - 1, j) = v(j, j)
  BY <1>1
<1> HIDE DEF n, v, m, s
<1>9. Len(s) = m /\ DOMAIN s = 1 .. m
  BY <1>3
<1>10. CASE J[j] = Missing
  <2>1. Longer(A, j) = m
    BY <1>1, <1>2, <1>7, <1>10
  <2>2. \A q \in 1 .. m : v(j, q) = v(j - 1, q)
    BY <1>5, <1>8, <1>10
  <2>3. Putting(J, s, j) = s
    BY <1>10 DEF Putting
  <2> QED
    BY <1>3, <1>4, <2>1, <2>2, <2>3 DEF s
<1>11. CASE J[j] # Missing /\ j <= m
  <2>1. Longer(A, j) = m
    BY <1>1, <1>2, <1>7, <1>11
  <2>2. Putting(J, s, j) = [s EXCEPT ![j] = <<"json", J[j]>>]
    BY <1>9, <1>11 DEF Putting
  <2>3. [s EXCEPT ![j] = <<"json", J[j]>>] = [q \in 1 .. m |-> IF q = j THEN <<"json", J[j]>> ELSE v(j - 1, q)]
    BY <1>1, <1>3, <1>11
  <2>4. \A q \in 1 .. m : v(j, q) = IF q = j THEN <<"json", J[j]>> ELSE v(j - 1, q)
    BY <1>5, <1>6, <1>11
  <2> QED
    BY <1>4, <2>1, <2>2, <2>3, <2>4 DEF s
<1>12. CASE J[j] # Missing /\ ~ (j <= m)
  <2>1. Longer(A, j) = m + 1 /\ m + 1 = j
    BY <1>1, <1>2, <1>3, <1>7, <1>12
  <2>2. Putting(J, s, j) = Append(s, <<"json", J[j]>>)
    BY <1>9, <1>12 DEF Putting
  <2>3. Append(s, <<"json", J[j]>>) = [q \in 1 .. m + 1 |-> IF q = j THEN <<"json", J[j]>> ELSE v(j - 1, q)]
    BY <1>3, <1>9, <2>1
  <2>4. \A q \in 1 .. m + 1 : v(j, q) = IF q = j THEN <<"json", J[j]>> ELSE v(j - 1, q)
    BY <1>3, <1>5, <1>6, <1>12
  <2>5. Mixed(A, J, j) = [q \in 1 .. m + 1 |-> v(j, q)]
    BY <1>4, <2>1
  <2>6. [q \in 1 .. m + 1 |-> v(j, q)] = [q \in 1 .. m + 1 |-> IF q = j THEN <<"json", J[j]>> ELSE v(j - 1, q)]
    BY <2>4
  <2>7. Mixed(A, J, j) = Putting(J, s, j)
    BY <2>2, <2>3, <2>5, <2>6
  <2> QED
    BY <2>7 DEF s
<1> QED
  BY <1>10, <1>11, <1>12

\* So the merge of both lists is their mixture.
LEMMA MergedIs ==
    ASSUME NEW A \in Seq(Elements), NEW J \in Seq(Elements), Fits(A, J)
    PROVE  (CHOOSE f : Merges(f, A, J))[Len(J)] = Mixed(A, J, Len(J))
<1> DEFINE n == Len(J)
           g == [j \in 0 .. n |-> Mixed(A, J, j)]
           f == CHOOSE f : Merges(f, A, J)
<1>1. n \in Nat
  OBVIOUS
<1>2. Mixed(A, J, 0) = [i \in DOMAIN A |-> <<"string", A[i]>>]
  <2>1. Len(A) \in Nat /\ DOMAIN A = 1 .. Len(A)
    OBVIOUS
  <2>2. Longer(A, 0) = Len(A)
    BY <2>1 DEF Longer
  <2>3. \A q \in 1 .. Len(A) : ~ (q <= 0)
    OBVIOUS
  <2> QED
    BY <2>1, <2>2, <2>3 DEF Mixed
<1>3. \A j \in 1 .. n : j - 1 \in 0 .. n /\ g[j] = Putting(J, g[j - 1], j)
  <2> SUFFICES ASSUME NEW j \in 1 .. n PROVE j - 1 \in 0 .. n /\ g[j] = Putting(J, g[j - 1], j)
    OBVIOUS
  <2>1. j - 1 \in 0 .. n /\ j \in 0 .. n
    BY <1>1
  <2>2. g[j] = Mixed(A, J, j) /\ g[j - 1] = Mixed(A, J, j - 1)
    BY <2>1
  <2> QED
    BY <2>1, <2>2, MixedNext
<1>4. g[0] = [i \in DOMAIN A |-> <<"string", A[i]>>] /\ DOMAIN g = 0 .. n /\ g[n] = Mixed(A, J, n)
  BY <1>1, <1>2
<1>5. g = [j \in 0 .. n |-> g[j]]
  OBVIOUS
<1> HIDE DEF g
<1>6. Merges(g, A, J)
  <2>1. \A j \in 0 .. n : g[j] = IF j = 0 THEN [i \in DOMAIN A |-> <<"string", A[i]>>] ELSE Putting(J, g[j - 1], j)
    BY <1>1, <1>3, <1>4
  <2> QED
    BY <1>5, <2>1 DEF Merges
<1>7. Merges(f, A, J)
  BY <1>6, Zenon
<1> HIDE DEF f
<1>8. Alike(f, g, n)
  <2>1. \A j \in 0 .. n : f[j] = IF j = 0 THEN [i \in DOMAIN A |-> <<"string", A[i]>>] ELSE Putting(J, f[j - 1], j)
    BY <1>7 DEF Merges
  <2>2. 0 \in 0 .. n /\ \A j \in 1 .. n : j \in 0 .. n /\ j # 0
    BY <1>1
  <2>3. f[0] = g[0]
    BY <1>4, <2>1, <2>2
  <2>4. \A j \in 1 .. n : f[j] = Putting(J, f[j - 1], j)
    BY <2>1, <2>2
  <2> QED
    BY <1>3, <2>3, <2>4 DEF Alike
<1>9. f[n] = g[n]
  <2>1. n \in 0 .. n
    BY <1>1
  <2> QED
    BY <1>1, <1>8, <2>1, SameSteps
<1> QED
  BY <1>4, <1>9 DEF f

\* The words that lists collect.
LEMMA CollectsAre ==
    ASSUME NEW n \in Nat, Said(n)
    PROVE  /\ Collects(n) \in Seq(1 .. n)
           /\ \A q \in 1 .. Len(Collects(n)) : /\ meant[Collects(n)[q]][2] \in Argument
                                               /\ ListBefore(Collects(n)[q]) \in Lists
<1> DEFINE K == {j \in Words(n) : Collected(j)}
           C == Collects(n)
<1>1. K \subseteq 1 .. n
  BY WordsNext
<1>2. C \in Seq(K)
  BY <1>1, AscendingIs DEF Collects
<1>3. \A j \in K : j \in 1 .. n /\ meant[j][1] = "word" /\ Collected(j)
  BY <1>1 DEF Words
<1>4. \A j \in K : meant[j][2] \in Argument
  BY <1>3 DEF Said
<1>5. ASSUME NEW j \in K PROVE ListBefore(j) \in Lists
  <2> DEFINE lists == {i \in 1 .. j - 1 : meant[i][1] = "list"}
  <2>1. ListBefore(j) # "none" /\ j \in 1 .. n
    BY <1>3, <1>5 DEF Collected
  <2>2. ListBefore(j) = IF lists = {} THEN "none" ELSE meant[Max(lists)][2]
    BY DEF ListBefore
  <2>3. lists \subseteq 0 .. n /\ lists \subseteq 1 .. n
    BY <2>1
  <2>4. \A i \in lists : meant[i][1] = "list"
    OBVIOUS
  <2> HIDE DEF lists
  <2>5. lists # {}
    BY <2>1, <2>2
  <2>6. Max(lists) \in lists
    BY <2>3, <2>5, MaxOf
  <2>7. Max(lists) \in 1 .. n /\ meant[Max(lists)][1] = "list"
    BY <2>3, <2>4, <2>6
  <2> QED
    BY <2>2, <2>5, <2>7 DEF Said
<1> HIDE DEF K, C
<1>6. \A q \in 1 .. Len(C) : C[q] \in K
  BY <1>2
<1>7. C \in Seq(1 .. n)
  <2>1. Len(C) \in Nat /\ C = [q \in 1 .. Len(C) |-> C[q]]
    BY <1>2
  <2>2. \A q \in 1 .. Len(C) : C[q] \in 1 .. n
    BY <1>1, <1>6
  <2> QED
    BY <2>1, <2>2
<1> QED
  BY <1>4, <1>5, <1>6, <1>7 DEF C

\* Which has every word that a list collects, in order, as what the list makes of it.
LEMMA PositionalMeant ==
    ASSUME NEW n \in Nat, Sofar(n)
    PROVE  Positional = MeantPositional(n)
<1> DEFINE A == vals["args"]
           J == vals["jsonargs"]
           C == Collects(n)
           N == Len(C)
<1>1. Lists = {"args", "jsonargs"}
  BY OptionsAssumption
<1>2. C \in Seq(1 .. n) /\ \A q \in 1 .. N : meant[C[q]][2] \in Argument /\ ListBefore(C[q]) \in Lists
  BY CollectsAre DEF Sofar
<1>3. Holds("args", A, C) /\ Holds("jsonargs", J, C)
  BY <1>1 DEF Sofar, Collecting
<1>4. MeantPositional(n) = [q \in DOMAIN C |-> Listed(C[q])]
  BY DEF MeantPositional, Collects
<1>5. Positional = (CHOOSE f : Merges(f, A, J))[Len(J)]
  BY Zenon DEF Positional, Merges, Putting
<1> HIDE DEF A, J, C
<1>6. N \in Nat /\ DOMAIN C = 1 .. N
  BY <1>2
<1>7. /\ A \in Seq(Elements) /\ Len(A) <= N /\ J \in Seq(Elements) /\ Len(J) <= N
      /\ \A q \in 1 .. N : IF ListBefore(C[q]) = "args" THEN q <= Len(A) /\ A[q] = meant[C[q]][2]
                           ELSE q <= Len(A) => A[q] = Missing
      /\ \A q \in 1 .. N : IF ListBefore(C[q]) = "jsonargs" THEN q <= Len(J) /\ J[q] = meant[C[q]][2]
                           ELSE q <= Len(J) => J[q] = Missing
  BY <1>3 DEF Holds, Elements
<1>8. \A a \in Argument : a # Missing
  <2>1. \A w \in Seq(Piece) : \A q \in 1 .. Len(w) : w[q] \in Piece
    OBVIOUS
  <2>2. \A w : w = <<"">> => Len(w) = 1 /\ w[1] = ""
    <3>1. Len(<<"">>) = 1 /\ (<<"">>)[1] = ""
      OBVIOUS
    <3> QED
      BY <3>1, Zenon
  <2>3. "" \notin Piece /\ 1 \in 1 .. 1
    BY DEF Piece
  <2>4. \A w \in Seq(Piece) : w # <<"">>
    BY <2>1, <2>2, <2>3
  <2> QED
    BY <2>4 DEF Argument, Missing
<1>9. Len(A) \in Nat /\ Len(J) \in Nat
  BY <1>7
<1> DEFINE a == Len(A)
           b == Len(J)
<1>10. Fits(A, J)
  <2> SUFFICES ASSUME NEW j \in 1 .. b, j > a PROVE J[j] # Missing
    BY DEF Fits
  <2>1. j \in 1 .. N /\ ~ (j <= a)
    BY <1>6, <1>7, <1>9
  <2>2. ListBefore(C[j]) = "jsonargs"
    BY <1>1, <1>2, <1>7, <2>1
  <2> QED
    BY <1>2, <1>7, <1>8, <2>1, <2>2
<1>11. Positional = Mixed(A, J, b)
  BY <1>5, <1>7, <1>10, MergedIs
<1>12. Longer(A, b) = N
  <2>1. a <= N /\ b <= N
    BY <1>7
  <2>2. N # 0 => N <= a \/ N <= b
    <3> SUFFICES ASSUME N # 0 PROVE N <= a \/ N <= b
      OBVIOUS
    <3>1. N \in 1 .. N
      BY <1>6
    <3> QED
      BY <1>1, <1>2, <1>7, <3>1
  <2>3. Longer(A, b) = IF b > a THEN b ELSE a
    BY DEF Longer
  <2> HIDE DEF a, b, N
  <2> QED
    BY <1>6, <1>9, <2>1, <2>2, <2>3 DEF a, b
<1>13. \A q \in 1 .. N : (IF q <= b /\ J[q] # Missing THEN <<"json", J[q]>> ELSE <<"string", A[q]>>) = Listed(C[q])
  <2> SUFFICES ASSUME NEW q \in 1 .. N
               PROVE  (IF q <= b /\ J[q] # Missing THEN <<"json", J[q]>> ELSE <<"string", A[q]>>) = Listed(C[q])
    OBVIOUS
  <2>1. CASE ListBefore(C[q]) = "args"
    <3>1. A[q] = meant[C[q]][2] /\ (q <= b => J[q] = Missing)
      BY <1>7, <2>1
    <3> QED
      BY <2>1, <3>1 DEF Listed
  <2>2. CASE ListBefore(C[q]) = "jsonargs"
    <3>1. q <= b /\ J[q] = meant[C[q]][2] /\ meant[C[q]][2] # Missing
      BY <1>2, <1>7, <1>8, <2>2
    <3> QED
      BY <2>2, <3>1 DEF Listed
  <2> QED
    BY <1>1, <1>2, <2>1, <2>2
<1>14. Mixed(A, J, b) = [q \in 1 .. N |-> IF q <= b /\ J[q] # Missing THEN <<"json", J[q]>> ELSE <<"string", A[q]>>]
  BY <1>12 DEF Mixed
<1> QED
  BY <1>4, <1>6, <1>11, <1>13, <1>14

-------------------------------------------------------------------------------
(* What the invariant is for.                                              *)

\* When the loop is done, the invariant says what command lines mean.
LEMMA FlagsInvMeans == FlagsInv => CommandLineMeant
<1> SUFFICES ASSUME FlagsInv PROVE CommandLineMeant
  OBVIOUS
<1>1. FlagTypes /\ Outcome
  BY DEF FlagsInv
<1>2. FlagsTypeOK
  BY <1>1 DEF FlagTypes, FlagsTypeOK
<1>3. ASSUME status = "done"
      PROVE  meant \in Seq(Thing) /\ Len(meant) \in Nat /\ Sofar(Len(meant))
  BY <1>1, <1>3 DEF Outcome
<1>4. RefusedWhenWrong
  <2>1. CASE status = "done"
    <3> DEFINE n == Len(meant)
    <3>1. meant \in Seq(Thing) /\ n \in Nat /\ Said(n)
      BY <1>3, <2>1 DEF Sofar
    <3>2. ASSUME Wrong PROVE FALSE
      <4>1. meant # <<>> /\ Last(meant)[1] = "wrong"
        BY <3>2 DEF Wrong
      <4>2. n \in 1 .. n /\ Last(meant) = meant[n]
        BY <3>1, <4>1 DEF Last
      <4>3. meant[n][1] \in {"set", "list", "word"}
        BY <3>1, <4>2 DEF Said
      <4> QED
        BY <4>1, <4>2, <4>3
    <3>3. Wrong = FALSE
      BY <3>2 DEF Wrong
    <3> QED
      BY <2>1, <3>3 DEF RefusedWhenWrong
  <2>2. CASE status = "error"
    BY <1>1, <2>2 DEF Outcome, RefusedWhenWrong
  <2>3. CASE status = "parsing"
    BY <2>3 DEF RefusedWhenWrong
  <2> QED
    BY <1>1, <2>1, <2>2, <2>3 DEF FlagTypes
<1>5. PositionalInOrder
  <2> SUFFICES ASSUME status = "done"
               PROVE  Positional = MeantPositional(Len(meant)) /\ rest = MeantRest(Len(meant))
    BY DEF PositionalInOrder
  <2>1. rest = MeantRest(Len(meant))
    BY <1>3 DEF Sofar, Collecting
  <2> QED
    BY <1>3, <2>1, PositionalMeant
<1>6. ValuesMeant
  <2> SUFFICES ASSUME status = "done", NEW o \in Long
               PROVE  CASE Kind[o] \in {"bool", "string", "int"} ->
                             vals[o] = IF Sets(o, Len(meant)) = {} THEN <<>> ELSE meant[Max(Sets(o, Len(meant)))][3][1]
                        [] Kind[o] = "list" ->
                             vals[o] = [j \in DOMAIN Ascending(Sets(o, Len(meant))) |->
                                           meant[Ascending(Sets(o, Len(meant)))[j]][3][1]]
                        [] Kind[o] = "map" -> vals[o] = MeantMap(o, Len(meant))
                        [] OTHER -> TRUE
    BY Zenon DEF ValuesMeant
  <2>1. Sofar(Len(meant))
    BY <1>3
  <2>2. Kind[o] \in {"bool", "string", "int"} =>
           vals[o] = IF Sets(o, Len(meant)) = {} THEN <<>> ELSE meant[Max(Sets(o, Len(meant)))][3][1]
    BY <2>1 DEF Sofar, Scalars
  <2>3. Kind[o] = "list" =>
           vals[o] = [j \in DOMAIN Ascending(Sets(o, Len(meant))) |-> meant[Ascending(Sets(o, Len(meant)))[j]][3][1]]
    BY <2>1 DEF Sofar, Listing, ValuesIn
  <2>4. Kind[o] = "map" => vals[o] = MeantMap(o, Len(meant))
    BY <2>1 DEF Sofar, Mapping
  <2> QED
    BY <2>2, <2>3, <2>4
<1> QED
  BY <1>2, <1>4, <1>5, <1>6 DEF CommandLineMeant

\* For every table of options and every set of command lines made of phrases, parseFlags refuses exactly the lines in
\* which something is wrong, and makes of the others what they say: every option has its value and every word is where
\* the options before it send it (parseFlags with values put back into the arguments, and the merge of the two lists).
THEOREM CommandLineMeantHolds == FlagsSpec => []CommandLineMeant
<1>1. FlagsInit => FlagsInv
  BY FlagsInvInit
<1>2. FlagsInv /\ [FlagsNext]_flagVars => FlagsInv'
  BY FlagsInvNext
<1>3. FlagsInv => CommandLineMeant
  BY FlagsInvMeans
<1> QED
  BY <1>1, <1>2, <1>3, PTL DEF FlagsSpec

-------------------------------------------------------------------------------
(* Stream: its stacks.                                                     *)

LEMMA StackFront ==
    ASSUME NEW S, NEW s \in Seq(S), s # <<>>
    PROVE  /\ Front(s) \in Seq(S) /\ Len(Front(s)) = Len(s) - 1 /\ Len(s) \in Nat /\ Len(s) > 0
           /\ \A i \in 1 .. Len(s) - 1 : Front(s)[i] = s[i]
           /\ Last(s) = s[Len(s)] /\ Last(s) \in S
<1>1. Len(s) \in Nat /\ Len(s) > 0 /\ Last(s) = s[Len(s)] /\ Last(s) \in S
  BY DEF Last
<1>2. /\ Front(s) \in Seq(S)
      /\ Len(Front(s)) = IF 1 <= Len(s) - 1 THEN Len(s) - 1 - 1 + 1 ELSE 0
      /\ \A i \in 1 .. Len(s) - 1 - 1 + 1 : Front(s)[i] = s[1 + i - 1]
  <2>1. Len(s) - 1 \in Int /\ 1 \in Int /\ \A i \in 1 .. Len(s) - 1 : s[i] \in S
    BY <1>1
  <2> QED
    BY <2>1, SubSeqProperties DEF Front
<1>3. Len(Front(s)) = Len(s) - 1 /\ \A i \in 1 .. Len(s) - 1 : Front(s)[i] = s[i]
  <2> HIDE DEF Front
  <2> DEFINE n == Len(s)
             f == Front(s)
  <2>1. /\ n \in Nat /\ n > 0 /\ Len(f) = IF 1 <= n - 1 THEN n - 1 - 1 + 1 ELSE 0
        /\ \A i \in 1 .. n - 1 - 1 + 1 : f[i] = s[1 + i - 1]
    BY <1>1, <1>2
  <2> HIDE DEF n, f
  <2>2. Len(f) = n - 1 /\ \A i \in 1 .. n - 1 : f[i] = s[i]
    BY <2>1
  <2> QED
    BY <2>2 DEF n, f
<1> QED
  BY <1>1, <1>2, <1>3

LEMMA StackPush ==
    ASSUME NEW S, NEW s \in Seq(S), NEW x \in S
    PROVE  /\ Append(s, x) \in Seq(S) /\ Len(Append(s, x)) = Len(s) + 1 /\ Append(s, x) # <<>>
           /\ \A i \in 1 .. Len(s) : Append(s, x)[i] = s[i]
           /\ Append(s, x)[Len(s) + 1] = x /\ Last(Append(s, x)) = x
           /\ Front(Append(s, x)) = s
<1>1. /\ Append(s, x) \in Seq(S) /\ Len(Append(s, x)) = Len(s) + 1 /\ Append(s, x) # <<>>
      /\ \A i \in 1 .. Len(s) : Append(s, x)[i] = s[i]
      /\ Append(s, x)[Len(s) + 1] = x /\ Last(Append(s, x)) = x
  BY DEF Last
<1>2. Front(Append(s, x)) = s
  <2> DEFINE t == Append(s, x)
  <2>1. /\ Front(t) \in Seq(S) /\ Len(Front(t)) = Len(t) - 1
        /\ \A i \in 1 .. Len(t) - 1 : Front(t)[i] = t[i]
    BY <1>1, StackFront
  <2>2. Len(t) - 1 = Len(s) /\ \A i \in 1 .. Len(s) : t[i] = s[i]
    BY <1>1
  <2> HIDE DEF t
  <2>3. Front(t) \in Seq(S) /\ Len(Front(t)) = Len(s) /\ \A i \in 1 .. Len(s) : Front(t)[i] = s[i]
    BY <2>1, <2>2
  <2>4. Front(t) = s
    BY <2>3
  <2> QED
    BY <2>4 DEF t
<1> QED
  BY <1>1, <1>2

\* The last element is replaced.
Over(s, x) == Front(s) \o <<x>>

LEMMA StackOver ==
    ASSUME NEW S, NEW s \in Seq(S), s # <<>>, NEW x \in S
    PROVE  /\ Over(s, x) \in Seq(S) /\ Len(Over(s, x)) = Len(s) /\ Over(s, x) # <<>>
           /\ \A i \in 1 .. Len(s) - 1 : Over(s, x)[i] = s[i]
           /\ Over(s, x)[Len(s)] = x /\ Last(Over(s, x)) = x
<1> DEFINE f == Front(s)
<1>1. f \in Seq(S) /\ Len(f) = Len(s) - 1 /\ Len(s) \in Nat /\ Len(s) > 0 /\ \A i \in 1 .. Len(s) - 1 : f[i] = s[i]
  BY StackFront
<1> HIDE DEF f
<1>2. /\ f \o <<x>> \in Seq(S) /\ Len(f \o <<x>>) = Len(f) + 1
      /\ \A i \in 1 .. Len(f) : (f \o <<x>>)[i] = f[i]
      /\ (f \o <<x>>)[Len(f) + 1] = x
  BY <1>1
<1> QED
  BY <1>1, <1>2 DEF Over, f, Last

-------------------------------------------------------------------------------
(* Stream: the events of a document.                                       *)

LEMMA FewEvents ==
    ASSUME NEW d, NEW n
    PROVE  EventsAt(d, n) = <<>> \/ \E e : EventsAt(d, n) = <<e>>
BY Zenon DEF EventsAt

LEMMA KnownSteps ==
    ASSUME NEW d, NEW n \in Nat
    PROVE  \E S : \E g \in [0 .. n -> Seq(S)] :
              /\ g[0] = <<>>
              /\ \A k \in 1 .. n : EventsAt(d, k) \in Seq(S) /\ g[k] = g[k - 1] \o EventsAt(d, k)
              /\ \A k \in 0 .. n : Known(d, k) = g[k]
<1> DEFINE S == {EventsAt(d, k)[1] : k \in 1 .. n}
           step == [k \in 1 .. n |-> [x \in Seq(S) |-> x \o EventsAt(d, k)]]
<1>1. \A k \in 1 .. n : EventsAt(d, k) \in Seq(S)
  <2> SUFFICES ASSUME NEW k \in 1 .. n PROVE EventsAt(d, k) \in Seq(S)
    OBVIOUS
  <2>1. CASE EventsAt(d, k) = <<>>
    BY <2>1
  <2>2. ASSUME NEW e, EventsAt(d, k) = <<e>> PROVE EventsAt(d, k) \in Seq(S)
    <3>1. EventsAt(d, k)[1] = e
      BY <2>2
    <3>2. e \in S
      BY <3>1
    <3> HIDE DEF S
    <3> QED
      BY <2>2, <3>2
  <2> QED
    BY <2>1, <2>2, FewEvents
<1> HIDE DEF S
<1>2. step \in StepsOn(Seq(S), n)
  BY <1>1 DEF StepsOn
<1>3. \A k \in 1 .. n : \A x \in Seq(S) : step[k][x] = x \o EventsAt(d, k)
  OBVIOUS
<1> HIDE DEF step
<1>4. PICK g : g \in Paths(Seq(S), <<>>, n, step)
  <2>1. <<>> \in Seq(S)
    OBVIOUS
  <2> QED
    BY <1>2, <2>1, StepsExist
<1>5. g \in [0 .. n -> Seq(S)] /\ g[0] = <<>> /\ \A k \in 1 .. n : g[k] = step[k][g[k - 1]]
  BY <1>4 DEF Paths
<1>6. \A k \in 1 .. n : g[k] = g[k - 1] \o EventsAt(d, k)
  <2>1. \A k \in 1 .. n : k - 1 \in 0 .. n
    OBVIOUS
  <2> QED
    BY <1>3, <1>5, <2>1
<1>7. ASSUME NEW m \in 0 .. n PROVE Known(d, m) = g[m]
  <2> DEFINE Is(f) == f = [i \in 0 .. m |-> IF i = 0 THEN <<>> ELSE f[i - 1] \o EventsAt(d, i)]
             h == [i \in 0 .. m |-> g[i]]
             known == CHOOSE f : Is(f)
  <2>1. Is(h)
    <3>1. ASSUME NEW i \in 0 .. m PROVE h[i] = IF i = 0 THEN <<>> ELSE h[i - 1] \o EventsAt(d, i)
      <4>1. CASE i = 0
        BY <1>5, <4>1
      <4>2. CASE i # 0
        <5>1. i \in 1 .. n /\ i - 1 \in 0 .. m
          BY <4>2
        <5> QED
          BY <1>6, <4>2, <5>1
      <4> QED
        BY <4>1, <4>2
    <3> HIDE DEF h
    <3>2. h = [i \in 0 .. m |-> h[i]]
      BY DEF h
    <3> QED
      BY <3>1, <3>2
  <2>2. Is(known)
    <3> HIDE DEF Is, h
    <3> QED
      BY <2>1
  <2>3. Known(d, m) = known[m]
    BY DEF Known
  <2> HIDE DEF known
  <2>4. known[0] = <<>> /\ \A k \in 1 .. m : known[k] = known[k - 1] \o EventsAt(d, k)
    <3>1. \A i \in 0 .. m : known[i] = IF i = 0 THEN <<>> ELSE known[i - 1] \o EventsAt(d, i)
      BY <2>2
    <3>2. 0 \in 0 .. m /\ \A k \in 1 .. m : k \in 0 .. m /\ k # 0
      OBVIOUS
    <3> HIDE DEF Is
    <3> QED
      BY <3>1, <3>2
  <2>5. Alike(known, g, m)
    <3>1. \A k \in 1 .. m : k \in 1 .. n
      OBVIOUS
    <3> HIDE DEF Is
    <3> QED
      BY <1>5, <1>6, <2>4, <3>1 DEF Alike
  <2> HIDE DEF Is
  <2>6. \A k \in 0 .. m : known[k] = g[k]
    BY <2>5, SameSteps
  <2> QED
    BY <2>3, <2>6
<1> QED
  BY <1>1, <1>5, <1>6, <1>7

LEMMA KnownStep ==
    ASSUME NEW d, NEW n \in Nat
    PROVE  /\ Known(d, 0) = <<>>
           /\ EventsAt(d, n + 1) = <<>> => Known(d, n + 1) = Known(d, n)
           /\ \A e : EventsAt(d, n + 1) = <<e>> => Known(d, n + 1) = Append(Known(d, n), e)
<1> DEFINE m == n + 1
<1>1. m \in Nat /\ m \in 1 .. m /\ n \in 0 .. m /\ 0 \in 0 .. m /\ m \in 0 .. m /\ m - 1 = n
  OBVIOUS
<1> HIDE DEF m
<1>2. PICK S : \E g \in [0 .. m -> Seq(S)] :
          /\ g[0] = <<>>
          /\ \A k \in 1 .. m : EventsAt(d, k) \in Seq(S) /\ g[k] = g[k - 1] \o EventsAt(d, k)
          /\ \A k \in 0 .. m : Known(d, k) = g[k]
  BY <1>1, KnownSteps
<1>3. PICK g \in [0 .. m -> Seq(S)] :
          /\ g[0] = <<>>
          /\ \A k \in 1 .. m : EventsAt(d, k) \in Seq(S) /\ g[k] = g[k - 1] \o EventsAt(d, k)
          /\ \A k \in 0 .. m : Known(d, k) = g[k]
  BY <1>2
<1>4. /\ Known(d, n) \in Seq(S) /\ Known(d, 0) = <<>> /\ EventsAt(d, m) \in Seq(S)
      /\ Known(d, m) = Known(d, n) \o EventsAt(d, m)
  BY <1>1, <1>3
<1> DEFINE a == Known(d, n)
           b == EventsAt(d, m)
<1>5. a \in Seq(S) /\ b \in Seq(S) /\ Known(d, m) = a \o b
  BY <1>4
<1>6. \A e : b = <<e>> => Known(d, m) = Append(a, e)
  <2> SUFFICES ASSUME NEW e, b = <<e>> PROVE Known(d, m) = Append(a, e)
    OBVIOUS
  <2> HIDE DEF a, b
  <2>1. e \in S
    <3>1. 1 \in 1 .. Len(b) /\ b[1] = e
      OBVIOUS
    <3> QED
      BY <1>5, <3>1
  <2>2. a \o <<e>> = Append(a, e)
    BY <1>5, <2>1
  <2> QED
    BY <1>5, <2>2
<1>7. b = <<>> => Known(d, m) = a
  <2> HIDE DEF a, b
  <2>1. a \o <<>> = a
    BY <1>5
  <2> QED
    BY <1>5, <2>1
<1> QED
  BY <1>4, <1>6, <1>7 DEF m

\* What is known stays known.
LEMMA KnownGrows ==
    ASSUME NEW d, NEW n \in Nat, NEW m \in 0 .. n
    PROVE  IsPrefix(Known(d, m), Known(d, n))
<1>1. PICK S : \E g \in [0 .. n -> Seq(S)] :
          /\ g[0] = <<>>
          /\ \A k \in 1 .. n : EventsAt(d, k) \in Seq(S) /\ g[k] = g[k - 1] \o EventsAt(d, k)
          /\ \A k \in 0 .. n : Known(d, k) = g[k]
  BY KnownSteps
<1>2. PICK g \in [0 .. n -> Seq(S)] :
          /\ g[0] = <<>>
          /\ \A k \in 1 .. n : EventsAt(d, k) \in Seq(S) /\ g[k] = g[k - 1] \o EventsAt(d, k)
          /\ \A k \in 0 .. n : Known(d, k) = g[k]
  BY <1>1
<1> DEFINE Kept(k) == Len(g[m]) <= Len(g[k]) /\ \A j \in 1 .. Len(g[m]) : g[k][j] = g[m][j]
           Bad == {k \in m .. n : ~Kept(k)}
<1>3. Bad = {}
  <2> SUFFICES ASSUME Bad # {} PROVE FALSE
    OBVIOUS
  <2>1. Bad \subseteq Nat
    OBVIOUS
  <2>2. PICK k \in Bad : \A y \in Bad : k <= y
    BY <2>1, LeastExists
  <2>3. k \in m .. n /\ ~Kept(k)
    OBVIOUS
  <2>4. g[m] \in Seq(S)
    BY <1>2
  <2>5. k # m
    BY <2>3, <2>4
  <2>6. k - 1 \in m .. n /\ k \in 1 .. n /\ k - 1 \in 0 .. n /\ ~(k <= k - 1)
    BY <2>3, <2>5
  <2>7. Kept(k - 1)
    BY <2>2, <2>6
  <2>8. g[k - 1] \in Seq(S) /\ EventsAt(d, k) \in Seq(S) /\ g[k] = g[k - 1] \o EventsAt(d, k)
    BY <1>2, <2>6
  <2> DEFINE a == g[k - 1]
             b == EventsAt(d, k)
             c == g[m]
  <2>9. a \in Seq(S) /\ b \in Seq(S) /\ c \in Seq(S) /\ Len(c) <= Len(a) /\ \A j \in 1 .. Len(c) : a[j] = c[j]
    BY <2>4, <2>7, <2>8
  <2> HIDE DEF a, b, c
  <2>10. Len(c) <= Len(a \o b) /\ \A j \in 1 .. Len(c) : (a \o b)[j] = c[j]
    <3>1. Len(a \o b) = Len(a) + Len(b) /\ \A j \in 1 .. Len(a) : (a \o b)[j] = a[j]
      BY <2>9
    <3>2. Len(a) \in Nat /\ Len(b) \in Nat /\ Len(c) \in Nat
      BY <2>9
    <3> QED
      BY SMTT(30), <2>9, <3>1, <3>2
  <2>11. Kept(k)
    BY <2>8, <2>10 DEF a, b, c
  <2> QED
    BY <2>3, <2>11
<1>4. Kept(n) /\ g[n] \in Seq(S) /\ g[m] \in Seq(S) /\ Known(d, m) = g[m] /\ Known(d, n) = g[n]
  <2>1. n \in m .. n /\ n \in 0 .. n
    OBVIOUS
  <2>2. Kept(n)
    BY <1>3, <2>1
  <2> HIDE DEF Kept
  <2> QED
    BY <1>2, <2>1, <2>2
<1> DEFINE x == g[m]
           y == g[n]
<1>5. x \in Seq(S) /\ y \in Seq(S) /\ Len(x) <= Len(y) /\ \A j \in 1 .. Len(x) : y[j] = x[j]
  BY <1>4
<1>6. Known(d, m) = x /\ Known(d, n) = y
  BY <1>4
<1> HIDE DEF x, y, Bad, Kept
<1>7. IsPrefix(x, y)
  BY <1>5 DEF IsPrefix
<1> QED
  BY <1>6, <1>7

-------------------------------------------------------------------------------
(* Stream: values and tokens.                                              *)

LEMMA DocumentTypes ==
    ASSUME NEW d \in Documents
    PROVE  /\ d.tokens \in Seq(Token) /\ Len(d.tokens) \in Nat /\ Len(d.values) \in Nat /\ Len(d.values) > 0
           /\ d.values[1].kind = "top" /\ d.values[1].first = 0
           /\ \A v \in 1 .. Len(d.values) :
                 /\ d.values[v].kind \in {"top", "arr", "obj", "atom"} /\ d.values[v].path \in Seq(Step)
                 /\ d.values[v].first \in Nat /\ d.values[v].last \in Nat /\ d.values[v].parts \in Seq(Nat)
                 /\ d.values[v].within \in Nat
                 /\ d.values[v].kind = "top" => v = 1
                 /\ d.values[v].kind = "atom" => d.values[v].parts = <<>>
<1>1. /\ d.tokens \in Seq(Token) /\ d.values \in Seq(Valued) /\ Len(d.values) > 0 /\ d.values[1].kind = "top"
      /\ \A v \in 1 .. Len(d.values) : IsWritten(d, v) /\ (d.values[v].kind = "atom" => d.values[v].parts = <<>>)
  BY DocumentsAssumption DEF IsDocument
<1>2. Len(d.tokens) \in Nat /\ Len(d.values) \in Nat /\ 1 \in 1 .. Len(d.values)
  BY <1>1
<1>3. \A v \in 1 .. Len(d.values) : d.values[v] \in Valued
  BY <1>1
<1>4. \A x \in Valued : /\ x.kind \in {"top", "arr", "obj", "atom"} /\ x.path \in Seq(Step)
                        /\ x.first \in Nat /\ x.last \in Nat /\ x.parts \in Seq(Nat) /\ x.within \in Nat
  BY DEF Valued
<1>5. \A v \in 1 .. Len(d.values) : d.values[v].kind = "top" => v = 1 /\ d.values[v].first = 0
  BY <1>1 DEF IsWritten
<1> QED
  BY <1>1, <1>2, <1>3, <1>4, <1>5

LEMMA PartIs ==
    ASSUME NEW d \in Documents, NEW v \in 1 .. Len(d.values), NEW i \in 1 .. Len(d.values[v].parts)
    PROVE  /\ IsPart(d, v, i) /\ d.values[v].parts[i] \in 2 .. Len(d.values) /\ d.values[v].kind \in {"top", "arr", "obj"}
           /\ d.values[v].parts[i] \in 1 .. Len(d.values)
           /\ d.values[d.values[v].parts[i]].kind \in {"arr", "obj", "atom"}
           /\ d.values[d.values[v].parts[i]].within = v
<1>1. IsPart(d, v, i)
  BY DocumentsAssumption DEF IsDocument
<1>2. d.values[v].parts[i] \in 2 .. Len(d.values) /\ d.values[d.values[v].parts[i]].within = v
  BY <1>1 DEF IsPart
<1>3. Len(d.values) \in Nat
  BY DocumentTypes
<1>4. d.values[v].parts[i] \in 1 .. Len(d.values) /\ d.values[v].parts[i] # 1
  BY <1>2, <1>3
<1>5. d.values[v].parts # <<>>
  OBVIOUS
<1> QED
  BY <1>1, <1>2, <1>4, <1>5, DocumentTypes

LEMMA PartKind ==
    ASSUME NEW d \in Documents, NEW v \in 1 .. Len(d.values), NEW i \in 1 .. Len(d.values[v].parts),
           NEW w, w = d.values[v].parts[i]
    PROVE  w \in 1 .. Len(d.values) /\ d.values[w].kind \in {"arr", "obj", "atom"} /\ d.values[w].within = v
BY PartIs

\* How long paths are.
LEMMA PartPath ==
    ASSUME NEW d \in Documents, NEW v \in 1 .. Len(d.values), NEW i \in 1 .. Len(d.values[v].parts)
    PROVE  LET w == d.values[v].parts[i]
               x == d.values[v]
               y == d.values[w]
           IN  /\ x.kind = "top" => y.path = <<>> /\ y.first = Behind(d, v, i - 1) + 1
               /\ x.kind = "arr" => y.path = Append(x.path, At(i - 1)) /\ y.first = Behind(d, v, i - 1) + 1
               /\ x.kind = "obj" => LET t == d.tokens[Behind(d, v, i - 1) + 1]
                                    IN  /\ y.path = Append(x.path, Key(t.text)) /\ y.first = Behind(d, v, i - 1) + 2
                                        /\ t.role = "key" /\ IsText(t.text)
               /\ x.kind # "top" => Len(y.path) = Len(x.path) + 1 /\ Front(y.path) = x.path
<1> DEFINE w == d.values[v].parts[i]
           x == d.values[v]
           y == d.values[w]
           b == Behind(d, v, i - 1)
           t == d.tokens[b + 1]
<1>1. IsPart(d, v, i) /\ x.kind \in {"top", "arr", "obj"} /\ w \in 1 .. Len(d.values)
  BY PartIs
<1>2. x.path \in Seq(Step) /\ y.path \in Seq(Step)
  BY <1>1, DocumentTypes
<1>3. x.kind = "top" => y.path = <<>> /\ y.first = b + 1
  BY <1>1 DEF IsPart
<1>4. x.kind = "arr" => y.path = Append(x.path, At(i - 1)) /\ y.first = b + 1
  BY ZenonT(30), <1>1 DEF IsPart
<1>5. x.kind = "obj" => y.path = Append(x.path, Key(t.text)) /\ y.first = b + 2 /\ t.role = "key" /\ IsText(t.text)
  <2> SUFFICES ASSUME x.kind = "obj"
               PROVE  y.path = Append(x.path, Key(t.text)) /\ y.first = b + 2 /\ t.role = "key" /\ IsText(t.text)
    BY Zenon
  <2>1. y.path = Append(x.path, Key(t.text)) /\ y.first = b + 2 /\ IsText(t.text) /\ t = Tok("key", w, t.text)
    BY Zenon, <1>1 DEF IsPart
  <2>2. Tok("key", w, t.text).role = "key"
    BY DEF Tok
  <2> HIDE DEF t
  <2> QED
    BY <2>1, <2>2
<1>6. \E e : x.kind # "top" => y.path = Append(x.path, e) /\ e \in Step
  <2>1. CASE x.kind = "arr"
    <3>1. At(i - 1) \in Step
      <4>1. i - 1 \in Nat
        BY <1>2
      <4> QED
        BY <4>1 DEF At, Step
    <3> QED
      BY Zenon, <1>4, <2>1, <3>1
  <2>2. CASE x.kind = "obj"
    <3>1. t.text \in STRING
      <4> DEFINE u == y.path
      <4>1. u = Append(x.path, Key(t.text)) /\ u \in Seq(Step) /\ x.path \in Seq(Step)
        BY Zenon, <1>2, <1>5, <2>2
      <4> HIDE DEF u, x, t
      <4>2. u[Len(x.path) + 1] = Key(t.text) /\ Len(x.path) + 1 \in 1 .. Len(u)
        BY <4>1
      <4>3. Key(t.text) \in Step
        BY <4>1, <4>2
      <4> QED
        BY <4>3 DEF Key, Step
    <3>2. Key(t.text) \in Step
      BY SMTT(30), <3>1 DEF Key, Step
    <3> QED
      BY Zenon, <1>5, <2>2, <3>2
  <2> QED
    BY Zenon, <1>1, <2>1, <2>2
<1>7. PICK e : x.kind # "top" => y.path = Append(x.path, e) /\ e \in Step
  BY <1>6
<1>8. x.kind # "top" => Len(y.path) = Len(x.path) + 1 /\ Front(y.path) = x.path
  <2> SUFFICES ASSUME x.kind # "top" PROVE Len(y.path) = Len(x.path) + 1 /\ Front(y.path) = x.path
    OBVIOUS
  <2> DEFINE p == x.path
             q == y.path
  <2>1. p \in Seq(Step) /\ e \in Step /\ q = Append(p, e)
    BY Zenon, <1>2, <1>7
  <2> HIDE DEF p, q
  <2>2. Len(q) = Len(p) + 1 /\ Front(q) = p
    BY <2>1, StackPush
  <2> QED
    BY <2>2 DEF p, q
<1> QED
  BY Zenon, <1>3, <1>4, <1>5, <1>8

\* The token that comes after the first k parts of value v.
LEMMA NextToken ==
    ASSUME NEW d \in Documents, NEW v \in 1 .. Len(d.values), d.values[v].kind # "atom",
           NEW k \in 0 .. Len(d.values[v].parts), Behind(d, v, k) < Len(d.tokens)
    PROVE  LET x == d.values[v]
               b == Behind(d, v, k)
               t == d.tokens[b + 1]
               w == d.values[v].parts[k + 1]
           IN  /\ b \in Nat
               /\ k = Len(x.parts) =>
                     /\ x.kind \in {"arr", "obj"} /\ x.last = b + 1
                     /\ t = Tok("closes", v, IF x.kind = "arr" THEN "endArray" ELSE "endObject")
               /\ k < Len(x.parts) => /\ k + 1 \in 1 .. Len(x.parts)
                                      /\ x.kind = "obj" => d.values[w].first = b + 2 /\ t.role = "key" /\ IsText(t.text)
                                      /\ x.kind # "obj" => d.values[w].first = b + 1
<1> DEFINE x == d.values[v]
           b == Behind(d, v, k)
           t == d.tokens[b + 1]
<1>0. /\ x.first \in Nat /\ x.last \in Nat /\ x.parts \in Seq(Nat) /\ Len(d.tokens) \in Nat
      /\ x.kind \in {"top", "arr", "obj"}
  BY DocumentTypes
<1>1. b \in Nat
  <2>1. CASE k = 0
    BY <1>0, <2>1 DEF Behind
  <2>2. CASE k # 0
    <3>1. k \in 1 .. Len(x.parts)
      BY <1>0, <2>2
    <3>2. x.parts[k] \in 1 .. Len(d.values)
      BY <3>1, PartIs
    <3> QED
      BY <2>2, <3>2, DocumentTypes DEF Behind
  <2> QED
    BY <2>1, <2>2
<1>2. ASSUME k = Len(x.parts)
      PROVE  /\ x.kind \in {"arr", "obj"} /\ x.last = b + 1
             /\ t = Tok("closes", v, IF x.kind = "arr" THEN "endArray" ELSE "endObject")
  <2>1. x.last = b + 1 /\ IsWritten(d, v)
    BY <1>2, DocumentsAssumption DEF IsDocument
  <2>2. x.kind # "top"
    <3> SUFFICES ASSUME x.kind = "top" PROVE FALSE
      OBVIOUS
    <3>1. x.last = Len(d.tokens) + 1
      BY <2>1 DEF IsWritten
    <3> HIDE DEF b, x
    <3>2. b = Len(d.tokens)
      BY <1>0, <1>1, <2>1, <3>1
    <3> QED
      BY <1>0, <3>2 DEF b
  <2>3. CASE x.kind = "arr"
    BY <2>1, <2>3 DEF IsWritten
  <2>4. CASE x.kind = "obj"
    BY <2>1, <2>4 DEF IsWritten
  <2> QED
    BY <1>0, <2>1, <2>2, <2>3, <2>4
<1>3. ASSUME k < Len(x.parts)
      PROVE  /\ k + 1 \in 1 .. Len(x.parts)
             /\ x.kind = "obj" => d.values[x.parts[k + 1]].first = b + 2 /\ t.role = "key" /\ IsText(t.text)
             /\ x.kind # "obj" => d.values[x.parts[k + 1]].first = b + 1
  <2>1. k + 1 \in 1 .. Len(x.parts) /\ k + 1 - 1 = k
    BY SMTT(30), <1>0, <1>3
  <2> DEFINE i == k + 1
             y == d.values[x.parts[i]]
  <2>2. i \in 1 .. Len(x.parts) /\ Behind(d, v, i - 1) = b
    BY <2>1
  <2> HIDE DEF i
  <2>3. /\ x.kind = "top" => y.first = b + 1
        /\ x.kind = "arr" => y.first = b + 1
        /\ x.kind = "obj" => y.first = b + 2 /\ t.role = "key" /\ IsText(t.text)
    <3> HIDE DEF b
    <3> QED
      BY <2>2, PartPath
  <2> QED
    BY <1>0, <2>1, <2>3 DEF i
<1> QED
  BY <1>1, <1>2, <1>3

\* The first token of a value.
LEMMA FirstToken ==
    ASSUME NEW d \in Documents, NEW w \in 1 .. Len(d.values), d.values[w].kind \in {"arr", "obj", "atom"}
    PROVE  LET y == d.values[w]
               t == d.tokens[y.first]
           IN  /\ y.kind = "arr" => t = Tok("opens", w, "beginArray")
               /\ y.kind = "obj" => t = Tok("opens", w, "beginObject")
               /\ y.kind = "atom" => t.role = "atom" /\ t.of = w /\ IsText(t.text) /\ y.last = y.first
               /\ y.first \in 1 .. Len(d.tokens)
<1>1. IsWritten(d, w) /\ d.values[w].first \in 1 .. Len(d.tokens)
  BY DocumentsAssumption DEF IsDocument
<1> DEFINE y == d.values[w]
           t == d.tokens[y.first]
<1>2. y.kind = "arr" => t = Tok("opens", w, "beginArray")
  BY <1>1 DEF IsWritten
<1>3. y.kind = "obj" => t = Tok("opens", w, "beginObject")
  BY <1>1 DEF IsWritten
<1>4. y.kind = "atom" => t = Tok("atom", w, t.text) /\ IsText(t.text) /\ y.last = y.first
  BY <1>1 DEF IsWritten
<1>5. Tok("atom", w, t.text).role = "atom" /\ Tok("atom", w, t.text).of = w
  BY DEF Tok
<1>6. y.kind = "atom" => t.role = "atom" /\ t.of = w
  <2> HIDE DEF t
  <2> QED
    BY <1>4, <1>5
<1> QED
  BY <1>1, <1>2, <1>3, <1>4, <1>6

-------------------------------------------------------------------------------
(* The values around a place.                                              *)

Amid(kind_) ==
    CASE kind_ = "top" -> "TopValue"
      [] kind_ = "arr" -> "ArrayValue"
      [] kind_ = "obj" -> "ObjectValue"

\* The values c are around a place, each the part of the one before that comes after n of its parts; s are their states.
Surround(d, c, n, s) ==
    /\ c \in Seq(1 .. Len(d.values)) /\ n \in Seq(Nat) /\ s \in Seq(States)
    /\ Len(c) = Len(s) /\ Len(n) = Len(s) /\ s # <<>> /\ c[1] = 1
    /\ \A i \in 1 .. Len(s) : n[i] \in 0 .. Len(d.values[c[i]].parts)
    /\ \A i \in 1 .. Len(s) - 1 : /\ n[i] < Len(d.values[c[i]].parts)
                                  /\ c[i + 1] = d.values[c[i]].parts[n[i] + 1]
                                  /\ s[i] = Amid(d.values[c[i]].kind)
    /\ \A i \in 2 .. Len(s) : Len(d.values[c[i]].path) = i - 2 /\ c[i] # 1

LEMMA Innermost ==
    ASSUME NEW d \in Documents, NEW c, NEW n, NEW s, Surround(d, c, n, s)
    PROVE  /\ Len(s) \in Nat /\ Len(s) > 0 /\ c # <<>> /\ n # <<>>
           /\ Last(c) = c[Len(s)] /\ Last(n) = n[Len(s)] /\ Last(s) = s[Len(s)] /\ Last(s) \in States
           /\ Last(c) \in 1 .. Len(d.values) /\ Last(n) \in 0 .. Len(d.values[Last(c)].parts) /\ Last(n) \in Nat
           /\ (Len(s) = 1) <=> (d.values[Last(c)].kind = "top")
           /\ Len(s) > 1 => Len(d.values[Last(c)].path) = Len(s) - 2
<1>1. /\ c \in Seq(1 .. Len(d.values)) /\ n \in Seq(Nat) /\ s \in Seq(States) /\ Len(c) = Len(s) /\ Len(n) = Len(s) /\ s # <<>>
      /\ c[1] = 1 /\ \A i \in 1 .. Len(s) : n[i] \in 0 .. Len(d.values[c[i]].parts)
      /\ \A i \in 2 .. Len(s) : Len(d.values[c[i]].path) = i - 2 /\ c[i] # 1
  BY DEF Surround
<1>2. Len(s) \in Nat /\ Len(s) > 0 /\ Len(s) \in 1 .. Len(s) /\ (Len(s) > 1 => Len(s) \in 2 .. Len(s)) /\ c # <<>> /\ n # <<>>
  BY <1>1
<1>3. Last(c) = c[Len(s)] /\ Last(n) = n[Len(s)] /\ Last(s) = s[Len(s)] /\ Last(s) \in States
  BY <1>1, <1>2 DEF Last
<1>4. Last(c) \in 1 .. Len(d.values) /\ Last(n) \in 0 .. Len(d.values[Last(c)].parts) /\ Last(n) \in Nat
  BY <1>1, <1>2, <1>3
<1>5. Len(s) > 1 => Len(d.values[Last(c)].path) = Len(s) - 2 /\ Last(c) # 1
  BY <1>1, <1>2, <1>3
<1>6. Len(s) = 1 => Last(c) = 1
  BY <1>1, <1>3
<1>7. d.values[Last(c)].kind = "top" <=> Last(c) = 1
  BY <1>4, DocumentTypes
<1>8. (Len(s) = 1) <=> (d.values[Last(c)].kind = "top")
  <2>1. CASE Len(s) = 1
    BY <1>6, <1>7, <2>1
  <2>2. CASE Len(s) # 1
    <3>1. Len(s) > 1
      <4> DEFINE l == Len(s)
      <4>1. l \in Nat /\ l > 0 /\ l # 1
        BY <1>2, <2>2
      <4> HIDE DEF l
      <4>2. l > 1
        BY <4>1
      <4> QED
        BY <4>2 DEF l
    <3> QED
      BY <1>5, <1>7, <2>2, <3>1
  <2> QED
    BY <2>1, <2>2
<1> QED
  BY <1>2, <1>3, <1>4, <1>5, <1>8

\* The innermost value is in another state.
LEMMA StateChanged ==
    ASSUME NEW d \in Documents, NEW c, NEW n, NEW s, Surround(d, c, n, s), NEW t \in States
    PROVE  Surround(d, c, n, Over(s, t))
<1> DEFINE z == Over(s, t)
<1>1. s \in Seq(States) /\ s # <<>>
  BY DEF Surround
<1>2. z \in Seq(States) /\ Len(z) = Len(s) /\ z # <<>> /\ \A i \in 1 .. Len(s) - 1 : z[i] = s[i]
  BY <1>1, StackOver
<1> HIDE DEF z
<1>3. Surround(d, c, n, z)
  BY <1>2 DEF Surround
<1> QED
  BY <1>3 DEF z

\* Another part of it is behind.
LEMMA PartBehind ==
    ASSUME NEW d \in Documents, NEW c, NEW n, NEW s, Surround(d, c, n, s),
           Last(n) < Len(d.values[Last(c)].parts)
    PROVE  /\ Surround(d, c, Over(n, Last(n) + 1), s)
           /\ Last(Over(n, Last(n) + 1)) = Last(n) + 1
<1> DEFINE m == Last(n) + 1
           z == Over(n, m)
<1>1. n \in Seq(Nat) /\ n # <<>> /\ Len(n) = Len(s) /\ Last(n) \in 0 .. Len(d.values[Last(c)].parts) /\ Last(n) \in Nat
      /\ Last(c) = c[Len(s)] /\ Last(c) \in 1 .. Len(d.values) /\ Len(s) \in Nat /\ Len(s) > 0
  <2>1. n \in Seq(Nat) /\ Len(n) = Len(s)
    BY DEF Surround
  <2>2. /\ n # <<>> /\ Last(n) \in 0 .. Len(d.values[Last(c)].parts) /\ Last(n) \in Nat
        /\ Last(c) = c[Len(s)] /\ Last(c) \in 1 .. Len(d.values) /\ Len(s) \in Nat /\ Len(s) > 0
    BY Innermost
  <2> QED
    BY <2>1, <2>2
<1>2. m \in Nat /\ m \in 0 .. Len(d.values[c[Len(s)]].parts)
  <2>1. Len(d.values[Last(c)].parts) \in Nat
    BY <1>1, DocumentTypes
  <2> QED
    BY <1>1, <2>1
<1> HIDE DEF m
<1>3. z \in Seq(Nat) /\ Len(z) = Len(s) /\ z[Len(s)] = m /\ Last(z) = m /\ \A i \in 1 .. Len(s) - 1 : z[i] = n[i]
  <2>1. /\ Over(n, m) \in Seq(Nat) /\ Len(Over(n, m)) = Len(n) /\ Over(n, m)[Len(n)] = m /\ Last(Over(n, m)) = m
        /\ \A i \in 1 .. Len(n) - 1 : Over(n, m)[i] = n[i]
    <3> DEFINE N == Nat
    <3>1. n \in Seq(N) /\ n # <<>> /\ m \in N
      BY <1>1, <1>2
    <3> HIDE DEF N
    <3>2. /\ Over(n, m) \in Seq(N) /\ Len(Over(n, m)) = Len(n) /\ Over(n, m)[Len(n)] = m /\ Last(Over(n, m)) = m
          /\ \A i \in 1 .. Len(n) - 1 : Over(n, m)[i] = n[i]
      BY <3>1, StackOver
    <3> QED
      BY <3>2 DEF N
  <2> QED
    BY <1>1, <2>1
<1> HIDE DEF z
<1>4. \A i \in 1 .. Len(s) : i = Len(s) \/ i \in 1 .. Len(s) - 1
  BY <1>1
<1>5. Surround(d, c, z, s)
  BY <1>2, <1>3, <1>4 DEF Surround
<1> QED
  BY <1>3, <1>5 DEF z, m

\* Its next part begins.
LEMMA Deeper ==
    ASSUME NEW d \in Documents, NEW c, NEW n, NEW s, Surround(d, c, n, s),
           Last(n) < Len(d.values[Last(c)].parts),
           Last(s) = Amid(d.values[Last(c)].kind), NEW t \in States
    PROVE  Surround(d, Append(c, d.values[Last(c)].parts[Last(n) + 1]), Append(n, 0), Append(s, t))
<1> DEFINE v == Last(c)
           k == Last(n)
           x == d.values[v]
           w == x.parts[k + 1]
           l == Len(s)
           c2 == Append(c, w)
           n2 == Append(n, 0)
           s2 == Append(s, t)
<1>1. /\ l \in Nat /\ l > 0 /\ v = c[l] /\ k = n[l] /\ Last(s) = s[l] /\ v \in 1 .. Len(d.values)
      /\ k \in Nat /\ k \in 0 .. Len(x.parts) /\ (l = 1 <=> x.kind = "top") /\ (l > 1 => Len(x.path) = l - 2)
  BY Innermost
<1>2. /\ c \in Seq(1 .. Len(d.values)) /\ n \in Seq(Nat) /\ s \in Seq(States) /\ Len(c) = l /\ Len(n) = l /\ c[1] = 1
      /\ \A i \in 1 .. l : n[i] \in 0 .. Len(d.values[c[i]].parts)
      /\ \A i \in 1 .. l - 1 : /\ n[i] < Len(d.values[c[i]].parts)
                               /\ c[i + 1] = d.values[c[i]].parts[n[i] + 1]
                               /\ s[i] = Amid(d.values[c[i]].kind)
      /\ \A i \in 2 .. l : Len(d.values[c[i]].path) = i - 2 /\ c[i] # 1
  BY DEF Surround
<1>3. k + 1 \in 1 .. Len(x.parts)
  <2>1. Len(x.parts) \in Nat
    BY <1>1, DocumentTypes
  <2> QED
    BY SMTT(30), <1>1, <2>1
<1>4. w \in 1 .. Len(d.values) /\ d.values[w].kind # "top"
  BY <1>1, <1>3, PartIs
<1>5. w # 1
  BY <1>4, DocumentTypes
<1>6. Len(d.values[w].path) = l - 1
  <2> DEFINE i == k + 1
  <2>1. i \in 1 .. Len(x.parts)
    BY <1>3
  <2> HIDE DEF i
  <2>2. /\ x.kind = "top" => d.values[x.parts[i]].path = <<>>
        /\ x.kind # "top" => Len(d.values[x.parts[i]].path) = Len(x.path) + 1
    BY ZenonT(30), <1>1, <2>1, PartPath
  <2>3. CASE l = 1
    BY <1>1, <2>2, <2>3 DEF i
  <2>4. CASE l # 1
    <3>1. l > 1
      <4>1. l \in Nat /\ l > 0
        BY SMTT(30), <1>1
      <4> HIDE DEF l
      <4> QED
        BY <2>4, <4>1
    <3>2. Len(x.path) = l - 2 /\ Len(d.values[w].path) = Len(x.path) + 1
      BY <1>1, <2>2, <2>4, <3>1 DEF i
    <3>3. l \in Nat
      BY <1>1
    <3> HIDE DEF l, x, w
    <3> QED
      BY <3>2, <3>3
  <2> QED
    BY <2>3, <2>4
<1>7. n[l] < Len(d.values[c[l]].parts) /\ w = d.values[c[l]].parts[n[l] + 1] /\ s[l] = Amid(d.values[c[l]].kind)
  BY <1>1
<1> HIDE DEF v, k, x, w, l
<1>8. Len(d.values[w].parts) \in Nat
  <2>1. d.values[w].parts \in Seq(Nat)
    BY <1>4, DocumentTypes
  <2> QED
    BY <2>1
<1>9. /\ c2 \in Seq(1 .. Len(d.values)) /\ Len(c2) = l + 1 /\ c2[l + 1] = w /\ \A i \in 1 .. l : c2[i] = c[i]
      /\ n2 \in Seq(Nat) /\ Len(n2) = l + 1 /\ n2[l + 1] = 0 /\ \A i \in 1 .. l : n2[i] = n[i]
      /\ s2 \in Seq(States) /\ Len(s2) = l + 1 /\ s2 # <<>> /\ \A i \in 1 .. l : s2[i] = s[i]
  <2>1. Len(s) = l
    BY DEF l
  <2>2. /\ c2 \in Seq(1 .. Len(d.values)) /\ Len(c2) = l + 1 /\ c2[l + 1] = w /\ \A i \in 1 .. l : c2[i] = c[i]
    BY <1>2, <1>4, StackPush
  <2>3. /\ n2 \in Seq(Nat) /\ Len(n2) = l + 1 /\ n2[l + 1] = 0 /\ \A i \in 1 .. l : n2[i] = n[i]
    BY <1>2, StackPush
  <2>4. /\ s2 \in Seq(States) /\ Len(s2) = l + 1 /\ s2 # <<>> /\ \A i \in 1 .. l : s2[i] = s[i]
    BY <1>2, <2>1, StackPush
  <2> QED
    BY <2>2, <2>3, <2>4
<1> HIDE DEF c2, n2, s2
<1>10. c2[1] = 1
  BY <1>1, <1>2, <1>9
<1>11. \A i \in 1 .. l + 1 : i = l + 1 \/ i \in 1 .. l
  BY <1>1
<1>12. ASSUME NEW i \in 1 .. l + 1 PROVE n2[i] \in 0 .. Len(d.values[c2[i]].parts)
  <2>1. CASE i = l + 1
    BY <1>8, <1>9, <2>1
  <2>2. CASE i \in 1 .. l
    BY <1>2, <1>9, <2>2
  <2> QED
    BY <1>11, <2>1, <2>2
<1>13. ASSUME NEW i \in 1 .. l
       PROVE  /\ n2[i] < Len(d.values[c2[i]].parts) /\ c2[i + 1] = d.values[c2[i]].parts[n2[i] + 1]
              /\ s2[i] = Amid(d.values[c2[i]].kind)
  <2>1. CASE i = l
    BY <1>1, <1>7, <1>9, <2>1
  <2>2. CASE i # l
    <3>1. i \in 1 .. l - 1 /\ i + 1 \in 1 .. l
      BY <1>1, <2>2
    <3> QED
      BY <1>2, <1>9, <3>1
  <2> QED
    BY <2>1, <2>2
<1>14. ASSUME NEW i \in 2 .. l + 1 PROVE Len(d.values[c2[i]].path) = i - 2 /\ c2[i] # 1
  <2>1. CASE i = l + 1
    BY <1>1, <1>5, <1>6, <1>9, <2>1
  <2>2. CASE i # l + 1
    <3>1. i \in 2 .. l /\ i \in 1 .. l
      BY <1>1, <2>2
    <3> QED
      BY <1>2, <1>9, <3>1
  <2> QED
    BY <2>1, <2>2
<1>15. Len(s2) - 1 = l
  BY <1>1, <1>9
<1>16. Surround(d, c2, n2, s2)
  <2>1. /\ c2 \in Seq(1 .. Len(d.values)) /\ n2 \in Seq(Nat) /\ s2 \in Seq(States)
        /\ Len(c2) = Len(s2) /\ Len(n2) = Len(s2) /\ s2 # <<>> /\ c2[1] = 1
    BY <1>9, <1>10
  <2>2. \A i \in 1 .. Len(s2) : n2[i] \in 0 .. Len(d.values[c2[i]].parts)
    BY <1>9, <1>12
  <2>3. \A i \in 1 .. Len(s2) - 1 : /\ n2[i] < Len(d.values[c2[i]].parts)
                                    /\ c2[i + 1] = d.values[c2[i]].parts[n2[i] + 1]
                                    /\ s2[i] = Amid(d.values[c2[i]].kind)
    BY <1>13, <1>15
  <2>4. \A i \in 2 .. Len(s2) : Len(d.values[c2[i]].path) = i - 2 /\ c2[i] # 1
    BY <1>9, <1>14
  <2> QED
    BY <2>1, <2>2, <2>3, <2>4 DEF Surround
<1> QED
  BY <1>16 DEF c2, n2, s2, w, x, v, k

\* It ends, and is the next part of the value around it that is behind.
LEMMA Outer ==
    ASSUME NEW d \in Documents, NEW c, NEW n, NEW s, Surround(d, c, n, s), Len(s) > 1
    PROVE  LET k == Last(Front(n)) + 1
               x == d.values[Last(Front(c))]
           IN  /\ Surround(d, Front(c), Over(Front(n), k), Front(s))
               /\ Last(Over(Front(n), k)) = k /\ k \in 1 .. Len(x.parts) /\ x.parts[k] = Last(c)
               /\ Last(Front(s)) = Amid(x.kind)
<1> DEFINE l == Len(s) - 1
           c2 == Front(c)
           n2 == Front(n)
           s2 == Front(s)
<1>1. /\ c \in Seq(1 .. Len(d.values)) /\ n \in Seq(Nat) /\ s \in Seq(States)
      /\ Len(s) \in Nat /\ Len(c) = Len(s) /\ Len(n) = Len(s) /\ c # <<>> /\ n # <<>> /\ s # <<>> /\ c[1] = 1
      /\ \A i \in 1 .. Len(s) : n[i] \in 0 .. Len(d.values[c[i]].parts)
      /\ \A i \in 1 .. Len(s) - 1 : /\ n[i] < Len(d.values[c[i]].parts)
                               /\ c[i + 1] = d.values[c[i]].parts[n[i] + 1]
                               /\ s[i] = Amid(d.values[c[i]].kind)
      /\ \A i \in 2 .. Len(s) : Len(d.values[c[i]].path) = i - 2 /\ c[i] # 1
      /\ Last(c) = c[Len(s)]
  <2>1. /\ c \in Seq(1 .. Len(d.values)) /\ n \in Seq(Nat) /\ s \in Seq(States)
        /\ Len(c) = Len(s) /\ Len(n) = Len(s) /\ s # <<>> /\ c[1] = 1
        /\ \A i \in 1 .. Len(s) : n[i] \in 0 .. Len(d.values[c[i]].parts)
        /\ \A i \in 1 .. Len(s) - 1 : /\ n[i] < Len(d.values[c[i]].parts)
                                 /\ c[i + 1] = d.values[c[i]].parts[n[i] + 1]
                                 /\ s[i] = Amid(d.values[c[i]].kind)
        /\ \A i \in 2 .. Len(s) : Len(d.values[c[i]].path) = i - 2 /\ c[i] # 1
    BY DEF Surround
  <2>2. Len(s) \in Nat /\ c # <<>> /\ n # <<>> /\ Last(c) = c[Len(s)]
    BY Innermost
  <2> QED
    BY <2>1, <2>2
<1>2. /\ l \in Nat /\ l > 0 /\ l \in 1 .. l /\ 1 \in 1 .. l /\ l + 1 = Len(s)
      /\ \A i \in 1 .. l : i \in 1 .. Len(s) /\ i \in 1 .. Len(s) - 1
      /\ \A i \in 1 .. l - 1 : i \in 1 .. l /\ i + 1 \in 1 .. l
      /\ \A i \in 2 .. l : i \in 1 .. l /\ i \in 2 .. Len(s)
  BY <1>1
<1>3. /\ c2 \in Seq(1 .. Len(d.values)) /\ Len(c2) = l /\ \A i \in 1 .. l : c2[i] = c[i]
      /\ n2 \in Seq(Nat) /\ Len(n2) = l /\ \A i \in 1 .. l : n2[i] = n[i]
      /\ s2 \in Seq(States) /\ Len(s2) = l /\ \A i \in 1 .. l : s2[i] = s[i]
  <2>1. c2 \in Seq(1 .. Len(d.values)) /\ Len(c2) = l /\ \A i \in 1 .. l : c2[i] = c[i]
    BY <1>1, StackFront
  <2>2. n2 \in Seq(Nat) /\ Len(n2) = l /\ \A i \in 1 .. l : n2[i] = n[i]
    BY Zenon, <1>1, StackFront
  <2>3. s2 \in Seq(States) /\ Len(s2) = l /\ \A i \in 1 .. l : s2[i] = s[i]
    BY <1>1, StackFront
  <2> QED
    BY <2>1, <2>2, <2>3
<1> HIDE DEF c2, n2, s2, l
<1>4. Surround(d, c2, n2, s2)
  <2>1. s2 # <<>> /\ c2[1] = 1
    BY <1>1, <1>2, <1>3
  <2>2. \A i \in 1 .. l : n2[i] \in 0 .. Len(d.values[c2[i]].parts)
    BY <1>1, <1>2, <1>3
  <2>3. \A i \in 1 .. l - 1 : /\ n2[i] < Len(d.values[c2[i]].parts)
                              /\ c2[i + 1] = d.values[c2[i]].parts[n2[i] + 1]
                              /\ s2[i] = Amid(d.values[c2[i]].kind)
    <3> SUFFICES ASSUME NEW i \in 1 .. l - 1
                 PROVE  /\ n2[i] < Len(d.values[c2[i]].parts)
                        /\ c2[i + 1] = d.values[c2[i]].parts[n2[i] + 1]
                        /\ s2[i] = Amid(d.values[c2[i]].kind)
      OBVIOUS
    <3>1. i \in 1 .. l /\ i + 1 \in 1 .. l /\ i \in 1 .. Len(s) - 1
      BY <1>2
    <3>2. n2[i] = n[i] /\ c2[i] = c[i] /\ s2[i] = s[i] /\ c2[i + 1] = c[i + 1]
      BY <1>3, <3>1
    <3> QED
      BY <1>1, <3>1, <3>2
  <2>4. \A i \in 2 .. l : Len(d.values[c2[i]].path) = i - 2 /\ c2[i] # 1
    <3> SUFFICES ASSUME NEW i \in 2 .. l PROVE Len(d.values[c2[i]].path) = i - 2 /\ c2[i] # 1
      OBVIOUS
    <3>1. i \in 1 .. l /\ i \in 2 .. Len(s)
      BY <1>2
    <3>2. c2[i] = c[i]
      BY <1>3, <3>1
    <3> QED
      BY <1>1, <3>1, <3>2
  <2> QED
    BY <1>3, <2>1, <2>2, <2>3, <2>4 DEF Surround
<1>5. Last(c2) = c[l] /\ Last(n2) = n[l] /\ Last(s2) = s[l]
  BY <1>2, <1>3 DEF Last
<1>6. /\ n[l] < Len(d.values[c[l]].parts) /\ c[l + 1] = d.values[c[l]].parts[n[l] + 1]
      /\ s[l] = Amid(d.values[c[l]].kind) /\ c[l + 1] = Last(c)
  BY <1>1, <1>2
<1>7. Last(n2) < Len(d.values[Last(c2)].parts)
  BY <1>5, <1>6
<1>8. Surround(d, c2, Over(n2, Last(n2) + 1), s2) /\ Last(Over(n2, Last(n2) + 1)) = Last(n2) + 1
  BY <1>4, <1>7, PartBehind
<1>9. Last(n2) + 1 \in 1 .. Len(d.values[Last(c2)].parts)
  <2>1. Last(n2) \in Nat /\ Last(c2) \in 1 .. Len(d.values)
    BY <1>4, Innermost
  <2>2. Len(d.values[Last(c2)].parts) \in Nat
    BY <2>1, DocumentTypes
  <2> QED
    BY <1>7, <2>1, <2>2
<1>10. d.values[Last(c2)].parts[Last(n2) + 1] = Last(c) /\ Last(s2) = Amid(d.values[Last(c2)].kind)
  BY <1>5, <1>6
<1> QED
  BY <1>8, <1>9, <1>10 DEF c2, n2, s2

-------------------------------------------------------------------------------
(* Where next is within the innermost value.                               *)

\* In state t, with path p and b tokens read, it is after the first k parts of value v, or after a key; it is
\* "idle", or within a call of next and the decoder has "more" or "less" for it.
TopAt(d, v, k, t, p, b, turn) ==
    LET x == d.values[v]
        BehindPart == k > 0 /\ b = Behind(d, v, k)
        PathThere  == d.values[x.parts[k]].path
    IN  \/ x.kind = "top" /\ t = "TopValue" /\ b = Behind(d, v, k) /\ p = <<>>
        \/ x.kind = "arr" /\ t = "ArrayStart" /\ k = 0 /\ b = x.first /\ p = Append(x.path, At(0)) /\ turn # "idle"
        \/ /\ x.kind = "arr" /\ t = "ArrayValue" /\ BehindPart
           /\ turn = "more" => p = Append(x.path, At(k))
           /\ turn # "more" => p = PathThere
        \/ x.kind = "obj" /\ t = "ObjectStart" /\ k = 0 /\ b = x.first /\ p = x.path /\ turn # "idle"
        \/ /\ x.kind = "obj" /\ t = "ObjectKey" /\ k < Len(x.parts) /\ b = Behind(d, v, k) + 1
           /\ p = d.values[x.parts[k + 1]].path /\ turn # "idle"
        \/ /\ x.kind = "obj" /\ t = "ObjectValue" /\ BehindPart
           /\ turn = "more" => p = x.path
           /\ turn # "more" => p = PathThere
        \/ /\ \/ x.kind = "arr" /\ t = "ArrayEnd"
              \/ x.kind = "obj" /\ t = "ObjectEnd"
           /\ k = Len(x.parts) /\ k > 0 /\ b = x.last /\ p = PathThere /\ turn = "idle"
        \/ /\ \/ x.kind = "arr" /\ t = "ArrayEmptyEnd"
              \/ x.kind = "obj" /\ t = "ObjectEmptyEnd"
           /\ x.parts = <<>> /\ b = x.last /\ p = x.path /\ turn = "idle"

\* What comes next: another part, its key, or the end.
ValueAhead(d, v, k, t, p, b) ==
    LET x == d.values[v]
        w == x.parts[k + 1]
    IN  /\ k < Len(x.parts) /\ d.values[w].first = b + 1 /\ p = d.values[w].path
        /\ \/ x.kind = "top" /\ t = "TopValue"
           \/ x.kind = "arr" /\ t \in {"ArrayStart", "ArrayValue"}
           \/ x.kind = "obj" /\ t = "ObjectKey"

KeyAhead(d, v, k, t, p, b) ==
    LET x == d.values[v]
        y == d.tokens[b + 1]
    IN  /\ k < Len(x.parts) /\ b = Behind(d, v, k) /\ p = x.path /\ y.role = "key" /\ IsText(y.text)
        /\ x.kind = "obj" /\ t \in {"ObjectStart", "ObjectValue"}

EndAhead(d, v, k, t, p, b) ==
    LET x == d.values[v]
    IN  /\ k = Len(x.parts) /\ x.last = b + 1
        /\ d.tokens[b + 1] = Tok("closes", v, IF x.kind = "arr" THEN "endArray" ELSE "endObject")
        /\ \/ x.kind = "arr" /\ t = "ArrayStart" /\ x.parts = <<>> /\ p = Append(x.path, At(0))
           \/ x.kind = "obj" /\ t = "ObjectStart" /\ x.parts = <<>> /\ p = x.path
           \/ /\ (x.kind = "arr" /\ t = "ArrayValue") \/ (x.kind = "obj" /\ t = "ObjectValue")
              /\ x.parts # <<>> /\ p = d.values[x.parts[k]].path

\* Delimiters, keys and atoms are told apart.
LEMMA TextsDiffer ==
    ASSUME NEW d \in Documents, NEW w \in 1 .. Len(d.values), d.values[w].kind \in {"arr", "obj", "atom"}
    PROVE  d.tokens[d.values[w].first].text \notin {"endArray", "endObject", BadChar}
<1> DEFINE y == d.values[w]
           t == d.tokens[y.first]
<1>1. /\ y.kind = "arr" => t = Tok("opens", w, "beginArray")
      /\ y.kind = "obj" => t = Tok("opens", w, "beginObject")
      /\ y.kind = "atom" => IsText(t.text)
  BY FirstToken
<1>2. Tok("opens", w, "beginArray").text = "beginArray" /\ Tok("opens", w, "beginObject").text = "beginObject"
  BY DEF Tok
<1>3. y.kind \in {"arr", "obj", "atom"}
  OBVIOUS
<1>4. t.text \notin {"endArray", "endObject", BadChar}
  <2> HIDE DEF t
  <2>1. CASE y.kind = "atom"
    BY <1>1, <2>1 DEF IsText, Delims
  <2>2. CASE y.kind = "arr"
    BY <1>1, <1>2, <2>2 DEF BadChar
  <2>3. CASE y.kind = "obj"
    BY <1>1, <1>2, <2>3 DEF BadChar
  <2> QED
    BY <1>3, <2>1, <2>2, <2>3
<1> QED
  BY <1>4

LEMMA TokenAhead ==
    ASSUME NEW d \in Documents, NEW v \in 1 .. Len(d.values), NEW k \in 0 .. Len(d.values[v].parts),
           NEW t, NEW p, NEW b \in Nat, b < Len(d.tokens), NEW turn,
           turn = IF d.tokens[b + 1].text \in {"endArray", "endObject"} THEN "less" ELSE "more", TopAt(d, v, k, t, p, b, turn)
    PROVE  /\ ValueAhead(d, v, k, t, p, b) \/ KeyAhead(d, v, k, t, p, b) \/ EndAhead(d, v, k, t, p, b)
           /\ d.tokens[b + 1].text # BadChar
<1> DEFINE x == d.values[v]
           w == x.parts[k + 1]
           y == d.tokens[b + 1]
<1>1. x.parts \in Seq(Nat) /\ x.path \in Seq(Step) /\ Len(x.parts) \in Nat /\ k \in Nat /\ k <= Len(x.parts)
  <2>1. x.parts \in Seq(Nat) /\ x.path \in Seq(Step)
    BY DocumentTypes
  <2>2. k \in 0 .. Len(x.parts)
    OBVIOUS
  <2> HIDE DEF x
  <2> QED
    BY <2>1, <2>2
<1>2. ASSUME k < Len(x.parts)
      PROVE  /\ w \in 1 .. Len(d.values) /\ d.values[w].kind \in {"arr", "obj", "atom"}
             /\ x.kind = "top" => d.values[w].path = <<>> /\ d.values[w].first = Behind(d, v, k) + 1
             /\ x.kind = "arr" => d.values[w].path = Append(x.path, At(k)) /\ d.values[w].first = Behind(d, v, k) + 1
             /\ x.kind = "obj" => d.values[w].first = Behind(d, v, k) + 2
  <2> DEFINE i == k + 1
  <2>1. i \in 1 .. Len(x.parts) /\ i - 1 = k
    <3>1. k \in Nat /\ Len(x.parts) \in Nat /\ k < Len(x.parts)
      BY <1>1, <1>2
    <3> HIDE DEF x
    <3> QED
      BY <3>1
  <2> HIDE DEF i
  <2>2. x.parts[i] \in 1 .. Len(d.values) /\ d.values[x.parts[i]].kind \in {"arr", "obj", "atom"}
    BY <2>1, PartIs
  <2>3. /\ x.kind = "top" => d.values[x.parts[i]].path = <<>> /\ d.values[x.parts[i]].first = Behind(d, v, i - 1) + 1
        /\ x.kind = "arr" => /\ d.values[x.parts[i]].path = Append(x.path, At(i - 1))
                             /\ d.values[x.parts[i]].first = Behind(d, v, i - 1) + 1
        /\ x.kind = "obj" => d.values[x.parts[i]].first = Behind(d, v, i - 1) + 2
    BY Zenon, <2>1, PartPath
  <2> QED
    BY Zenon, <2>1, <2>2, <2>3 DEF i
\* Before the next part.
<1>3. ASSUME d.values[w].first = b + 1, k < Len(x.parts) PROVE y.text \notin {"endArray", "endObject", BadChar} /\ turn = "more"
  BY Zenon, <1>2, <1>3, TextsDiffer
\* Between parts, and at the beginning.
<1>4. ASSUME b = Behind(d, v, k), x.kind # "atom"
      PROVE  /\ k = Len(x.parts) => /\ x.kind \in {"arr", "obj"} /\ x.last = b + 1 /\ turn = "less" /\ y.text # BadChar
                                    /\ y = Tok("closes", v, IF x.kind = "arr" THEN "endArray" ELSE "endObject")
             /\ k < Len(x.parts) /\ x.kind = "obj" => y.role = "key" /\ IsText(y.text) /\ turn = "more" /\ y.text # BadChar
  <2>1. /\ k = Len(x.parts) => /\ x.kind \in {"arr", "obj"} /\ x.last = b + 1
                               /\ y = Tok("closes", v, IF x.kind = "arr" THEN "endArray" ELSE "endObject")
        /\ k < Len(x.parts) /\ x.kind = "obj" => y.role = "key" /\ IsText(y.text)
    <3> HIDE DEF x
    <3> QED
      BY <1>4, NextToken DEF x
  <2>2. Tok("closes", v, "endArray").text = "endArray" /\ Tok("closes", v, "endObject").text = "endObject"
    BY DEF Tok
  <2>3. IsText(y.text) => y.text \notin {"endArray", "endObject", BadChar}
    BY DEF IsText, Delims
  <2> HIDE DEF x
  <2>4. k = Len(x.parts) => y.text \in {"endArray", "endObject"}
    <3> HIDE DEF y
    <3> QED
      BY <2>1, <2>2
  <2>5. k = Len(x.parts) => turn = "less" /\ y.text # BadChar
    BY <2>4 DEF BadChar
  <2>6. k < Len(x.parts) /\ x.kind = "obj" => turn = "more" /\ y.text # BadChar
    BY <2>1, <2>3
  <2> QED
    BY <2>1, <2>5, <2>6
<1>5. k < Len(x.parts) \/ k = Len(x.parts)
  <2> HIDE DEF x
  <2> QED
    BY <1>1
<1>6. k = 0 => Behind(d, v, k) = x.first
  BY DEF Behind
<1>7. k = Len(x.parts) => (k = 0 <=> x.parts = <<>>)
  <2> DEFINE ps == x.parts
  <2>1. ps \in Seq(Nat)
    BY <1>1
  <2> HIDE DEF ps
  <2>2. Len(ps) = 0 <=> ps = <<>>
    BY <2>1
  <2> QED
    BY <2>2 DEF ps
<1> DEFINE Goal == (ValueAhead(d, v, k, t, p, b) \/ KeyAhead(d, v, k, t, p, b) \/ EndAhead(d, v, k, t, p, b))
                    /\ y.text # BadChar
<1>8. ASSUME x.kind = "top", t = "TopValue", b = Behind(d, v, k), p = <<>> PROVE Goal
  <2>1. k < Len(x.parts)
    BY <1>4, <1>5, <1>8
  <2>2. ValueAhead(d, v, k, t, p, b)
    BY <1>2, <1>8, <2>1 DEF ValueAhead
  <2> QED
    BY <1>2, <1>3, <1>8, <2>1, <2>2
<1>9. ASSUME x.kind = "arr", t = "ArrayStart", k = 0, b = x.first, p = Append(x.path, At(0)) PROVE Goal
  <2>1. b = Behind(d, v, k)
    BY <1>6, <1>9
  <2>2. CASE k < Len(x.parts)
    <3>1. ValueAhead(d, v, k, t, p, b)
      BY Zenon, <1>2, <1>9, <2>1, <2>2 DEF ValueAhead
    <3> QED
      BY Zenon, <1>2, <1>3, <1>9, <2>1, <2>2, <3>1
  <2>3. CASE k = Len(x.parts)
    <3>1. EndAhead(d, v, k, t, p, b)
      BY <1>4, <1>7, <1>9, <2>1, <2>3 DEF EndAhead
    <3> QED
      BY <1>4, <1>9, <2>1, <2>3, <3>1
  <2> QED
    BY SMTT(30), <1>5, <2>2, <2>3
<1>10. ASSUME x.kind = "arr", t = "ArrayValue", k > 0, b = Behind(d, v, k),
              turn = "more" => p = Append(x.path, At(k)), turn # "more" => p = d.values[x.parts[k]].path
       PROVE  Goal
  <2>1. CASE k < Len(x.parts)
    <3>1. turn = "more" /\ y.text # BadChar
      BY <1>2, <1>3, <1>10, <2>1
    <3>2. ValueAhead(d, v, k, t, p, b)
      BY Zenon, <1>2, <1>10, <2>1, <3>1 DEF ValueAhead
    <3> QED
      BY SMTT(30), <3>1, <3>2
  <2>2. CASE k = Len(x.parts)
    <3>1. turn = "less" /\ y.text # BadChar
      BY Zenon, <1>4, <1>10, <2>2
    <3>2. EndAhead(d, v, k, t, p, b)
      <4>1. k # 0 /\ turn # "more"
        BY <1>10, <3>1
      <4> QED
        BY Zenon, <1>4, <1>7, <1>10, <2>2, <4>1 DEF EndAhead
    <3> QED
      BY <3>1, <3>2
  <2> QED
    BY <1>5, <2>1, <2>2
<1>11. ASSUME x.kind = "obj", t = "ObjectStart", k = 0, b = x.first, p = x.path PROVE Goal
  <2>1. b = Behind(d, v, k)
    BY <1>6, <1>11
  <2>2. CASE k < Len(x.parts)
    <3>1. KeyAhead(d, v, k, t, p, b)
      BY <1>4, <1>11, <2>1, <2>2 DEF KeyAhead
    <3> QED
      BY <1>4, <1>11, <2>1, <2>2, <3>1
  <2>3. CASE k = Len(x.parts)
    <3>1. EndAhead(d, v, k, t, p, b)
      BY <1>4, <1>7, <1>11, <2>1, <2>3 DEF EndAhead
    <3> QED
      BY <1>4, <1>11, <2>1, <2>3, <3>1
  <2> QED
    BY <1>5, <2>2, <2>3
<1>12. ASSUME x.kind = "obj", t = "ObjectKey", k < Len(x.parts), b = Behind(d, v, k) + 1,
              p = d.values[x.parts[k + 1]].path
       PROVE  Goal
  <2>1. d.values[w].first = b + 1
    <3>1. d.values[w].first = Behind(d, v, k) + 2 /\ d.values[w].first \in Nat
      BY Zenon, <1>2, <1>12, DocumentTypes
    <3> DEFINE f == d.values[w].first
               a == Behind(d, v, k)
    <3>2. f = a + 2 /\ f \in Nat /\ b = a + 1
      BY <1>12, <3>1
    <3>3. a \in Nat
      <4>1. CASE k = 0
        BY <4>1, DocumentTypes DEF Behind
      <4>2. CASE k # 0
        <5>1. k \in 1 .. Len(x.parts)
          <6> HIDE DEF x
          <6> QED
            BY <1>1, <4>2
        <5>2. x.parts[k] \in 1 .. Len(d.values)
          BY <5>1, PartIs
        <5> QED
          BY <4>2, <5>2, DocumentTypes DEF Behind
      <4> QED
        BY <4>1, <4>2
    <3>4. f = b + 1
      <4> HIDE DEF f, a
      <4> QED
        BY <3>2, <3>3
    <3> QED
      BY <3>4
  <2>2. ValueAhead(d, v, k, t, p, b)
    BY <1>12, <2>1 DEF ValueAhead
  <2> QED
    BY Zenon, <1>3, <1>12, <2>1, <2>2
<1>13. ASSUME x.kind = "obj", t = "ObjectValue", k > 0, b = Behind(d, v, k),
              turn = "more" => p = x.path, turn # "more" => p = d.values[x.parts[k]].path
       PROVE  Goal
  <2>1. CASE k < Len(x.parts)
    <3>1. turn = "more" /\ y.text # BadChar /\ y.role = "key" /\ IsText(y.text)
      BY <1>4, <1>13, <2>1
    <3>2. KeyAhead(d, v, k, t, p, b)
      BY <1>13, <2>1, <3>1 DEF KeyAhead
    <3> QED
      BY <3>1, <3>2
  <2>2. CASE k = Len(x.parts)
    <3>1. turn = "less" /\ y.text # BadChar
      BY Zenon, <1>4, <1>13, <2>2
    <3>2. EndAhead(d, v, k, t, p, b)
      BY ZenonT(30), <1>1, <1>4, <1>7, <1>13, <2>2, <3>1 DEF EndAhead
    <3> QED
      BY <3>1, <3>2
  <2> QED
    BY <1>5, <2>1, <2>2
<1> HIDE DEF Goal
<1>14. Goal
  BY <1>8, <1>9, <1>10, <1>11, <1>12, <1>13 DEF TopAt
<1> QED
  BY <1>14 DEF Goal

-------------------------------------------------------------------------------
(* What the tokens mean.                                                   *)

LEMMA LastToken ==
    ASSUME NEW d \in Documents, NEW w \in 1 .. Len(d.values), d.values[w].kind \in {"arr", "obj", "atom"}
    PROVE  LET y == d.values[w]
               t == d.tokens[y.last]
           IN  y.last \in 1 .. Len(d.tokens) /\ t.role \in {"closes", "atom"} /\ t.of = w
<1> DEFINE y == d.values[w]
           t == d.tokens[y.last]
<1>1. IsWritten(d, w) /\ y.last \in 1 .. Len(d.tokens)
  BY DocumentsAssumption DEF IsDocument
<1>2. \A e, f : Tok(e, w, f).role = e /\ Tok(e, w, f).of = w
  BY DEF Tok
<1>3. t.role \in {"closes", "atom"} /\ t.of = w
  <2>1. CASE y.kind = "arr"
    <3>1. t = Tok("closes", w, "endArray")
      BY <1>1, <2>1 DEF IsWritten
    <3> HIDE DEF t
    <3> QED
      BY <1>2, <3>1
  <2>2. CASE y.kind = "obj"
    <3>1. t = Tok("closes", w, "endObject")
      BY <1>1, <2>2 DEF IsWritten
    <3> HIDE DEF t
    <3> QED
      BY <1>2, <3>1
  <2>3. CASE y.kind = "atom"
    <3>1. t.role = "atom" /\ t.of = w
      BY <2>3, FirstToken
    <3> HIDE DEF t
    <3> QED
      BY <3>1
  <2> QED
    BY <2>1, <2>2, <2>3
<1> QED
  BY <1>1, <1>3

\* Where the document may be over.
LEMMA TopIsComplete ==
    ASSUME NEW d \in Documents, NEW v \in 1 .. Len(d.values), NEW k \in 0 .. Len(d.values[v].parts),
           NEW t, NEW p, NEW b \in Nat, NEW turn, turn # "idle", TopAt(d, v, k, t, p, b, turn)
    PROVE  t = "TopValue" <=> Complete(d, b)
<1> DEFINE x == d.values[v]
           w == x.parts[k]
<1>1. k \in Nat /\ (k # 0 => k \in 1 .. Len(x.parts)) /\ (k < Len(x.parts) => k + 1 \in 1 .. Len(x.parts))
  <2>1. k \in 0 .. Len(x.parts) /\ Len(x.parts) \in Nat
    <3>1. x.parts \in Seq(Nat)
      BY DocumentTypes
    <3> HIDE DEF x
    <3>2. Len(x.parts) \in Nat
      BY <3>1
    <3> QED
      BY <3>2 DEF x
  <2> HIDE DEF x
  <2> QED
    BY <2>1
<1>2. k # 0 => /\ w \in 1 .. Len(d.values) /\ d.values[w].kind \in {"arr", "obj", "atom"} /\ d.values[w].within = v
               /\ Behind(d, v, k) = d.values[w].last
  <2> SUFFICES ASSUME k # 0
               PROVE  /\ w \in 1 .. Len(d.values) /\ d.values[w].kind \in {"arr", "obj", "atom"}
                      /\ d.values[w].within = v /\ Behind(d, v, k) = d.values[w].last
    OBVIOUS
  <2>1. k \in 1 .. Len(x.parts)
    BY <1>1
  <2>2. w \in 1 .. Len(d.values) /\ d.values[w].kind \in {"arr", "obj", "atom"} /\ d.values[w].within = v
    <3>1. w = d.values[v].parts[k]
      OBVIOUS
    <3>2. k \in 1 .. Len(d.values[v].parts)
      BY <2>1
    <3> HIDE DEF w, x
    <3>3. w \in 1 .. Len(d.values)
      BY <3>2, <3>1, PartKind
    <3>4. d.values[w].kind \in {"arr", "obj", "atom"}
      BY <3>2, <3>1, PartKind
    <3>5. d.values[w].within = v
      BY <3>2, <3>1, PartKind
    <3> QED
      BY <3>3, <3>4, <3>5
  <2>3. Behind(d, v, k) = d.values[w].last
    BY DEF Behind
  <2> QED
    BY <2>2, <2>3
<1>3. k # 0 /\ b = Behind(d, v, k) =>
         b # 0 /\ d.tokens[b].role \in {"closes", "atom"} /\ d.values[d.tokens[b].of].within = v
  <2> SUFFICES ASSUME k # 0, b = Behind(d, v, k)
               PROVE  b # 0 /\ d.tokens[b].role \in {"closes", "atom"} /\ d.values[d.tokens[b].of].within = v
    OBVIOUS
  <2>1. /\ w \in 1 .. Len(d.values) /\ d.values[w].kind \in {"arr", "obj", "atom"} /\ d.values[w].within = v
        /\ b = d.values[w].last
    BY <1>2
  <2> HIDE DEF w
  <2>2. b \in 1 .. Len(d.tokens) /\ d.tokens[b].role \in {"closes", "atom"} /\ d.tokens[b].of = w
    BY <2>1, LastToken
  <2> QED
    BY <2>1, <2>2
<1>4. v # 1 => x.kind # "top"
  BY DocumentTypes
<1>5. x.kind = "top" => v = 1 /\ x.first = 0
  BY DocumentTypes
<1>6. ASSUME x.kind = "top", b = Behind(d, v, k) PROVE Complete(d, b)
  <2>1. CASE k = 0
    BY <1>5, <1>6, <2>1 DEF Behind, Complete
  <2>2. CASE k # 0
    BY <1>3, <1>5, <1>6, <2>2 DEF Complete
  <2> QED
    BY <2>1, <2>2
<1>7. x.kind \in {"arr", "obj"} => v # 1
  BY DocumentTypes
<1>8. ASSUME x.kind \in {"arr", "obj"}, k # 0, b = Behind(d, v, k) PROVE ~Complete(d, b)
  BY <1>3, <1>7, <1>8 DEF Complete
<1>9. ASSUME x.kind \in {"arr", "obj"}, b = x.first PROVE ~Complete(d, b)
  <2>1. b # 0 /\ d.tokens[b].role = "opens"
    <3>1. /\ x.first \in 1 .. Len(d.tokens)
          /\ d.tokens[x.first] = Tok("opens", v, "beginArray") \/ d.tokens[x.first] = Tok("opens", v, "beginObject")
      BY <1>9, FirstToken
    <3>2. Tok("opens", v, "beginArray").role = "opens" /\ Tok("opens", v, "beginObject").role = "opens"
      BY DEF Tok
    <3> DEFINE y == d.tokens[x.first]
    <3>3. y.role = "opens"
      <4>1. y = Tok("opens", v, "beginArray") \/ y = Tok("opens", v, "beginObject")
        BY <3>1
      <4> HIDE DEF y
      <4> QED
        BY <3>2, <4>1
    <3> QED
      BY <1>9, <3>1, <3>3
  <2> QED
    BY <2>1 DEF Complete
<1>10. ASSUME x.kind = "obj", k < Len(x.parts), b = Behind(d, v, k) + 1 PROVE ~Complete(d, b)
  <2>1. b # 0
    <3>1. Behind(d, v, k) \in Nat
      <4>1. CASE k = 0
        BY <4>1, DocumentTypes DEF Behind
      <4>2. CASE k # 0
        BY SMTT(30), <1>2, <4>2, DocumentTypes
      <4> QED
        BY <4>1, <4>2
    <3> QED
      BY <1>10, <3>1
  <2>2. d.tokens[b].role = "key"
    <3> DEFINE i == k + 1
    <3>1. i \in 1 .. Len(x.parts) /\ Behind(d, v, i - 1) + 1 = b
      <4>1. i - 1 = k
        BY <1>1
      <4>2. i \in 1 .. Len(x.parts)
        BY <1>1, <1>10
      <4> HIDE DEF i
      <4> QED
        BY <1>10, <4>1, <4>2
    <3> HIDE DEF i
    <3> QED
      BY <1>10, <3>1, PartPath
  <2> QED
    BY <2>1, <2>2 DEF Complete
<1>11. x.kind = "top" /\ t = "TopValue" /\ b = Behind(d, v, k) => t = "TopValue" /\ Complete(d, b)
  BY <1>6
<1>12. k > 0 => k # 0
  BY <1>1
<1> QED
  BY <1>8, <1>9, <1>10, <1>11, <1>12 DEF TopAt

-------------------------------------------------------------------------------
(* Stream: the invariant.                                                  *)

Turn == IF phase = "idle" THEN "idle" ELSE IF More THEN "more" ELSE "less"

\* The values c are around what comes next, each after n of its parts; b tokens have been read.
Here(c, n, b) ==
    /\ Surround(doc, c, n, states)
    /\ b \in 0 .. given
    /\ \E bad \in {<<>>, <<BadChar>>} : tokens = SubSeq(TextOf(doc), b + 1, given) \o bad
    /\ TopAt(doc, Last(c), Last(n), Last(states), path, b, Turn)
    /\ events = Known(doc, b)

StreamTypes ==
    /\ doc \in Documents
    /\ given \in 0 .. Len(doc.tokens)
    /\ states \in Seq(States)
    /\ phase \in {"idle", "loop", "over"}
    /\ err \in {"none", "EOF", "UnexpectedEOF", "SyntaxError"}

StreamInv ==
    /\ StreamTypes
    /\ phase # "over" => \E c, n, b : Here(c, n, b)
    /\ phase = "over" => events = Known(doc, given) /\ EndsWithinValue

-------------------------------------------------------------------------------
(* The tokens that are left.                                               *)

LEMMA Joined ==
    ASSUME NEW T, NEW s \in Seq(T), NEW z \in Seq(T)
    PROVE  /\ s \o z \in Seq(T) /\ Len(s \o z) = Len(s) + Len(z) /\ Len(s) \in Nat /\ Len(z) \in Nat
           /\ \A i \in 1 .. Len(s) : (s \o z)[i] = s[i]
           /\ \A i \in 1 .. Len(z) : (s \o z)[Len(s) + i] = z[i]
OBVIOUS

LEMMA SliceEmpty ==
    ASSUME NEW T, NEW u \in Seq(T), NEW bad \in Seq(T), NEW g \in 0 .. Len(u)
    PROVE  SubSeq(u, g + 1, g) \o bad = bad
<1> DEFINE s == SubSeq(u, g + 1, g)
<1>1. g \in Nat
  OBVIOUS
<1>2. s \in Seq(T) /\ Len(s) = IF g + 1 <= g THEN g - (g + 1) + 1 ELSE 0
  <2>1. g + 1 \in Int /\ g \in Int /\ \A i \in g + 1 .. g : u[i] \in T
    BY <1>1
  <2> QED
    BY <2>1, SubSeqProperties
<1> HIDE DEF s
<1>3. Len(s) = 0
  BY <1>1, <1>2
<1>4. s = <<>>
  BY <1>2, <1>3
<1>5. <<>> \o bad = bad
  OBVIOUS
<1> QED
  BY <1>4, <1>5 DEF s

LEMMA SliceStep ==
    ASSUME NEW T, NEW u \in Seq(T), NEW bad \in Seq(T), NEW g \in 0 .. Len(u), NEW b \in 0 .. g, b < g
    PROVE  /\ SubSeq(u, b + 1, g) \o bad # <<>> /\ Head(SubSeq(u, b + 1, g) \o bad) = u[b + 1]
           /\ Tail(SubSeq(u, b + 1, g) \o bad) = SubSeq(u, b + 2, g) \o bad
<1> DEFINE l == Len(u)
           s == SubSeq(u, b + 1, g)
<1>1. l \in Nat /\ g \in Nat /\ b \in Nat /\ b <= g /\ g <= l
  OBVIOUS
<1>2. Len(u) = l /\ \A i \in 1 .. l : u[i] \in T
  OBVIOUS
<1>3. bad \in Seq(T)
  OBVIOUS
<1> HIDE DEF l
<1>4. /\ s \in Seq(T) /\ Len(s) = g - b /\ \A i \in 1 .. g - b : s[i] = u[b + i]
  <2>1. /\ s \in Seq(T) /\ Len(s) = IF b + 1 <= g THEN g - (b + 1) + 1 ELSE 0
        /\ \A i \in 1 .. g - (b + 1) + 1 : s[i] = u[b + 1 + i - 1]
    <3>1. b + 1 \in Int /\ g \in Int /\ \A i \in b + 1 .. g : u[i] \in T
      BY <1>1, <1>2
    <3> QED
      BY <3>1, SubSeqProperties
  <2>2. g - (b + 1) + 1 = g - b /\ \A i \in 1 .. g - b : b + 1 + i - 1 = b + i
    BY <1>1
  <2>3. Len(s) = g - b
    BY <1>1, <2>1
  <2> HIDE DEF s
  <2>4. ASSUME NEW i \in 1 .. g - b PROVE s[i] = u[b + i]
    BY <2>1, <2>2
  <2> QED
    BY <2>1, <2>3, <2>4
<1>5. /\ s \o bad # <<>> /\ Head(s \o bad) = u[b + 1]
      /\ Tail(s \o bad) = SubSeq(u, b + 2, g) \o bad
  <2> DEFINE r == SubSeq(u, b + 2, g)
  <2>1. r \in Seq(T) /\ Len(r) = g - b - 1 /\ \A i \in 1 .. g - b - 1 : r[i] = u[b + 1 + i]
    <3>1. /\ r \in Seq(T) /\ Len(r) = IF b + 2 <= g THEN g - (b + 2) + 1 ELSE 0
          /\ \A i \in 1 .. g - (b + 2) + 1 : r[i] = u[b + 2 + i - 1]
      <4>1. b + 2 \in Int /\ g \in Int /\ \A i \in b + 2 .. g : u[i] \in T
        BY <1>1, <1>2
      <4> QED
        BY <4>1, SubSeqProperties
    <3>2. g - (b + 2) + 1 = g - b - 1 /\ \A i \in 1 .. g - b - 1 : b + 2 + i - 1 = b + 1 + i
      BY <1>1
    <3>3. Len(r) = g - b - 1
      BY <1>1, <3>1
    <3> HIDE DEF r
    <3>4. ASSUME NEW i \in 1 .. g - b - 1 PROVE r[i] = u[b + 1 + i]
      BY <3>1, <3>2
    <3> QED
      BY <3>1, <3>3, <3>4
  <2> HIDE DEF r, s
  <2> DEFINE z == s \o bad
  <2>2. /\ z \in Seq(T) /\ Len(z) = Len(s) + Len(bad) /\ \A i \in 1 .. Len(s) : z[i] = s[i]
        /\ \A i \in 1 .. Len(bad) : z[Len(s) + i] = bad[i]
        /\ Len(s) \in Nat /\ Len(bad) \in Nat
    <3>1. s \in Seq(T)
      BY <1>4
    <3> QED
      BY <1>3, <3>1, Joined
  <2> HIDE DEF z
  <2>3. z # <<>> /\ 1 \in 1 .. Len(s) /\ Len(s) = g - b /\ Len(s) > 0
    BY <1>1, <1>4, <2>2
  <2>4. Head(z) = u[b + 1]
    <3>1. Head(z) = s[1] /\ s[1] = u[b + 1]
      BY <1>4, <2>2, <2>3
    <3> QED
      BY <3>1
  <2>5. Tail(z) = r \o bad
    <3>1. Tail(z) \in Seq(T) /\ Len(Tail(z)) = Len(z) - 1 /\ \A i \in 1 .. Len(z) - 1 : Tail(z)[i] = z[i + 1]
      BY <2>2, <2>3
    <3>2. /\ r \o bad \in Seq(T) /\ Len(r \o bad) = Len(r) + Len(bad)
          /\ \A i \in 1 .. Len(r) : (r \o bad)[i] = r[i]
          /\ \A i \in 1 .. Len(bad) : (r \o bad)[Len(r) + i] = bad[i]
          /\ Len(r) \in Nat
      <4>1. r \in Seq(T)
        BY <2>1
      <4> QED
        BY <1>3, <4>1, Joined
    <3> DEFINE a == Tail(z)
               e == r \o bad
    <3>3. Len(a) = Len(e) /\ Len(e) = Len(r) + Len(bad) /\ Len(r) = Len(s) - 1 /\ Len(z) - 1 = Len(e)
      BY <1>1, <2>1, <2>2, <2>3, <3>1, <3>2
    <3>4. ASSUME NEW i \in 1 .. Len(e) PROVE a[i] = e[i]
      <4>1. a[i] = z[i + 1]
        BY <3>1, <3>3
      <4>2. CASE i <= Len(r)
        <5>1. i \in 1 .. g - b - 1 /\ i \in 1 .. Len(r) /\ i + 1 \in 1 .. g - b /\ b + 1 + i = b + (i + 1) /\ i + 1 \in 1 .. Len(s)
          BY <1>1, <2>1, <2>3, <4>2
        <5> DEFINE j == i + 1
        <5>2. j \in 1 .. g - b /\ j \in 1 .. Len(s) /\ b + 1 + i = b + j
          BY <5>1
        <5> HIDE DEF j, a, e
        <5>3. z[j] = s[j] /\ s[j] = u[b + j] /\ r[i] = u[b + 1 + i] /\ e[i] = r[i]
          BY <1>4, <2>1, <2>2, <3>2, <5>1, <5>2 DEF e
        <5> QED
          BY <4>1, <5>2, <5>3 DEF j
      <4>3. CASE i > Len(r)
        <5> DEFINE j == i - Len(r)
        <5>1. j \in 1 .. Len(bad) /\ i = Len(r) + j /\ i + 1 = Len(s) + j
          <6> DEFINE lr == Len(r)
                     lb == Len(bad)
                     ls == Len(s)
                     le == Len(e)
          <6>1. lr \in Nat /\ lb \in Nat /\ ls \in Nat /\ le = lr + lb /\ lr = ls - 1 /\ i \in 1 .. le /\ i > lr
            BY <2>2, <3>2, <3>3, <4>3
          <6>2. j = i - lr
            OBVIOUS
          <6> HIDE DEF lr, lb, ls, le, j
          <6>3. j \in 1 .. lb /\ i = lr + j /\ i + 1 = ls + j
            BY <6>1, <6>2
          <6> QED
            BY <6>3 DEF lr, lb, ls
        <5> HIDE DEF j, a, e
        <5>2. z[Len(s) + j] = bad[j] /\ e[Len(r) + j] = bad[j]
          BY <2>2, <3>2, <5>1 DEF e
        <5> QED
          BY <4>1, <5>1, <5>2
      <4>4. i <= Len(r) \/ i > Len(r)
        <5> DEFINE lr == Len(r)
        <5>1. lr \in Nat /\ i \in Int
          BY <3>2
        <5> HIDE DEF lr
        <5>2. i <= lr \/ i > lr
          BY <5>1
        <5> QED
          BY <5>2 DEF lr
      <4> HIDE DEF a, e
      <4> QED
        BY <4>2, <4>3, <4>4
    <3>5. a \in Seq(T) /\ e \in Seq(T)
      BY <3>1, <3>2
    <3> HIDE DEF a, e
    <3>6. a = e
      BY <3>3, <3>4, <3>5
    <3> QED
      BY <3>6 DEF a, e
  <2> QED
    BY <2>3, <2>4, <2>5 DEF z, r
<1> QED
  BY <1>5 DEF s

LEMMA TokensLeft ==
    ASSUME NEW d \in Documents, NEW g \in 0 .. Len(d.tokens), NEW b \in 0 .. g, NEW bad \in {<<>>, <<BadChar>>}
    PROVE  LET ts == SubSeq(TextOf(d), b + 1, g) \o bad
           IN  /\ b = g => ts = bad
               /\ b < g => /\ ts # <<>> /\ Head(ts) = d.tokens[b + 1].text
                           /\ Tail(ts) = SubSeq(TextOf(d), b + 2, g) \o bad
<1> DEFINE u == TextOf(d)
           l == Len(d.tokens)
           T == {u[i] : i \in 1 .. l} \cup {BadChar}
<1>1. l \in Nat /\ g \in 0 .. l
  BY DocumentTypes
<1>2. DOMAIN d.tokens = 1 .. l
  <2>1. d.tokens \in Seq(Token)
    BY DocumentTypes
  <2> QED
    BY <2>1
<1>3. u = [i \in 1 .. l |-> d.tokens[i].text]
  BY <1>2 DEF TextOf
<1>4. BadChar \in T /\ \A i \in 1 .. l : u[i] \in T
  OBVIOUS
<1> HIDE DEF u, T, l
<1>5. u \in [1 .. l -> T] /\ \A i \in 1 .. l : u[i] = d.tokens[i].text
  BY <1>3, <1>4
<1>6. u \in Seq(T) /\ Len(u) = l
  BY <1>1, <1>5
<1>7. bad \in Seq(T)
  <2>1. <<>> \in Seq(T) /\ <<BadChar>> \in Seq(T)
    BY <1>4
  <2> QED
    BY <2>1
<1>8. b < g => b + 1 \in 1 .. l
  BY <1>1
<1>9. /\ b = g => SubSeq(u, b + 1, g) \o bad = bad
      /\ b < g => /\ SubSeq(u, b + 1, g) \o bad # <<>> /\ Head(SubSeq(u, b + 1, g) \o bad) = u[b + 1]
                  /\ Tail(SubSeq(u, b + 1, g) \o bad) = SubSeq(u, b + 2, g) \o bad
  <2>1. g \in 0 .. Len(u) /\ b \in 0 .. g
    BY <1>1, <1>6
  <2> QED
    <3>1. ASSUME b = g PROVE SubSeq(u, b + 1, g) \o bad = bad
      BY <1>6, <1>7, <2>1, <3>1, SliceEmpty
    <3>2. ASSUME b < g
          PROVE  /\ SubSeq(u, b + 1, g) \o bad # <<>> /\ Head(SubSeq(u, b + 1, g) \o bad) = u[b + 1]
                 /\ Tail(SubSeq(u, b + 1, g) \o bad) = SubSeq(u, b + 2, g) \o bad
      BY ZenonT(30), <1>6, <1>7, <2>1, <3>2, SliceStep
    <3> QED
      BY <3>1, <3>2
<1>10. b < g => u[b + 1] = d.tokens[b + 1].text
  BY <1>5, <1>8
<1> QED
  BY <1>9, <1>10 DEF u

-------------------------------------------------------------------------------
(* What the next token does.                                               *)

ComesNext(d, v, k, w) == w = d.values[v].parts[k + 1]

\* A value that comes next is part k + 1, and begins with the next token.
LEMMA BeginsWhere ==
    ASSUME NEW d \in Documents, NEW v \in 1 .. Len(d.values), NEW k \in Nat, NEW t, NEW p, NEW b,
           ValueAhead(d, v, k, t, p, b), NEW w, ComesNext(d, v, k, w)
    PROVE  /\ w \in 1 .. Len(d.values) /\ d.values[w].first = b + 1 /\ p = d.values[w].path
           /\ k < Len(d.values[v].parts) /\ k + 1 \in 1 .. Len(d.values[v].parts)
<1> DEFINE y == d.values[w]
           l == Len(d.values[v].parts)
<1>1. k < l /\ y.first = b + 1 /\ p = y.path
  BY DEF ValueAhead, ComesNext
<1>2. l \in Nat
  <2>1. d.values[v].parts \in Seq(Nat)
    BY DocumentTypes
  <2> QED
    BY <2>1
<1>3. k + 1 \in 1 .. l
  <2> HIDE DEF l
  <2> QED
    BY <1>1, <1>2
<1>4. w \in 1 .. Len(d.values)
  <2> DEFINE i == k + 1
  <2>1. i \in 1 .. Len(d.values[v].parts) /\ w = d.values[v].parts[i]
    BY <1>3 DEF ComesNext
  <2> HIDE DEF i
  <2> QED
    BY <2>1, PartKind
<1> QED
  BY <1>1, <1>3, <1>4

LEMMA BeginsIn ==
    ASSUME NEW d \in Documents, NEW v \in 1 .. Len(d.values), NEW k \in Nat, NEW t, NEW p, NEW b,
           ValueAhead(d, v, k, t, p, b), NEW w, ComesNext(d, v, k, w)
    PROVE  w \in 1 .. Len(d.values) /\ d.values[w].kind \in {"arr", "obj", "atom"}
<1> DEFINE i == k + 1
<1>1. i \in 1 .. Len(d.values[v].parts) /\ w = d.values[v].parts[i]
  BY BeginsWhere DEF ComesNext
<1> HIDE DEF i
<1> QED
  BY <1>1, PartKind

LEMMA BeginsWith ==
    ASSUME NEW d \in Documents, NEW v \in 1 .. Len(d.values), NEW k \in Nat, NEW t, NEW p, NEW b,
           ValueAhead(d, v, k, t, p, b), NEW w, ComesNext(d, v, k, w)
    PROVE  /\ d.values[w].kind = "arr" => d.tokens[b + 1] = Tok("opens", w, "beginArray")
           /\ d.values[w].kind = "obj" => d.tokens[b + 1] = Tok("opens", w, "beginObject")
           /\ d.values[w].kind = "atom" => /\ d.tokens[b + 1].role = "atom" /\ d.tokens[b + 1].of = w
                                           /\ IsText(d.tokens[b + 1].text) /\ d.values[w].last = b + 1
<1> DEFINE y == d.values[w]
<1>1. w \in 1 .. Len(d.values) /\ y.kind \in {"arr", "obj", "atom"} /\ y.first = b + 1
  <2>1. w \in 1 .. Len(d.values) /\ y.kind \in {"arr", "obj", "atom"}
    BY BeginsIn
  <2>2. y.first = b + 1
    BY DEF ValueAhead, ComesNext
  <2> QED
    BY <2>1, <2>2
<1>2. /\ y.kind = "arr" => d.tokens[y.first] = Tok("opens", w, "beginArray")
      /\ y.kind = "obj" => d.tokens[y.first] = Tok("opens", w, "beginObject")
      /\ y.kind = "atom" => /\ d.tokens[y.first].role = "atom" /\ d.tokens[y.first].of = w
                            /\ IsText(d.tokens[y.first].text) /\ y.last = y.first
  BY <1>1, FirstToken
<1> QED
  BY <1>1, <1>2

\* A token is the beginning of a value, a key or the end of one, as what comes next is.
LEMMA TokenTells ==
    ASSUME NEW d \in Documents, NEW v \in 1 .. Len(d.values), NEW k \in Nat, NEW t, NEW p, NEW b,
           ValueAhead(d, v, k, t, p, b) \/ KeyAhead(d, v, k, t, p, b) \/ EndAhead(d, v, k, t, p, b)
    PROVE  LET w == d.values[v].parts[k + 1]
               y == d.tokens[b + 1]
           IN  /\ y.text = "beginArray" => ValueAhead(d, v, k, t, p, b) /\ d.values[w].kind = "arr"
               /\ y.text = "beginObject" => ValueAhead(d, v, k, t, p, b) /\ d.values[w].kind = "obj"
               /\ y.text = "endArray" => EndAhead(d, v, k, t, p, b) /\ d.values[v].kind = "arr"
               /\ y.text = "endObject" => EndAhead(d, v, k, t, p, b) /\ d.values[v].kind = "obj"
               /\ IsText(y.text) /\ t \in {"ObjectStart", "ObjectValue"} => KeyAhead(d, v, k, t, p, b)
               /\ IsText(y.text) /\ t \notin {"ObjectStart", "ObjectValue"} =>
                     ValueAhead(d, v, k, t, p, b) /\ d.values[w].kind = "atom"
<1> DEFINE w == d.values[v].parts[k + 1]
           y == d.tokens[b + 1]
           kd == d.values[w].kind
           kv == d.values[v].kind
           VA == ValueAhead(d, v, k, t, p, b)
           KA == KeyAhead(d, v, k, t, p, b)
           EA == EndAhead(d, v, k, t, p, b)
<1>1. \A e, f, g : Tok(e, f, g).text = g
  BY DEF Tok
<1>2. VA => /\ kd \in {"arr", "obj", "atom"}
            /\ kd = "arr" => y = Tok("opens", w, "beginArray")
            /\ kd = "obj" => y = Tok("opens", w, "beginObject")
            /\ kd = "atom" => IsText(y.text)
  <2> SUFFICES ASSUME ValueAhead(d, v, k, t, p, b)
               PROVE  /\ kd \in {"arr", "obj", "atom"}
                      /\ kd = "arr" => y = Tok("opens", w, "beginArray")
                      /\ kd = "obj" => y = Tok("opens", w, "beginObject")
                      /\ kd = "atom" => IsText(y.text)
    OBVIOUS
  <2>0. ComesNext(d, v, k, w)
    BY DEF ComesNext
  <2> HIDE DEF w
  <2>1. kd \in {"arr", "obj", "atom"}
    BY <2>0, BeginsIn
  <2>2. kd = "arr" => y = Tok("opens", w, "beginArray")
    BY <2>0, BeginsWith
  <2>3. kd = "obj" => y = Tok("opens", w, "beginObject")
    BY <2>0, BeginsWith
  <2>4. kd = "atom" => IsText(y.text)
    BY <2>0, BeginsWith
  <2> QED
    BY <2>1, <2>2, <2>3, <2>4
<1>3. VA => t \notin {"ObjectStart", "ObjectValue"}
  BY DEF ValueAhead
<1>4. KA => IsText(y.text) /\ t \in {"ObjectStart", "ObjectValue"}
  BY DEF KeyAhead
<1>5. EA => kv \in {"arr", "obj"} /\ y = Tok("closes", v, IF kv = "arr" THEN "endArray" ELSE "endObject")
  BY DEF EndAhead
<1>6. VA \/ KA \/ EA
  OBVIOUS
<1> HIDE DEF VA, KA, EA, kd, kv, y
<1>7. VA => /\ kd = "arr" => y.text = "beginArray"
            /\ kd = "obj" => y.text = "beginObject"
  BY <1>1, <1>2
<1>8. EA => y.text = IF kv = "arr" THEN "endArray" ELSE "endObject"
  BY <1>1, <1>5
<1>9. IsText(y.text) <=> y.text \notin Delims \cup {BadChar}
  BY DEF IsText
<1> HIDE DEF w
<1>10. /\ y.text = "beginArray" => VA /\ kd = "arr"
       /\ y.text = "beginObject" => VA /\ kd = "obj"
       /\ y.text = "endArray" => EA /\ kv = "arr"
       /\ y.text = "endObject" => EA /\ kv = "obj"
       /\ IsText(y.text) /\ t \in {"ObjectStart", "ObjectValue"} => KA
       /\ IsText(y.text) /\ t \notin {"ObjectStart", "ObjectValue"} => VA /\ kd = "atom"
  <2> DEFINE x == y.text
  <2>1. /\ VA => /\ kd \in {"arr", "obj", "atom"}
                 /\ kd = "arr" => x = "beginArray"
                 /\ kd = "obj" => x = "beginObject"
                 /\ kd = "atom" => IsText(x)
        /\ KA => IsText(x)
        /\ EA => kv \in {"arr", "obj"} /\ (x = IF kv = "arr" THEN "endArray" ELSE "endObject")
    BY <1>2, <1>4, <1>5, <1>7, <1>8
  <2>2. IsText(x) <=> x \notin {"beginArray", "endArray", "beginObject", "endObject", "bad"}
    BY <1>9 DEF Delims, BadChar
  <2> HIDE DEF x
  <2> QED
    BY <1>3, <1>4, <1>6, <2>1, <2>2 DEF x
<1> QED
  BY <1>10 DEF VA, KA, EA, kd, kv, w, y

-------------------------------------------------------------------------------
(* A value begins.                                                         *)

EnteredFrom(s) ==
    CASE Last(s) = "ArrayStart" -> Over(s, "ArrayValue")
      [] Last(s) = "ObjectKey" -> Over(s, "ObjectValue")
      [] OTHER -> s

LEMMA Entering ==
    ASSUME NEW d \in Documents, NEW c, NEW n, NEW s, NEW p, NEW b, Surround(d, c, n, s),
           ValueAhead(d, Last(c), Last(n), Last(s), p, b)
    PROVE  Surround(d, c, n, EnteredFrom(s)) /\ Last(EnteredFrom(s)) = Amid(d.values[Last(c)].kind)
<1> DEFINE x == d.values[Last(c)]
<1>1. \/ x.kind = "top" /\ Last(s) = "TopValue"
      \/ x.kind = "arr" /\ Last(s) \in {"ArrayStart", "ArrayValue"}
      \/ x.kind = "obj" /\ Last(s) = "ObjectKey"
  BY DEF ValueAhead
<1>2. "ArrayValue" \in States /\ "ObjectValue" \in States /\ s \in Seq(States) /\ s # <<>>
  BY DEF States, Surround
<1>3. \A t \in States : Last(Over(s, t)) = t
  BY <1>2, StackOver
<1>4. CASE Last(s) = "ArrayStart"
  <2>1. EnteredFrom(s) = Over(s, "ArrayValue")
    BY <1>4 DEF EnteredFrom
  <2>2. x.kind = "arr"
    BY <1>1, <1>4
  <2> QED
    BY <1>2, <1>3, <2>1, <2>2, StateChanged DEF Amid
<1>5. CASE Last(s) = "ObjectKey"
  <2>1. EnteredFrom(s) = Over(s, "ObjectValue")
    BY <1>5 DEF EnteredFrom
  <2>2. x.kind = "obj"
    BY <1>1, <1>5
  <2> QED
    BY <1>2, <1>3, <2>1, <2>2, StateChanged DEF Amid
<1>6. CASE Last(s) \notin {"ArrayStart", "ObjectKey"}
  <2>1. EnteredFrom(s) = s
    BY <1>6 DEF EnteredFrom
  <2>2. Last(s) = Amid(x.kind)
    BY <1>1, <1>6 DEF Amid
  <2> QED
    BY <2>1, <2>2
<1> QED
  BY <1>4, <1>5, <1>6

-------------------------------------------------------------------------------
(* Between two calls.                                                      *)

\* The path that a call goes on with.
Onward(t, p, turn) ==
    CASE turn = "more" /\ t = "ArrayValue" -> Front(p) \o <<At(Last(p)[2] + 1)>>
      [] turn = "more" /\ t = "ObjectValue" -> Front(p)
      [] OTHER -> p

LEMMA GoesOn ==
    ASSUME NEW d \in Documents, NEW v \in 1 .. Len(d.values), NEW k \in 1 .. Len(d.values[v].parts),
           NEW turn \in {"more", "less"}
    PROVE  LET x == d.values[v]
           IN  TopAt(d, v, k, Amid(x.kind), Onward(Amid(x.kind), d.values[x.parts[k]].path, turn),
                     Behind(d, v, k), turn)
<1> DEFINE x == d.values[v]
           q == d.values[x.parts[k]].path
           t == Amid(x.kind)
           b == Behind(d, v, k)
<1>1. /\ x.kind = "top" => q = <<>>
      /\ x.kind = "arr" => q = Append(x.path, At(k - 1))
      /\ x.kind # "top" => Front(q) = x.path
  BY PartPath
<1>2. x.kind \in {"top", "arr", "obj"} /\ x.path \in Seq(Step)
  BY PartIs, DocumentTypes
<1>3. k \in Nat /\ k > 0
  <2>1. Len(x.parts) \in Nat
    <3>1. x.parts \in Seq(Nat)
      BY DocumentTypes
    <3> QED
      BY <3>1
  <2> QED
    BY <2>1
<1>4. x.kind = "arr" => Front(q) \o <<At(Last(q)[2] + 1)>> = Append(x.path, At(k))
  <2> SUFFICES ASSUME x.kind = "arr" PROVE Front(q) \o <<At(Last(q)[2] + 1)>> = Append(x.path, At(k))
    BY Zenon
  <2>1. At(k - 1) \in Step /\ At(k) \in Step
    <3>1. k - 1 \in Nat
      BY <1>3
    <3> QED
      BY <1>3, <3>1 DEF At, Step
  <2> DEFINE r == x.path
             e == At(k - 1)
  <2>2. r \in Seq(Step) /\ e \in Step /\ q = Append(r, e) /\ Front(q) = r
    BY Zenon, <1>1, <1>2, <2>1
  <2> HIDE DEF r, e, q
  <2>3. Last(q) = e
    BY <2>2, StackPush
  <2>4. Last(q)[2] + 1 = k
    BY <1>3, <2>3 DEF e, At
  <2>5. r \o <<At(k)>> = Append(r, At(k))
    BY <2>1, <2>2
  <2> QED
    BY <2>2, <2>4, <2>5 DEF r
<1> HIDE DEF b, q
<1>5. CASE x.kind = "top"
  <2>1. t = "TopValue"
    BY <1>5 DEF Amid
  <2>2. Onward(t, q, turn) = <<>>
    BY <1>1, <1>5, <2>1 DEF Onward
  <2> HIDE DEF t
  <2>3. TopAt(d, v, k, t, Onward(t, q, turn), b, turn)
    BY <1>5, <2>1, <2>2 DEF TopAt, b
  <2> QED
    BY <2>3 DEF b, q, t
<1>6. CASE x.kind = "arr"
  <2>1. t = "ArrayValue"
    BY <1>6 DEF Amid
  <2>2. /\ turn = "more" => Onward(t, q, turn) = Append(x.path, At(k))
        /\ turn # "more" => Onward(t, q, turn) = q
    BY <1>4, <1>6, <2>1 DEF Onward
  <2> HIDE DEF t
  <2>3. TopAt(d, v, k, t, Onward(t, q, turn), b, turn)
    BY <1>3, <1>6, <2>1, <2>2 DEF TopAt, b, q
  <2> QED
    BY <2>3 DEF b, q, t
<1>7. CASE x.kind = "obj"
  <2>1. t = "ObjectValue"
    BY <1>7 DEF Amid
  <2>2. /\ turn = "more" => Onward(t, q, turn) = x.path
        /\ turn # "more" => Onward(t, q, turn) = q
    BY <1>1, <1>7, <2>1 DEF Onward
  <2> HIDE DEF t
  <2>3. TopAt(d, v, k, t, Onward(t, q, turn), b, turn)
    BY <1>3, <1>7, <2>1, <2>2 DEF TopAt, b, q
  <2> QED
    BY <2>3 DEF b, q, t
<1> QED
  BY SMTT(30), <1>2, <1>5, <1>6, <1>7

\* What is to be known of a state between two steps.
LEMMA Arrives ==
    ASSUME NEW d \in Documents, d = doc, StreamTypes, UNCHANGED <<doc, given, err>>, phase' \in {"idle", "loop"},
           NEW c, NEW n, NEW s, Surround(d, c, n, s), states' = s,
           NEW b \in 0 .. given, NEW bad \in {<<>>, <<BadChar>>}, tokens' = SubSeq(TextOf(d), b + 1, given) \o bad,
           TopAt(d, Last(c), Last(n), Last(s), path', b, Turn'), events' = Known(d, b)
    PROVE  StreamInv'
<1>1. StreamTypes'
  BY DEF StreamTypes, Surround
<1>2. Here(c, n, b)'
  BY DEF Here
<1>3. phase' # "over"
  OBVIOUS
<1> HIDE DEF Here
<1>4. (\E c_, n_, b_ : Here(c_, n_, b_))'
  BY <1>2
<1> QED
  BY <1>1, <1>3, <1>4 DEF StreamInv

\* Where next is in its loop, and what the decoder gives it.
Loops(c, n, b, bad, turn) ==
    LET d == doc
        v == Last(c)
        k == Last(n)
        y == d.tokens[b + 1]
    IN  /\ Surround(d, c, n, states) /\ TopAt(d, v, k, Top, path, b, turn) /\ turn # "idle" /\ events = Known(d, b)
        /\ v \in 1 .. Len(d.values) /\ k \in 0 .. Len(d.values[v].parts) /\ k \in Nat
        /\ b \in Nat /\ b \in 0 .. given
        /\ b = given => tokens = bad
        /\ b < given => /\ tokens # <<>> /\ Head(tokens) = y.text /\ y.text # BadChar /\ b + 1 \in 0 .. given
                        /\ Tail(tokens) = SubSeq(TextOf(d), b + 2, given) \o bad
                        /\ \/ ValueAhead(d, v, k, Top, path, b)
                           \/ KeyAhead(d, v, k, Top, path, b)
                           \/ EndAhead(d, v, k, Top, path, b)

LEMMA InLoop ==
    ASSUME StreamInv, phase = "loop"
    PROVE  \E c, n, b, turn : \E bad \in {<<>>, <<BadChar>>} : Loops(c, n, b, bad, turn)
<1> DEFINE d == doc
<1>1. d \in Documents /\ given \in 0 .. Len(d.tokens)
  BY DEF StreamInv, StreamTypes
<1>2. PICK c, n, b : Here(c, n, b)
  BY DEF StreamInv
<1>3. PICK bad \in {<<>>, <<BadChar>>} : tokens = SubSeq(TextOf(d), b + 1, given) \o bad
  BY <1>2 DEF Here
<1>4. /\ Surround(d, c, n, states) /\ b \in 0 .. given /\ events = Known(d, b)
      /\ TopAt(d, Last(c), Last(n), Last(states), path, b, Turn)
  BY <1>2 DEF Here
<1> DEFINE v == Last(c)
           k == Last(n)
           y == d.tokens[b + 1]
           turn == Turn
<1>5. v \in 1 .. Len(d.values) /\ k \in 0 .. Len(d.values[v].parts) /\ k \in Nat
  BY <1>1, <1>4, Innermost
<1>6. turn = IF More THEN "more" ELSE "less"
  BY DEF Turn
<1>7. Len(d.tokens) \in Nat
  BY <1>1, DocumentTypes
<1>8. b \in Nat /\ (b < given => b < Len(d.tokens) /\ b + 1 \in 0 .. given)
  BY <1>1, <1>4, <1>7
<1>9. /\ b = given => tokens = bad
      /\ b < given => tokens # <<>> /\ Head(tokens) = y.text /\ Tail(tokens) = SubSeq(TextOf(d), b + 2, given) \o bad
  BY <1>1, <1>3, <1>4, TokensLeft
<1> HIDE DEF d, v, k, turn
<1>10. ASSUME b < given
       PROVE  /\ y.text # BadChar
              /\ \/ ValueAhead(d, v, k, Top, path, b)
                 \/ KeyAhead(d, v, k, Top, path, b)
                 \/ EndAhead(d, v, k, Top, path, b)
  <2>1. turn = IF y.text \in {"endArray", "endObject"} THEN "less" ELSE "more"
    BY <1>6, <1>9, <1>10 DEF More
  <2>2. TopAt(d, v, k, Top, path, b, turn)
    BY <1>4 DEF Top, v, k, turn
  <2>3. b < Len(d.tokens)
    BY <1>8, <1>10
  <2> DEFINE tp == Top
  <2>4. TopAt(d, v, k, tp, path, b, turn)
    BY <2>2
  <2> HIDE DEF tp, y
  <2>5. /\ ValueAhead(d, v, k, tp, path, b) \/ KeyAhead(d, v, k, tp, path, b) \/ EndAhead(d, v, k, tp, path, b)
        /\ d.tokens[b + 1].text # BadChar
    BY <1>1, <1>5, <1>8, <2>1, <2>3, <2>4, TokenAhead DEF y
  <2> QED
    BY <2>5 DEF tp, y
<1>11. turn # "idle" /\ TopAt(d, v, k, Top, path, b, turn)
  BY <1>4, <1>6 DEF Top, v, k, turn
<1>12. Loops(c, n, b, bad, turn)
  BY <1>1, <1>4, <1>5, <1>8, <1>9, <1>10, <1>11 DEF Loops, d, v, k
<1> HIDE DEF y
<1> QED
  BY <1>12

\* A token is taken: what comes next was there.
LEMMA TokenTaken ==
    ASSUME StreamInv, Take, Head(tokens) # BadChar
    PROVE  \E c, n, b, turn : \E bad \in {<<>>, <<BadChar>>} :
              /\ Loops(c, n, b, bad, turn) /\ b < given
              /\ tokens' = SubSeq(TextOf(doc), b + 2, given) \o bad
<1>1. phase = "loop" /\ tokens # <<>> /\ tokens' = Tail(tokens)
  BY DEF Take
<1>2. PICK c, n, b, turn : \E bad \in {<<>>, <<BadChar>>} : Loops(c, n, b, bad, turn)
  BY <1>1, InLoop
<1>3. PICK bad \in {<<>>, <<BadChar>>} : Loops(c, n, b, bad, turn)
  BY <1>2
<1>4. b # given
  <2> SUFFICES ASSUME b = given PROVE FALSE
    OBVIOUS
  <2>1. tokens = bad
    BY <1>3 DEF Loops
  <2>2. Head(<<BadChar>>) = BadChar
    OBVIOUS
  <2> QED
    BY <1>1, <2>1, <2>2
<1>5. b < given
  <2>1. given \in Nat /\ b \in 0 .. given
    <3>1. doc \in Documents /\ given \in 0 .. Len(doc.tokens) /\ b \in 0 .. given
      BY <1>3 DEF StreamInv, StreamTypes, Loops
    <3>2. Len(doc.tokens) \in Nat
      BY <3>1, DocumentTypes
    <3> QED
      BY <3>1, <3>2
  <2> QED
    BY <1>4, <2>1
<1>6. tokens' = SubSeq(TextOf(doc), b + 2, given) \o bad
  BY <1>1, <1>3, <1>5 DEF Loops
<1> QED
  BY <1>3, <1>5, <1>6

\* A value begins within the innermost one.
LEMMA PartBegins ==
    ASSUME NEW d \in Documents, d = doc, NEW c, NEW n, NEW b, NEW turn, NEW bad \in {<<>>, <<BadChar>>},
           Loops(c, n, b, bad, turn), b < given, ValueAhead(d, Last(c), Last(n), Top, path, b), NEW t \in States,
           NEW w, ComesNext(d, Last(c), Last(n), w)
    PROVE  /\ Surround(d, Append(c, w), Append(n, 0), Append(Entered, t))
           /\ Last(Append(c, w)) = w /\ Last(Append(n, 0)) = 0 /\ Last(Append(Entered, t)) = t
           /\ w \in 1 .. Len(d.values) /\ d.values[w].first = b + 1 /\ d.values[w].path = path
           /\ d.values[w].kind = "arr" => d.tokens[b + 1] = Tok("opens", w, "beginArray")
           /\ d.values[w].kind = "obj" => d.tokens[b + 1] = Tok("opens", w, "beginObject")
<1> DEFINE v == Last(c)
           k == Last(n)
           e == EnteredFrom(states)
<1>1. /\ Surround(d, c, n, states) /\ v \in 1 .. Len(d.values) /\ k \in Nat /\ b \in Nat /\ ComesNext(d, v, k, w)
      /\ ValueAhead(d, v, k, Last(states), path, b)
  BY DEF Loops, Top
<1>2. Entered = e
  BY DEF Entered, EnteredFrom, WithTop, Over, Top
<1>3. Surround(d, c, n, e) /\ Last(e) = Amid(d.values[v].kind)
  BY <1>1, Entering
<1> DEFINE s == Last(states)
<1> DEFINE q == path
<1> HIDE DEF e, v, k, s, q
<1>4. /\ w \in 1 .. Len(d.values) /\ d.values[w].first = b + 1 /\ d.values[w].path = path
      /\ k < Len(d.values[v].parts)
      /\ d.values[w].kind = "arr" => d.tokens[b + 1] = Tok("opens", w, "beginArray")
      /\ d.values[w].kind = "obj" => d.tokens[b + 1] = Tok("opens", w, "beginObject")
  <2>0. ValueAhead(d, v, k, s, q, b)
    BY <1>1 DEF v, k, s, q
  <2>1. w \in 1 .. Len(d.values) /\ d.values[w].first = b + 1 /\ d.values[w].path = q /\ k < Len(d.values[v].parts)
    <3>1. w \in 1 .. Len(d.values)
      BY <1>1, <2>0, BeginsIn
    <3>2. d.values[w].first = b + 1 /\ d.values[w].path = q /\ k < Len(d.values[v].parts)
      BY <1>1, <2>0 DEF ValueAhead, ComesNext
    <3> QED
      BY <3>1, <3>2
  <2>2. d.values[w].kind = "arr" => d.tokens[b + 1] = Tok("opens", w, "beginArray")
    BY <1>1, <2>0, BeginsWith
  <2>3. d.values[w].kind = "obj" => d.tokens[b + 1] = Tok("opens", w, "beginObject")
    BY <1>1, <2>0, BeginsWith
  <2> QED
    BY <2>1, <2>2, <2>3 DEF q
<1>5. Surround(d, Append(c, w), Append(n, 0), Append(e, t))
  BY <1>3, <1>4, Deeper DEF v, k, ComesNext
<1>6. c \in Seq(1 .. Len(d.values)) /\ n \in Seq(Nat) /\ e \in Seq(States)
  BY <1>3 DEF Surround
<1>7. Last(Append(c, w)) = w /\ Last(Append(n, 0)) = 0 /\ Last(Append(e, t)) = t
  <2>1. Last(Append(c, w)) = w
    BY <1>4, <1>6, StackPush
  <2>2. Last(Append(n, 0)) = 0
    BY <1>6, StackPush
  <2>3. Last(Append(e, t)) = t
    BY <1>6, StackPush
  <2> QED
    BY <2>1, <2>2, <2>3
<1> QED
  BY <1>2, <1>4, <1>5, <1>7

LEMMA NoEvent ==
    ASSUME NEW d \in Documents, NEW b \in Nat, d.tokens[b + 1].role \in {"opens", "key"}
    PROVE  Known(d, b + 1) = Known(d, b)
<1>1. EventsAt(d, b + 1) = <<>>
  BY DEF EventsAt
<1> QED
  BY SMTT(30), <1>1, KnownStep

LEMMA ArrayOpens ==
    ASSUME StreamInv, OpenArray
    PROVE  StreamInv'
<1> DEFINE d == doc
<1>1. /\ Take /\ Head(tokens) = "beginArray" /\ states' = Append(Entered, "ArrayStart") /\ path' = Append(path, At(0))
      /\ events' = events /\ phase' = phase
  BY DEF OpenArray, Continue
<1>2. phase = "loop" /\ UNCHANGED <<doc, given, err>> /\ StreamTypes /\ d \in Documents
  BY <1>1 DEF Take, StreamInv, StreamTypes
<1>3. Head(tokens) # BadChar
  BY <1>1 DEF BadChar
<1>4. PICK c, n, b, turn : \E bad \in {<<>>, <<BadChar>>} :
          Loops(c, n, b, bad, turn) /\ b < given /\ tokens' = SubSeq(TextOf(doc), b + 2, given) \o bad
  BY <1>1, <1>3, TokenTaken
<1>5. PICK bad \in {<<>>, <<BadChar>>} :
          Loops(c, n, b, bad, turn) /\ b < given /\ tokens' = SubSeq(TextOf(doc), b + 2, given) \o bad
  BY <1>4
<1> DEFINE v == Last(c)
           k == Last(n)
           w == d.values[v].parts[k + 1]
           c2 == Append(c, w)
           n2 == Append(n, 0)
           s2 == Append(Entered, "ArrayStart")
           a == b + 1
<1>6. /\ v \in 1 .. Len(d.values) /\ k \in Nat /\ b \in Nat /\ events = Known(d, b) /\ d.tokens[b + 1].text = "beginArray"
      /\ ValueAhead(d, v, k, Top, path, b) \/ KeyAhead(d, v, k, Top, path, b) \/ EndAhead(d, v, k, Top, path, b)
      /\ a \in 0 .. given
  BY <1>1, <1>5 DEF Loops
<1>7. ValueAhead(d, v, k, Top, path, b) /\ d.values[w].kind = "arr"
  BY <1>2, <1>6, TokenTells
<1>8. "ArrayStart" \in States
  BY DEF States
<1>9. /\ Surround(d, c2, n2, s2) /\ Last(c2) = w /\ Last(n2) = 0 /\ Last(s2) = "ArrayStart"
      /\ w \in 1 .. Len(d.values) /\ d.values[w].first = a /\ d.values[w].path = path
      /\ d.tokens[a] = Tok("opens", w, "beginArray")
  <2>0. d = doc /\ ComesNext(d, Last(c), Last(n), w)
    BY DEF ComesNext
  <2> HIDE DEF d, w
  <2>1. /\ Surround(d, c2, n2, s2) /\ Last(c2) = w /\ Last(n2) = 0 /\ Last(s2) = "ArrayStart"
    BY <1>2, <1>5, <1>7, <1>8, <2>0, PartBegins
  <2>2. w \in 1 .. Len(d.values) /\ d.values[w].first = a /\ d.values[w].path = path
    BY <1>2, <1>5, <1>7, <1>8, <2>0, PartBegins
  <2>3. d.tokens[a] = Tok("opens", w, "beginArray")
    BY <1>2, <1>5, <1>7, <1>8, <2>0, PartBegins
  <2> QED
    BY <2>1, <2>2, <2>3
<1>10. Turn' # "idle" /\ phase' \in {"idle", "loop"}
  BY <1>1, <1>2 DEF Turn
<1>11. events' = Known(d, a)
  <2>1. d.tokens[b + 1].role = "opens"
    BY <1>9 DEF Tok
  <2> QED
    BY <1>1, <1>2, <1>6, <2>1, NoEvent
<1>12. tokens' = SubSeq(TextOf(d), a + 1, given) \o bad
  <2>1. a + 1 = b + 2
    BY <1>6
  <2> QED
    BY <1>5, <2>1
<1> DEFINE q == path'
           tn == Turn'
<1> HIDE DEF c2, n2, s2, a, w, d
<1>13. TopAt(d, w, 0, "ArrayStart", q, a, tn)
  BY <1>1, <1>7, <1>9, <1>10 DEF TopAt
<1>14. TopAt(d, Last(c2), Last(n2), Last(s2), path', a, Turn')
  BY <1>9, <1>13
<1>15. states' = s2 /\ d = doc
  BY <1>1 DEF s2, d
<1> QED
  BY <1>2, <1>6, <1>9, <1>10, <1>11, <1>12, <1>14, <1>15, Arrives

LEMMA ObjectOpens ==
    ASSUME StreamInv, OpenObject
    PROVE  StreamInv'
<1> DEFINE d == doc
<1>1. /\ Take /\ Head(tokens) = "beginObject" /\ states' = Append(Entered, "ObjectStart") /\ path' = path
      /\ events' = events /\ phase' = phase
  BY DEF OpenObject, Continue
<1>2. phase = "loop" /\ UNCHANGED <<doc, given, err>> /\ StreamTypes /\ d \in Documents
  BY <1>1 DEF Take, StreamInv, StreamTypes
<1>3. Head(tokens) # BadChar
  BY <1>1 DEF BadChar
<1>4. PICK c, n, b, turn : \E bad \in {<<>>, <<BadChar>>} :
          Loops(c, n, b, bad, turn) /\ b < given /\ tokens' = SubSeq(TextOf(doc), b + 2, given) \o bad
  BY <1>1, <1>3, TokenTaken
<1>5. PICK bad \in {<<>>, <<BadChar>>} :
          Loops(c, n, b, bad, turn) /\ b < given /\ tokens' = SubSeq(TextOf(doc), b + 2, given) \o bad
  BY <1>4
<1> DEFINE v == Last(c)
           k == Last(n)
           w == d.values[v].parts[k + 1]
           c2 == Append(c, w)
           n2 == Append(n, 0)
           s2 == Append(Entered, "ObjectStart")
           a == b + 1
<1>6. /\ v \in 1 .. Len(d.values) /\ k \in Nat /\ b \in Nat /\ events = Known(d, b) /\ d.tokens[b + 1].text = "beginObject"
      /\ ValueAhead(d, v, k, Top, path, b) \/ KeyAhead(d, v, k, Top, path, b) \/ EndAhead(d, v, k, Top, path, b)
      /\ a \in 0 .. given
  BY <1>1, <1>5 DEF Loops
<1>7. ValueAhead(d, v, k, Top, path, b) /\ d.values[w].kind = "obj"
  BY <1>2, <1>6, TokenTells
<1>8. "ObjectStart" \in States
  BY DEF States
<1>9. /\ Surround(d, c2, n2, s2) /\ Last(c2) = w /\ Last(n2) = 0 /\ Last(s2) = "ObjectStart"
      /\ w \in 1 .. Len(d.values) /\ d.values[w].first = a /\ d.values[w].path = path
      /\ d.tokens[a] = Tok("opens", w, "beginObject")
  <2>0. d = doc /\ ComesNext(d, Last(c), Last(n), w)
    BY DEF ComesNext
  <2> HIDE DEF d, w
  <2>1. /\ Surround(d, c2, n2, s2) /\ Last(c2) = w /\ Last(n2) = 0 /\ Last(s2) = "ObjectStart"
    BY <1>2, <1>5, <1>7, <1>8, <2>0, PartBegins
  <2>2. w \in 1 .. Len(d.values) /\ d.values[w].first = a /\ d.values[w].path = path
    BY <1>2, <1>5, <1>7, <1>8, <2>0, PartBegins
  <2>3. d.tokens[a] = Tok("opens", w, "beginObject")
    BY <1>2, <1>5, <1>7, <1>8, <2>0, PartBegins
  <2> QED
    BY <2>1, <2>2, <2>3
<1>10. Turn' # "idle" /\ phase' \in {"idle", "loop"}
  BY <1>1, <1>2 DEF Turn
<1>11. events' = Known(d, a)
  <2>1. d.tokens[b + 1].role = "opens"
    BY <1>9 DEF Tok
  <2> QED
    BY <1>1, <1>2, <1>6, <2>1, NoEvent
<1>12. tokens' = SubSeq(TextOf(d), a + 1, given) \o bad
  <2>1. a + 1 = b + 2
    BY <1>6
  <2> QED
    BY <1>5, <2>1
<1> DEFINE q == path'
           tn == Turn'
<1> HIDE DEF c2, n2, s2, a, w, d
<1>13. TopAt(d, w, 0, "ObjectStart", q, a, tn)
  BY <1>1, <1>7, <1>9, <1>10 DEF TopAt
<1>14. TopAt(d, Last(c2), Last(n2), Last(s2), path', a, Turn')
  BY <1>9, <1>13
<1>15. states' = s2 /\ d = doc
  BY <1>1 DEF s2, d
<1> QED
  BY <1>2, <1>6, <1>9, <1>10, <1>11, <1>12, <1>14, <1>15, Arrives

LEMMA ArrayCloses ==
    ASSUME StreamInv, CloseArray
    PROVE  StreamInv'
<1> DEFINE d == doc
<1>1. Take /\ Head(tokens) = "endArray" /\ phase' = "idle"
  BY DEF CloseArray, Return
<1>2. phase = "loop" /\ UNCHANGED <<doc, given, err>> /\ StreamTypes /\ d \in Documents
  BY <1>1 DEF Take, StreamInv, StreamTypes
<1>3. Head(tokens) # BadChar
  BY <1>1 DEF BadChar
<1>4. PICK c, n, b, turn : \E bad \in {<<>>, <<BadChar>>} :
          Loops(c, n, b, bad, turn) /\ b < given /\ tokens' = SubSeq(TextOf(doc), b + 2, given) \o bad
  BY <1>1, <1>3, TokenTaken
<1>5. PICK bad \in {<<>>, <<BadChar>>} :
          Loops(c, n, b, bad, turn) /\ b < given /\ tokens' = SubSeq(TextOf(doc), b + 2, given) \o bad
  BY <1>4
<1> DEFINE v == Last(c)
           k == Last(n)
           x == d.values[v]
           a == b + 1
           t == Top
           p == path
<1>6. /\ v \in 1 .. Len(d.values) /\ k \in Nat /\ b \in Nat /\ events = Known(d, b) /\ d.tokens[b + 1].text = "endArray"
      /\ ValueAhead(d, v, k, t, p, b) \/ KeyAhead(d, v, k, t, p, b) \/ EndAhead(d, v, k, t, p, b)
      /\ a \in 0 .. given /\ k \in 0 .. Len(x.parts) /\ Surround(d, c, n, states)
  BY <1>1, <1>5 DEF Loops
<1>7. EndAhead(d, v, k, t, p, b) /\ x.kind = "arr"
  <2> HIDE DEF v, k, t, p, d
  <2> QED
    BY <1>2, <1>6, TokenTells
<1>8. x.path \in Seq(Step) /\ x.parts \in Seq(Nat)
  BY <1>2, <1>6, DocumentTypes
<1>9. states \in Seq(States) /\ states # <<>>
  BY <1>6 DEF Surround
<1>10. tokens' = SubSeq(TextOf(d), a + 1, given) \o bad
  <2>1. a + 1 = b + 2
    BY <1>6
  <2> QED
    BY <1>5, <2>1
<1>11. d.tokens[a] = Tok("closes", v, "endArray") /\ x.last = a /\ k = Len(x.parts)
  BY <1>7 DEF EndAhead
<1>12. d.tokens[a].role = "closes" /\ d.tokens[a].of = v
  BY <1>11 DEF Tok
<1> DEFINE s2 == states'
           q == path'
\* Nothing was in it.
<1>13. CASE Top = "ArrayStart"
  <2>1. states' = Over(states, "ArrayEmptyEnd") /\ path' = Front(path) /\ events' = Append(events, Leaf(path', <<"arr", <<>>>>))
    BY <1>13 DEF CloseArray, WithTop, Over, Return
  <2>2. x.parts = <<>> /\ path = Append(x.path, At(0))
    BY <1>7, <1>13 DEF EndAhead
  <2>3. path' = x.path
    <3>1. At(0) \in Step
      BY DEF At, Step
    <3> HIDE DEF x
    <3> QED
      BY <1>8, <2>1, <2>2, <3>1, StackPush
  <2>4. "ArrayEmptyEnd" \in States
    BY DEF States
  <2>5. Surround(d, c, n, s2) /\ Last(s2) = "ArrayEmptyEnd"
    BY <1>2, <1>6, <1>9, <2>1, <2>4, StateChanged, StackOver
  <2>6. events' = Known(d, a)
    <3>1. EventsAt(d, a) = <<Event(x.path, <<"arr", <<>>>>)>>
      BY <1>7, <1>12, <2>2 DEF EventsAt
    <3>2. Leaf(path', <<"arr", <<>>>>) = Event(x.path, <<"arr", <<>>>>)
      BY <2>3 DEF Leaf, Event
    <3> HIDE DEF x, d
    <3> QED
      BY <1>6, <2>1, <3>1, <3>2, KnownStep
  <2>7. TopAt(d, v, k, "ArrayEmptyEnd", path', a, "idle")
    BY <1>7, <1>11, <2>2, <2>3 DEF TopAt
  <2>8. Turn' = "idle"
    BY <1>1 DEF Turn
  <2>9. TopAt(d, Last(c), Last(n), Last(s2), path', a, Turn')
    BY <2>5, <2>7, <2>8
  <2> HIDE DEF d, a, s2
  <2>10. d = doc /\ states' = s2
    BY DEF d, s2
  <2> QED
    BY <1>1, <1>2, <1>6, <1>10, <2>5, <2>6, <2>9, <2>10, Arrives
\* Something was.
<1>14. CASE Top # "ArrayStart"
  <2>1. states' = Over(states, "ArrayEnd") /\ path' = path /\ events' = Append(events, Closing(path))
    BY <1>14 DEF CloseArray, WithTop, Over, Return
  <2>2. x.parts # <<>> /\ path = d.values[x.parts[k]].path
    BY <1>7, <1>14 DEF EndAhead
  <2>3. "ArrayEnd" \in States
    BY DEF States
  <2>4. Surround(d, c, n, s2) /\ Last(s2) = "ArrayEnd"
    BY <1>2, <1>6, <1>9, <2>1, <2>3, StateChanged, StackOver
  <2>5. k > 0 /\ Last(x.parts) = x.parts[k]
    <3> DEFINE ps == x.parts
    <3>1. ps \in Seq(Nat) /\ ps # <<>> /\ k = Len(ps)
      BY <1>8, <1>11, <2>2
    <3> HIDE DEF ps, k
    <3>2. k > 0 /\ Last(ps) = ps[k]
      BY <3>1 DEF Last
    <3> QED
      BY <3>2 DEF ps
  <2>6. events' = Known(d, a)
    <3>1. EventsAt(d, a) = <<Event(d.values[Last(x.parts)].path, <<>>)>>
      BY <1>12, <2>2 DEF EventsAt
    <3>2. Closing(path) = Event(d.values[Last(x.parts)].path, <<>>)
      BY <2>2, <2>5 DEF Closing, Event
    <3> HIDE DEF x, d
    <3> QED
      BY <1>6, <2>1, <3>1, <3>2, KnownStep
  <2>7. TopAt(d, v, k, "ArrayEnd", path', a, "idle")
    BY Zenon, <1>7, <1>11, <2>1, <2>2, <2>5 DEF TopAt
  <2>8. Turn' = "idle"
    BY <1>1 DEF Turn
  <2>9. TopAt(d, Last(c), Last(n), Last(s2), path', a, Turn')
    BY <2>4, <2>7, <2>8
  <2> HIDE DEF d, a, s2
  <2>10. d = doc /\ states' = s2
    BY DEF d, s2
  <2> QED
    BY <1>1, <1>2, <1>6, <1>10, <2>4, <2>6, <2>9, <2>10, Arrives
<1> QED
  BY <1>13, <1>14

LEMMA ObjectCloses ==
    ASSUME StreamInv, CloseObject
    PROVE  StreamInv'
<1> DEFINE d == doc
<1>1. Take /\ Head(tokens) = "endObject" /\ phase' = "idle"
  BY DEF CloseObject, Return
<1>2. phase = "loop" /\ UNCHANGED <<doc, given, err>> /\ StreamTypes /\ d \in Documents
  BY <1>1 DEF Take, StreamInv, StreamTypes
<1>3. Head(tokens) # BadChar
  BY <1>1 DEF BadChar
<1>4. PICK c, n, b, turn : \E bad \in {<<>>, <<BadChar>>} :
          Loops(c, n, b, bad, turn) /\ b < given /\ tokens' = SubSeq(TextOf(doc), b + 2, given) \o bad
  BY <1>1, <1>3, TokenTaken
<1>5. PICK bad \in {<<>>, <<BadChar>>} :
          Loops(c, n, b, bad, turn) /\ b < given /\ tokens' = SubSeq(TextOf(doc), b + 2, given) \o bad
  BY <1>4
<1> DEFINE v == Last(c)
           k == Last(n)
           x == d.values[v]
           a == b + 1
           t == Top
           p == path
<1>6. /\ v \in 1 .. Len(d.values) /\ k \in Nat /\ b \in Nat /\ events = Known(d, b) /\ d.tokens[b + 1].text = "endObject"
      /\ ValueAhead(d, v, k, t, p, b) \/ KeyAhead(d, v, k, t, p, b) \/ EndAhead(d, v, k, t, p, b)
      /\ a \in 0 .. given /\ k \in 0 .. Len(x.parts) /\ Surround(d, c, n, states)
  BY <1>1, <1>5 DEF Loops
<1>7. EndAhead(d, v, k, t, p, b) /\ x.kind = "obj"
  <2> HIDE DEF v, k, t, p, d
  <2> QED
    BY <1>2, <1>6, TokenTells
<1>8. x.path \in Seq(Step) /\ x.parts \in Seq(Nat)
  BY <1>2, <1>6, DocumentTypes
<1>9. states \in Seq(States) /\ states # <<>>
  BY <1>6 DEF Surround
<1>10. tokens' = SubSeq(TextOf(d), a + 1, given) \o bad
  <2>1. a + 1 = b + 2
    BY <1>6
  <2> QED
    BY <1>5, <2>1
<1>11. d.tokens[a] = Tok("closes", v, "endObject") /\ x.last = a /\ k = Len(x.parts)
  BY <1>7 DEF EndAhead
<1>12. d.tokens[a].role = "closes" /\ d.tokens[a].of = v
  BY <1>11 DEF Tok
<1> DEFINE s2 == states'
           q == path'
\* Nothing was in it.
<1>13. CASE Top = "ObjectStart"
  <2>1. states' = Over(states, "ObjectEmptyEnd") /\ path' = path /\ events' = Append(events, Leaf(path', <<"obj", <<>>>>))
    BY <1>13 DEF CloseObject, WithTop, Over, Return
  <2>2. x.parts = <<>> /\ path = x.path
    BY <1>7, <1>13 DEF EndAhead
  <2>3. path' = x.path
    BY <2>1, <2>2
  <2>4. "ObjectEmptyEnd" \in States
    BY DEF States
  <2>5. Surround(d, c, n, s2) /\ Last(s2) = "ObjectEmptyEnd"
    BY <1>2, <1>6, <1>9, <2>1, <2>4, StateChanged, StackOver
  <2>6. events' = Known(d, a)
    <3>1. EventsAt(d, a) = <<Event(x.path, <<"obj", <<>>>>)>>
      BY <1>7, <1>12, <2>2 DEF EventsAt
    <3>2. Leaf(path', <<"obj", <<>>>>) = Event(x.path, <<"obj", <<>>>>)
      BY <2>3 DEF Leaf, Event
    <3> HIDE DEF x, d
    <3> QED
      BY <1>6, <2>1, <3>1, <3>2, KnownStep
  <2>7. TopAt(d, v, k, "ObjectEmptyEnd", path', a, "idle")
    BY <1>7, <1>11, <2>2, <2>3 DEF TopAt
  <2>8. Turn' = "idle"
    BY <1>1 DEF Turn
  <2>9. TopAt(d, Last(c), Last(n), Last(s2), path', a, Turn')
    BY <2>5, <2>7, <2>8
  <2> HIDE DEF d, a, s2
  <2>10. d = doc /\ states' = s2
    BY DEF d, s2
  <2> QED
    BY <1>1, <1>2, <1>6, <1>10, <2>5, <2>6, <2>9, <2>10, Arrives
\* Something was.
<1>14. CASE Top # "ObjectStart"
  <2>1. states' = Over(states, "ObjectEnd") /\ path' = path /\ events' = Append(events, Closing(path))
    BY <1>14 DEF CloseObject, WithTop, Over, Return
  <2>2. x.parts # <<>> /\ path = d.values[x.parts[k]].path
    BY <1>7, <1>14 DEF EndAhead
  <2>3. "ObjectEnd" \in States
    BY DEF States
  <2>4. Surround(d, c, n, s2) /\ Last(s2) = "ObjectEnd"
    BY <1>2, <1>6, <1>9, <2>1, <2>3, StateChanged, StackOver
  <2>5. k > 0 /\ Last(x.parts) = x.parts[k]
    <3> DEFINE ps == x.parts
    <3>1. ps \in Seq(Nat) /\ ps # <<>> /\ k = Len(ps)
      BY <1>8, <1>11, <2>2
    <3> HIDE DEF ps, k
    <3>2. k > 0 /\ Last(ps) = ps[k]
      BY <3>1 DEF Last
    <3> QED
      BY <3>2 DEF ps
  <2>6. events' = Known(d, a)
    <3>1. EventsAt(d, a) = <<Event(d.values[Last(x.parts)].path, <<>>)>>
      BY <1>12, <2>2 DEF EventsAt
    <3>2. Closing(path) = Event(d.values[Last(x.parts)].path, <<>>)
      BY <2>2, <2>5 DEF Closing, Event
    <3> HIDE DEF x, d
    <3> QED
      BY <1>6, <2>1, <3>1, <3>2, KnownStep
  <2>7. TopAt(d, v, k, "ObjectEnd", path', a, "idle")
    BY Zenon, <1>7, <1>11, <2>1, <2>2, <2>5 DEF TopAt
  <2>8. Turn' = "idle"
    BY <1>1 DEF Turn
  <2>9. TopAt(d, Last(c), Last(n), Last(s2), path', a, Turn')
    BY <2>4, <2>7, <2>8
  <2> HIDE DEF d, a, s2
  <2>10. d = doc /\ states' = s2
    BY DEF d, s2
  <2> QED
    BY <1>1, <1>2, <1>6, <1>10, <2>4, <2>6, <2>9, <2>10, Arrives
<1> QED
  BY <1>13, <1>14

LEMMA KeyIsRead ==
    ASSUME StreamInv, ReadKey
    PROVE  StreamInv'
<1> DEFINE d == doc
<1>1. /\ Take /\ Head(tokens) \notin Delims \cup {BadChar} /\ Top \in {"ObjectStart", "ObjectValue"}
      /\ states' = Over(states, "ObjectKey") /\ path' = Append(path, Key(Head(tokens)))
      /\ events' = events /\ phase' = phase
  BY DEF ReadKey, Continue, WithTop, Over
<1>2. phase = "loop" /\ UNCHANGED <<doc, given, err>> /\ StreamTypes /\ d \in Documents
  BY <1>1 DEF Take, StreamInv, StreamTypes
<1>3. Head(tokens) # BadChar /\ IsText(Head(tokens))
  BY <1>1 DEF IsText
<1>4. PICK c, n, b, turn : \E bad \in {<<>>, <<BadChar>>} :
          Loops(c, n, b, bad, turn) /\ b < given /\ tokens' = SubSeq(TextOf(doc), b + 2, given) \o bad
  BY <1>1, <1>3, TokenTaken
<1>5. PICK bad \in {<<>>, <<BadChar>>} :
          Loops(c, n, b, bad, turn) /\ b < given /\ tokens' = SubSeq(TextOf(doc), b + 2, given) \o bad
  BY <1>4
<1> DEFINE v == Last(c)
           k == Last(n)
           x == d.values[v]
           a == b + 1
           t == Top
           p == path
           y == d.tokens[a]
<1>6. /\ v \in 1 .. Len(d.values) /\ k \in Nat /\ b \in Nat /\ events = Known(d, b) /\ y.text = Head(tokens)
      /\ ValueAhead(d, v, k, t, p, b) \/ KeyAhead(d, v, k, t, p, b) \/ EndAhead(d, v, k, t, p, b)
      /\ a \in 0 .. given /\ Surround(d, c, n, states)
  BY <1>1, <1>5 DEF Loops
<1>7. KeyAhead(d, v, k, t, p, b)
  <2>1. IsText(d.tokens[b + 1].text) /\ t \in {"ObjectStart", "ObjectValue"}
    BY <1>1, <1>3, <1>6
  <2> HIDE DEF v, k, t, p, d
  <2> QED
    BY <1>2, <1>6, <2>1, TokenTells
<1>8. k < Len(x.parts) /\ b = Behind(d, v, k) /\ path = x.path /\ y.role = "key" /\ x.kind = "obj"
  BY <1>7 DEF KeyAhead
<1>9. states \in Seq(States) /\ states # <<>>
  BY <1>6 DEF Surround
<1>10. tokens' = SubSeq(TextOf(d), a + 1, given) \o bad
  <2>1. a + 1 = b + 2
    BY <1>6
  <2> QED
    BY <1>5, <2>1
<1>11. path' = d.values[x.parts[k + 1]].path
  <2> DEFINE i == k + 1
  <2>1. i \in 1 .. Len(x.parts) /\ Behind(d, v, i - 1) = b
    <3>1. Len(x.parts) \in Nat
      <4>1. x.parts \in Seq(Nat)
        BY <1>2, <1>6, DocumentTypes
      <4> QED
        BY <4>1
    <3>2. i - 1 = k
      BY <1>6
    <3>3. i \in 1 .. Len(x.parts)
      <4> DEFINE l == Len(x.parts)
      <4>1. l \in Nat /\ k \in Nat /\ k < l
        BY <1>6, <1>8, <3>1
      <4> HIDE DEF l, k
      <4>2. k + 1 \in 1 .. l
        BY <4>1
      <4> QED
        BY <4>2 DEF l
    <3> QED
      BY <1>8, <3>2, <3>3
  <2> HIDE DEF i, d, v
  <2>2. d.values[x.parts[i]].path = Append(x.path, Key(d.tokens[b + 1].text))
    BY Zenon, <1>2, <1>6, <1>8, <2>1, PartPath
  <2> QED
    BY Zenon, <1>1, <1>6, <1>8, <2>2 DEF i
<1> DEFINE s2 == states'
<1>12. "ObjectKey" \in States
  BY DEF States
<1>13. Surround(d, c, n, s2) /\ Last(s2) = "ObjectKey"
  BY <1>1, <1>2, <1>6, <1>9, <1>12, StateChanged, StackOver
<1>14. events' = Known(d, a)
  BY <1>1, <1>2, <1>6, <1>8, NoEvent
<1>15. Turn' # "idle" /\ phase' \in {"idle", "loop"}
  BY <1>1, <1>2 DEF Turn
<1> DEFINE tn == Turn'
           q == path'
<1>16. TopAt(d, v, k, "ObjectKey", q, a, tn)
  <2>1. tn # "idle" /\ q = d.values[x.parts[k + 1]].path /\ a = Behind(d, v, k) + 1
    BY <1>8, <1>11, <1>15
  <2> HIDE DEF tn, q, a
  <2> QED
    BY <1>8, <2>1 DEF TopAt
<1>17. TopAt(d, Last(c), Last(n), Last(s2), path', a, Turn')
  BY <1>13, <1>16
<1> HIDE DEF d, a, s2
<1>18. d = doc /\ states' = s2
  BY DEF d, s2
<1> QED
  BY <1>2, <1>6, <1>10, <1>13, <1>14, <1>15, <1>17, <1>18, Arrives

LEMMA ValueIsRead ==
    ASSUME StreamInv, ReadValue
    PROVE  StreamInv'
<1> DEFINE d == doc
           t == Top
           m == CASE t \in {"ArrayStart", "ArrayValue"} -> "ArrayValue"
                  [] t = "ObjectKey" -> "ObjectValue"
                  [] OTHER -> "TopValue"
<1>1. /\ Take /\ Head(tokens) \notin Delims \cup {BadChar} /\ t \notin {"ObjectStart", "ObjectValue"}
      /\ states' = Over(states, m) /\ path' = path
      /\ events' = Append(events, Leaf(path, <<"atom", Head(tokens)>>)) /\ phase' = "idle"
  BY DEF ReadValue, Return, WithTop, Over
<1>2. phase = "loop" /\ UNCHANGED <<doc, given, err>> /\ StreamTypes /\ d \in Documents
  BY <1>1 DEF Take, StreamInv, StreamTypes
<1>3. Head(tokens) # BadChar /\ IsText(Head(tokens))
  BY <1>1 DEF IsText
<1>4. PICK c, n, b, turn : \E bad \in {<<>>, <<BadChar>>} :
          Loops(c, n, b, bad, turn) /\ b < given /\ tokens' = SubSeq(TextOf(doc), b + 2, given) \o bad
  BY <1>1, <1>3, TokenTaken
<1>5. PICK bad \in {<<>>, <<BadChar>>} :
          Loops(c, n, b, bad, turn) /\ b < given /\ tokens' = SubSeq(TextOf(doc), b + 2, given) \o bad
  BY <1>4
<1> DEFINE v == Last(c)
           k == Last(n)
           x == d.values[v]
           a == b + 1
           p == path
           y == d.tokens[a]
           i == k + 1
           w == x.parts[i]
<1>6. /\ v \in 1 .. Len(d.values) /\ k \in Nat /\ b \in Nat /\ events = Known(d, b) /\ y.text = Head(tokens)
      /\ ValueAhead(d, v, k, t, p, b) \/ KeyAhead(d, v, k, t, p, b) \/ EndAhead(d, v, k, t, p, b)
      /\ a \in 0 .. given /\ Surround(d, c, n, states)
  BY <1>1, <1>5 DEF Loops
<1>7. ValueAhead(d, v, k, t, p, b) /\ d.values[w].kind = "atom"
  <2>1. IsText(d.tokens[b + 1].text) /\ t \notin {"ObjectStart", "ObjectValue"}
    BY <1>1, <1>3, <1>6
  <2> HIDE DEF v, k, t, p, d
  <2> QED
    BY <1>2, <1>6, <2>1, TokenTells
<1>8. /\ k < Len(x.parts) /\ d.values[w].first = a /\ p = d.values[w].path
      /\ \/ x.kind = "top" /\ t = "TopValue"
         \/ x.kind = "arr" /\ t \in {"ArrayStart", "ArrayValue"}
         \/ x.kind = "obj" /\ t = "ObjectKey"
  BY <1>7 DEF ValueAhead
<1>9. m = Amid(x.kind) /\ m \in States
  BY <1>8 DEF Amid, States
<1>10. i \in 1 .. Len(x.parts)
  <2>1. x.parts \in Seq(Nat)
    BY <1>2, <1>6, DocumentTypes
  <2> DEFINE l == Len(x.parts)
  <2>2. l \in Nat /\ k \in Nat /\ k < l
    BY <1>6, <1>8, <2>1
  <2> HIDE DEF l, k
  <2>3. k + 1 \in 1 .. l
    BY <2>2
  <2> QED
    BY <2>3 DEF l, k
<1>11. y.role = "atom" /\ y.of = w /\ d.values[w].last = a
  <2>1. ComesNext(d, v, k, w)
    BY DEF ComesNext
  <2> HIDE DEF v, k, t, p, d, w
  <2> QED
    BY <1>2, <1>6, <1>7, <2>1, BeginsWith
<1>12. tokens' = SubSeq(TextOf(d), a + 1, given) \o bad
  <2>1. a + 1 = b + 2
    BY <1>6
  <2> QED
    BY <1>5, <2>1
<1>13. events' = Known(d, a)
  <2>1. EventsAt(d, a) = <<Event(d.values[w].path, <<"atom", y.text>>)>>
    BY <1>11 DEF EventsAt
  <2>2. Leaf(path, <<"atom", Head(tokens)>>) = Event(d.values[w].path, <<"atom", y.text>>)
    BY <1>6, <1>8 DEF Leaf, Event
  <2> HIDE DEF w, d, y
  <2> QED
    BY <1>1, <1>6, <2>1, <2>2, KnownStep
<1> DEFINE n2 == Over(n, i)
           s2 == states'
<1>14. states \in Seq(States) /\ states # <<>>
  BY <1>6 DEF Surround
<1>15. Surround(d, c, n2, s2) /\ Last(s2) = m /\ Last(n2) = i
  <2>1. Surround(d, c, n2, states) /\ Last(n2) = i
    BY <1>2, <1>6, <1>8, PartBehind
  <2> HIDE DEF m, n2, d
  <2> QED
    BY <1>1, <1>2, <1>9, <1>14, <2>1, StateChanged, StackOver
<1>16. Turn' = "idle"
  BY <1>1 DEF Turn
<1>17. TopAt(d, v, i, m, p, a, "idle")
  <2>1. a = Behind(d, v, i) /\ i > 0
    BY <1>6, <1>11 DEF Behind
  <2>2. p = d.values[x.parts[i]].path
    BY <1>8
  <2>3. x.kind = "top" => p = <<>>
    <3> HIDE DEF i, d, v
    <3> QED
      BY Zenon, <1>2, <1>6, <1>8, <1>10, PartPath
  <2>4. \/ x.kind = "top" /\ m = "TopValue"
        \/ x.kind = "arr" /\ m = "ArrayValue"
        \/ x.kind = "obj" /\ m = "ObjectValue"
    BY <1>8
  <2> HIDE DEF m, i, a, p
  <2> QED
    BY <2>1, <2>2, <2>3, <2>4 DEF TopAt
<1>18. TopAt(d, Last(c), Last(n2), Last(s2), path', a, Turn')
  BY <1>1, <1>15, <1>16, <1>17
<1> HIDE DEF d, a, s2, n2
<1>19. d = doc /\ states' = s2
  BY DEF d, s2
<1> QED
  BY <1>1, <1>2, <1>6, <1>12, <1>13, <1>15, <1>18, <1>19, Arrives

LEMMA InputEnds ==
    ASSUME StreamInv, Fail
    PROVE  StreamInv'
<1> DEFINE d == doc
<1>1. /\ phase = "loop" /\ tokens \in {<<>>, <<BadChar>>} /\ phase' = "over"
      /\ err' = IF tokens # <<>> THEN "SyntaxError" ELSE IF Top # "TopValue" THEN "UnexpectedEOF" ELSE "EOF"
      /\ UNCHANGED <<doc, given, tokens, path, states, events>>
  BY DEF Fail
<1>2. StreamTypes /\ d \in Documents /\ given \in 0 .. Len(d.tokens)
  BY DEF StreamInv, StreamTypes
<1>3. PICK c, n, b, turn : \E bad \in {<<>>, <<BadChar>>} : Loops(c, n, b, bad, turn)
  BY <1>1, InLoop
<1>4. PICK bad \in {<<>>, <<BadChar>>} : Loops(c, n, b, bad, turn)
  BY <1>3
<1>5. b = given
  <2>1. ~(b < given)
    <3> SUFFICES ASSUME b < given PROVE FALSE
      OBVIOUS
    <3>1. tokens # <<>> /\ Head(tokens) # BadChar
      BY <1>4 DEF Loops
    <3>2. Head(<<BadChar>>) = BadChar
      OBVIOUS
    <3> QED
      BY <1>1, <3>1, <3>2
  <2>2. given \in Nat /\ b \in 0 .. given
    <3>1. Len(d.tokens) \in Nat /\ b \in 0 .. given
      BY <1>2, <1>4, DocumentTypes DEF Loops
    <3> QED
      BY <1>2, <3>1
  <2> QED
    BY <2>1, <2>2
<1> DEFINE v == Last(c)
           k == Last(n)
           t == Top
           p == path
<1>6. /\ events = Known(d, given) /\ TopAt(d, v, k, t, p, b, turn) /\ turn # "idle"
      /\ v \in 1 .. Len(d.values) /\ k \in 0 .. Len(d.values[v].parts) /\ b \in Nat
  BY <1>4, <1>5 DEF Loops
<1>7. t = "TopValue" <=> Complete(d, b)
  <2> HIDE DEF v, k, t, p, d
  <2> QED
    BY <1>2, <1>6, TopIsComplete
<1>8. EndsWithinValue'
  <2> DEFINE co == Complete(d, given)
  <2>1. (err' = "EOF") = (tokens = <<>> /\ co)
    <3>1. t = "TopValue" <=> co
      BY <1>5, <1>7
    <3> HIDE DEF co
    <3> QED
      BY <1>1, <3>1
  <2> QED
    BY <1>1, <2>1 DEF EndsWithinValue, Complete
<1>9. StreamTypes'
  BY <1>1, <1>2 DEF StreamTypes
<1>10. (events = Known(doc, given))'
  BY <1>1, <1>6
<1> QED
  BY <1>1, <1>8, <1>9, <1>10 DEF StreamInv

LEMMA NextIsCalled ==
    ASSUME StreamInv, Call
    PROVE  StreamInv'
<1> DEFINE d == doc
           t == Top
           turn == IF More THEN "more" ELSE "less"
           ended == t \in {"ArrayEnd", "ArrayEmptyEnd", "ObjectEnd", "ObjectEmptyEnd"}
           left  == IF t \in {"ArrayEnd", "ObjectEnd"} THEN Front(path) ELSE path
           below == IF ended THEN Front(states) ELSE states
<1>1. /\ phase = "idle" /\ phase' = "loop" /\ UNCHANGED <<doc, given, tokens, events, err>>
      /\ states' = below
      /\ path' = Onward(Last(below), left, turn)
  BY DEF Call, Onward
<1>2. StreamTypes /\ d \in Documents
  BY DEF StreamInv, StreamTypes
<1>3. PICK c, n, b : Here(c, n, b)
  BY <1>1 DEF StreamInv
<1>4. PICK bad \in {<<>>, <<BadChar>>} : tokens = SubSeq(TextOf(d), b + 1, given) \o bad
  BY <1>3 DEF Here
<1> DEFINE v == Last(c)
           k == Last(n)
           x == d.values[v]
           p == path
<1>5. Surround(d, c, n, states) /\ b \in 0 .. given /\ events = Known(d, b) /\ TopAt(d, v, k, t, p, b, "idle")
  BY <1>1, <1>3 DEF Here, Turn, Top
<1>6. /\ v \in 1 .. Len(d.values) /\ k \in 0 .. Len(x.parts) /\ k \in Nat /\ Len(states) \in Nat /\ Len(states) > 0
      /\ (Len(states) = 1) <=> (x.kind = "top")
  BY <1>2, <1>5, Innermost
<1>7. turn \in {"more", "less"} /\ Turn' = turn
  BY <1>1 DEF Turn, More
<1>8. x.path \in Seq(Step)
  BY <1>2, <1>6, DocumentTypes
\* What is to be shown of where next goes on.
<1> DEFINE GoesTo(c2, n2) == /\ Surround(d, c2, n2, below)
                             /\ TopAt(d, Last(c2), Last(n2), Last(below), Onward(Last(below), left, turn), b, turn)
<1>9. ASSUME NEW c2, NEW n2, GoesTo(c2, n2) PROVE StreamInv'
  <2>1. Surround(d, c2, n2, below) /\ TopAt(d, Last(c2), Last(n2), Last(below), path', b, Turn')
    BY <1>1, <1>7, <1>9
  <2>2. states' = below /\ d = doc /\ tokens' = SubSeq(TextOf(d), b + 1, given) \o bad /\ events' = Known(d, b)
    BY <1>1, <1>4, <1>5
  <2> DEFINE s2 == below
  <2>3. /\ Surround(d, c2, n2, s2) /\ TopAt(d, Last(c2), Last(n2), Last(s2), path', b, Turn')
        /\ states' = s2
    BY <2>1, <2>2
  <2> HIDE DEF s2, d
  <2> QED
    BY <1>1, <1>2, <1>5, <2>2, <2>3, Arrives
\* At top level.
<1>10. CASE x.kind = "top"
  <2>1. t = "TopValue" /\ b = Behind(d, v, k) /\ p = <<>>
    BY <1>5, <1>10 DEF TopAt
  <2>2. below = states /\ left = <<>> /\ Last(below) = "TopValue"
    BY <2>1 DEF Top
  <2>3. Onward("TopValue", left, turn) = <<>>
    BY <2>2 DEF Onward
  <2> DEFINE q == Onward("TopValue", left, turn)
             tn == turn
  <2>4. TopAt(d, v, k, "TopValue", q, b, tn)
    <3> HIDE DEF tn
    <3> QED
      BY <1>10, <2>1, <2>3 DEF TopAt
  <2>5. GoesTo(c, n)
    BY <1>5, <2>2, <2>4
  <2> HIDE DEF GoesTo
  <2> QED
    BY <1>9, <2>5
\* Between the parts of an array or object.
<1>11. CASE x.kind # "top" /\ t \in {"ArrayValue", "ObjectValue"}
  <2>1. t = Amid(x.kind) /\ k > 0 /\ b = Behind(d, v, k) /\ p = d.values[x.parts[k]].path
    BY <1>5, <1>11 DEF TopAt, Amid
  <2>2. below = states /\ left = path /\ Last(below) = Amid(x.kind)
    <3>1. t \notin {"ArrayEnd", "ArrayEmptyEnd", "ObjectEnd", "ObjectEmptyEnd"}
      BY <1>11
    <3> QED
      BY <2>1, <3>1 DEF Top
  <2>3. k \in 1 .. Len(x.parts)
    BY <1>6, <2>1
  <2> DEFINE bt == Amid(x.kind)
             tn == turn
             q == d.values[x.parts[k]].path
  <2>4. TopAt(d, v, k, bt, Onward(bt, q, tn), Behind(d, v, k), tn)
    <3> HIDE DEF tn, d, v, k
    <3> QED
      BY <1>2, <1>6, <1>7, <2>3, GoesOn DEF tn
  <2>5. TopAt(d, v, k, bt, Onward(bt, left, tn), b, tn)
    BY Zenon, <2>1, <2>2, <2>4
  <2>6. GoesTo(c, n)
    BY <1>5, <2>2, <2>5
  <2> HIDE DEF GoesTo
  <2> QED
    BY <1>9, <2>6
\* An array or object has ended.
<1>12. CASE x.kind # "top" /\ t \notin {"ArrayValue", "ObjectValue"}
  <2>1. /\ t \in {"ArrayEnd", "ArrayEmptyEnd", "ObjectEnd", "ObjectEmptyEnd"} /\ b = x.last
        /\ t \in {"ArrayEnd", "ObjectEnd"} => /\ k = Len(x.parts) /\ k > 0 /\ p = d.values[x.parts[k]].path
        /\ t \notin {"ArrayEnd", "ObjectEnd"} => p = x.path
    BY <1>5, <1>12 DEF TopAt
  <2>2. left = x.path
    <3>1. CASE t \in {"ArrayEnd", "ObjectEnd"}
      <4>1. k \in 1 .. Len(x.parts)
        BY SMTT(30), <1>6, <2>1, <3>1
      <4>2. Front(d.values[x.parts[k]].path) = x.path
        BY <1>2, <1>6, <1>12, <4>1, PartPath
      <4> QED
        BY <2>1, <3>1, <4>2
    <3>2. CASE t \notin {"ArrayEnd", "ObjectEnd"}
      BY <2>1, <3>2
    <3> QED
      BY <3>1, <3>2
  <2>3. Len(states) > 1
    <3> DEFINE l == Len(states)
    <3>1. l \in Nat /\ l > 0 /\ l # 1
      BY <1>6, <1>12
    <3> HIDE DEF l
    <3>2. l > 1
      BY <3>1
    <3> QED
      BY <3>2 DEF l
  <2> DEFINE c2 == Front(c)
             j == Last(Front(n)) + 1
             n2 == Over(Front(n), j)
             u == Last(c2)
             z == d.values[u]
  <2>4. /\ Surround(d, c2, n2, Front(states)) /\ Last(n2) = j /\ j \in 1 .. Len(z.parts) /\ z.parts[j] = v
        /\ Last(Front(states)) = Amid(z.kind)
    BY <1>2, <1>5, <2>3, Outer
  <2>5. below = Front(states) /\ Last(below) = Amid(z.kind)
    BY <2>1, <2>4
  <2>6. u \in 1 .. Len(d.values)
    BY <1>2, <2>4, Innermost
  <2>7. b = Behind(d, u, j)
    <3>1. j # 0
      <4>1. Len(z.parts) \in Nat
        <5>1. z.parts \in Seq(Nat)
          BY <1>2, <2>6, DocumentTypes
        <5> HIDE DEF z
        <5> QED
          BY <5>1
      <4> HIDE DEF z, j
      <4> QED
        BY <2>4, <4>1
    <3> HIDE DEF j, u
    <3> QED
      BY <2>1, <2>4, <3>1 DEF Behind
  <2> DEFINE bt == Amid(z.kind)
             tn == turn
             q == d.values[z.parts[j]].path
  <2>8. TopAt(d, u, j, bt, Onward(bt, q, tn), Behind(d, u, j), tn)
    <3> HIDE DEF tn, d, u, j
    <3> QED
      BY <1>2, <1>7, <2>4, <2>6, GoesOn DEF tn
  <2>9. q = left
    BY <2>2, <2>4
  <2>10. TopAt(d, u, j, bt, Onward(bt, left, tn), b, tn)
    BY <2>7, <2>8, <2>9
  <2> HIDE DEF j
  <2>11. GoesTo(c2, n2)
    BY <2>4, <2>5, <2>10
  <2> HIDE DEF GoesTo, c2, n2
  <2> QED
    BY <1>9, <2>11
<1> QED
  BY <1>10, <1>11, <1>12

LEMMA StreamBegins ==
    ASSUME StreamInit
    PROVE  StreamInv
<1>1. PICK d \in Documents : \E n \in 0 .. Len(d.tokens), bad \in {<<>>, <<BadChar>>} : StreamStart(d, n, bad)
  BY DEF StreamInit
<1>2. PICK g \in 0 .. Len(d.tokens), bad \in {<<>>, <<BadChar>>} : StreamStart(d, g, bad)
  BY <1>1
<1>3. /\ doc = d /\ given = g /\ tokens = SubSeq(TextOf(d), 0 + 1, g) \o bad /\ path = <<>> /\ states = <<"TopValue">>
      /\ events = <<>> /\ phase = "idle" /\ err = "none"
  BY <1>2 DEF StreamStart
<1>4. "TopValue" \in States
  BY DEF States
<1>5. StreamTypes
  BY <1>3, <1>4 DEF StreamTypes
<1>6. /\ Len(d.tokens) \in Nat /\ Len(d.values) \in Nat /\ Len(d.values) > 0 /\ d.values[1].kind = "top"
      /\ d.values[1].first = 0
  BY DocumentTypes
<1>7. 1 \in 1 .. Len(d.values) /\ 0 \in 0 .. g
  BY <1>6
<1>8. Len(d.values[1].parts) \in Nat
  <2>1. d.values[1].parts \in Seq(Nat)
    BY <1>7, DocumentTypes
  <2> QED
    BY <2>1
<1> DEFINE c == <<1>>
           n == <<0>>
           s == <<"TopValue">>
<1>9. /\ c \in Seq(1 .. Len(d.values)) /\ n \in Seq(Nat) /\ s \in Seq(States) /\ Len(c) = 1 /\ Len(n) = 1 /\ Len(s) = 1
      /\ s # <<>> /\ c[1] = 1 /\ n[1] = 0 /\ Last(c) = 1 /\ Last(n) = 0 /\ Last(s) = "TopValue"
  BY <1>4, <1>7 DEF Last
<1> HIDE DEF c, n, s
<1>10. Surround(d, c, n, s)
  <2>1. \A i \in 1 .. 1 : n[i] \in 0 .. Len(d.values[c[i]].parts)
    BY <1>8, <1>9
  <2> QED
    BY <1>9, <2>1 DEF Surround
<1>11. TopAt(d, 1, 0, "TopValue", <<>>, 0, "idle")
  BY <1>6 DEF TopAt, Behind
<1>12. Turn = "idle" /\ events = Known(d, 0) /\ states = s
  BY <1>3, KnownStep DEF Turn, s
<1>13. Here(c, n, 0)
  BY <1>3, <1>7, <1>9, <1>10, <1>11, <1>12 DEF Here
<1>14. \E c_, n_, b_ : Here(c_, n_, b_)
  <2> HIDE DEF Here
  <2> QED
    BY <1>13
<1> QED
  BY <1>3, <1>5, <1>14 DEF StreamInv

LEMMA StreamSteps ==
    ASSUME StreamInv, [StreamNext]_streamVars
    PROVE  StreamInv'
<1>1. CASE UNCHANGED streamVars
  BY <1>1 DEF streamVars, StreamInv, StreamTypes, Here, EndsWithinValue, Turn, More
<1>2. CASE StreamNext
  BY <1>2, NextIsCalled, ArrayOpens, ObjectOpens, ArrayCloses, ObjectCloses, KeyIsRead, ValueIsRead, InputEnds
     DEF StreamNext
<1> QED
  BY <1>1, <1>2

LEMMA InnerStates ==
    ASSUME NEW d \in Documents, NEW c, NEW n, NEW s, Surround(d, c, n, s)
    PROVE  \A i \in 2 .. Len(s) - 1 : s[i] \in {"ArrayValue", "ObjectValue"}
<1> SUFFICES ASSUME NEW i \in 2 .. Len(s) - 1 PROVE s[i] \in {"ArrayValue", "ObjectValue"}
  OBVIOUS
<1>1. /\ c \in Seq(1 .. Len(d.values)) /\ Len(c) = Len(s) /\ n \in Seq(Nat)
      /\ \A j \in 1 .. Len(s) : n[j] \in 0 .. Len(d.values[c[j]].parts)
      /\ \A j \in 1 .. Len(s) - 1 : n[j] < Len(d.values[c[j]].parts) /\ s[j] = Amid(d.values[c[j]].kind)
      /\ \A j \in 2 .. Len(s) : c[j] # 1
  BY DEF Surround
<1>2. Len(s) \in Nat
  BY Innermost
<1>3. i \in 1 .. Len(s) /\ i \in 1 .. Len(s) - 1 /\ i \in 2 .. Len(s)
  BY <1>2
<1> DEFINE v == c[i]
           x == d.values[v]
<1>4. v \in 1 .. Len(d.values) /\ v # 1 /\ s[i] = Amid(x.kind) /\ n[i] < Len(x.parts) /\ n[i] \in 0 .. Len(x.parts)
  BY <1>1, <1>3
<1>5. x.kind \in {"arr", "obj"}
  <2>1. x.kind \in {"top", "arr", "obj", "atom"} /\ (x.kind = "top" => v = 1) /\ (x.kind = "atom" => x.parts = <<>>)
    BY <1>4, DocumentTypes
  <2>2. x.kind # "atom"
    <3> SUFFICES ASSUME x.kind = "atom" PROVE FALSE
      OBVIOUS
    <3>1. Len(x.parts) = 0
      BY <2>1
    <3> DEFINE m == n[i]
               l == Len(x.parts)
    <3>2. m < l /\ m \in 0 .. l /\ l = 0
      BY <1>4, <3>1
    <3> HIDE DEF m, l
    <3> QED
      BY <3>2
  <2> HIDE DEF x
  <2> QED
    BY <1>4, <2>1, <2>2
<1> HIDE DEF x
<1> QED
  BY <1>4, <1>5 DEF Amid

\* How long the path is between two calls.
LEMMA PathLength ==
    ASSUME NEW d \in Documents, NEW c, NEW n, NEW s, Surround(d, c, n, s), NEW b, NEW p,
           TopAt(d, Last(c), Last(n), Last(s), p, b, "idle")
    PROVE  Len(p) = IF Len(s) = 1 THEN 0
                    ELSE IF Last(s) \in {"ArrayEmptyEnd", "ObjectEmptyEnd"} THEN Len(s) - 2 ELSE Len(s) - 1
<1> DEFINE v == Last(c)
           k == Last(n)
           x == d.values[v]
           l == Len(s)
           t == Last(s)
<1>1. /\ l \in Nat /\ l > 0 /\ v \in 1 .. Len(d.values) /\ k \in 0 .. Len(x.parts) /\ k \in Nat
      /\ (l = 1) <=> (x.kind = "top")
      /\ l > 1 => Len(x.path) = l - 2
  BY Innermost
<1>2. TopAt(d, v, k, t, p, b, "idle")
  OBVIOUS
<1>3. k > 0 => k \in 1 .. Len(x.parts)
  <2>1. Len(x.parts) \in Nat
    <3>1. x.parts \in Seq(Nat)
      BY SMTT(30), <1>1, DocumentTypes
    <3> HIDE DEF x
    <3> QED
      BY <3>1
  <2> HIDE DEF x, k
  <2> QED
    BY <1>1, <2>1
<1> DEFINE pl == Len(x.path)
           ql == Len(d.values[x.parts[k]].path)
<1>4. k > 0 /\ x.kind # "top" => ql = pl + 1
  <2> SUFFICES ASSUME k > 0, x.kind # "top" PROVE ql = pl + 1
    OBVIOUS
  <2>1. k \in 1 .. Len(x.parts)
    BY <1>3
  <2> HIDE DEF v, k
  <2> QED
    BY <1>1, <2>1, PartPath
<1>5. \/ x.kind = "top" /\ p = <<>>
      \/ x.kind # "top" /\ t \notin {"ArrayEmptyEnd", "ObjectEmptyEnd"} /\ k > 0 /\ Len(p) = ql
      \/ x.kind # "top" /\ t \in {"ArrayEmptyEnd", "ObjectEmptyEnd"} /\ Len(p) = pl
  <2> HIDE DEF v, k, t
  <2> QED
    BY <1>2 DEF TopAt
<1>6. l = 1 \/ l > 1
  <2> HIDE DEF l
  <2> QED
    BY <1>1
<1> DEFINE lp == Len(p)
           kd == x.kind
<1>7. p = <<>> => lp = 0
  OBVIOUS
<1>8. /\ l \in Nat /\ ((l = 1) <=> (kd = "top")) /\ (l > 1 => pl = l - 2)
      /\ k > 0 /\ kd # "top" => ql = pl + 1
      /\ \/ kd = "top" /\ lp = 0
         \/ kd # "top" /\ t \notin {"ArrayEmptyEnd", "ObjectEmptyEnd"} /\ k > 0 /\ lp = ql
         \/ kd # "top" /\ t \in {"ArrayEmptyEnd", "ObjectEmptyEnd"} /\ lp = pl
  BY <1>1, <1>4, <1>5, <1>7
<1>9. lp = IF l = 1 THEN 0 ELSE IF t \in {"ArrayEmptyEnd", "ObjectEmptyEnd"} THEN l - 2 ELSE l - 1
  <2> HIDE DEF lp, kd, l, k, t, pl, ql
  <2>1. CASE l = 1
    BY <1>8, <2>1
  <2>2. CASE l > 1
    <3>1. pl = l - 2 /\ kd # "top" /\ l # 1
      BY <1>8, <2>2
    <3>2. CASE t \in {"ArrayEmptyEnd", "ObjectEmptyEnd"}
      BY <1>8, <3>1, <3>2
    <3>3. CASE t \notin {"ArrayEmptyEnd", "ObjectEmptyEnd"}
      <4>1. lp = (l - 2) + 1
        BY <1>8, <3>1, <3>3
      <4>2. lp = l - 1
        BY <1>8, <4>1
      <4> QED
        BY <3>1, <3>3, <4>2
    <3> QED
      BY <3>2, <3>3
  <2> QED
    BY <1>6, <2>1, <2>2
<1> QED
  BY <1>9

LEMMA StreamKept ==
    ASSUME StreamInv
    PROVE  StreamMeant
<1>1. StreamTypes /\ doc \in Documents /\ given \in 0 .. Len(doc.tokens)
  BY DEF StreamInv, StreamTypes
<1>2. Len(doc.tokens) \in Nat /\ given \in Nat
  <2>1. Len(doc.tokens) \in Nat
    BY <1>1, DocumentTypes
  <2> QED
    BY <1>1, <2>1
<1>3. StreamTypeOK
  BY <1>1 DEF StreamTypes, StreamTypeOK
<1>4. EventsMeant /\ EndsWithinValue
  <2>1. CASE phase = "over"
    <3>1. events = Known(doc, given) /\ EndsWithinValue
      BY <2>1 DEF StreamInv
    <3>2. given \in 0 .. given
      BY <1>2
    <3>3. IsPrefix(Known(doc, given), Known(doc, given))
      BY <1>2, <3>2, KnownGrows
    <3> QED
      BY <3>1, <3>3 DEF EventsMeant
  <2>2. CASE phase # "over"
    <3>1. PICK c, n, b : Here(c, n, b)
      BY <2>2 DEF StreamInv
    <3>2. events = Known(doc, b) /\ b \in 0 .. given
      BY <3>1 DEF Here
    <3>3. IsPrefix(Known(doc, b), Known(doc, given))
      BY <1>2, <3>2, KnownGrows
    <3> QED
      BY <2>2, <3>2, <3>3 DEF EventsMeant, EndsWithinValue
  <2> QED
    BY <2>1, <2>2
<1>5. ASSUME phase = "idle"
      PROVE  /\ \A i \in 2 .. Len(states) - 1 : states[i] \in {"ArrayValue", "ObjectValue"}
             /\ Len(path) = Cardinality({i \in 2 .. Len(states) :
                                            states[i] \notin {"ArrayEmptyEnd", "ObjectEmptyEnd"}})
  <2>1. PICK c, n, b : Here(c, n, b)
    BY <1>5 DEF StreamInv
  <2> DEFINE l == Len(states)
             t == Last(states)
             E == {"ArrayEmptyEnd", "ObjectEmptyEnd"}
             S == {i \in 2 .. l : states[i] \notin E}
  <2>2. Surround(doc, c, n, states) /\ TopAt(doc, Last(c), Last(n), t, path, b, "idle")
    BY <1>5, <2>1 DEF Here, Turn
  <2>3. \A i \in 2 .. l - 1 : states[i] \in {"ArrayValue", "ObjectValue"}
    BY <1>1, <2>2, InnerStates
  <2>4. l \in Nat /\ l > 0 /\ t = states[l]
    BY <1>1, <2>2, Innermost
  <2>5. Len(path) = IF l = 1 THEN 0 ELSE IF t \in E THEN l - 2 ELSE l - 1
    BY <1>1, <2>2, PathLength
  <2>6. S = IF l > 1 /\ t \in E THEN 2 .. l - 1 ELSE 2 .. l
    <3>1. \A i \in 2 .. l - 1 : states[i] \notin E
      BY <2>3
    <3> HIDE DEF l, t, E
    <3>2. CASE l > 1 /\ t \in E
      <4>1. ASSUME NEW i \in 2 .. l PROVE states[i] \notin E <=> i \in 2 .. l - 1
        <5>1. i = l \/ i \in 2 .. l - 1
          BY <2>4
        <5>2. l \notin 2 .. l - 1
          BY <2>4
        <5> QED
          BY <2>4, <3>1, <3>2, <5>1, <5>2
      <4>2. \A i \in 2 .. l - 1 : i \in 2 .. l
        BY <2>4
      <4> QED
        BY <3>2, <4>1, <4>2
    <3>3. CASE ~(l > 1 /\ t \in E)
      <4>1. ASSUME NEW i \in 2 .. l PROVE states[i] \notin E
        <5>1. i = l \/ i \in 2 .. l - 1
          BY <2>4
        <5>2. l > 1
          BY <2>4
        <5> QED
          BY <2>4, <3>1, <3>3, <5>1, <5>2
      <4> QED
        BY <3>3, <4>1
    <3> QED
      BY <3>2, <3>3
  <2>7. Cardinality(2 .. l) = l - 1 /\ (l > 1 => Cardinality(2 .. l - 1) = l - 2)
    <3> HIDE DEF l
    <3>1. \A m \in Int : Cardinality(2 .. m) = IF 2 > m THEN 0 ELSE m - 2 + 1
      BY FS_Interval
    <3>2. l \in Int /\ l - 1 \in Int
      BY <2>4
    <3>3. Cardinality(2 .. l) = (IF 2 > l THEN 0 ELSE l - 2 + 1) /\ Cardinality(2 .. l - 1) = IF 2 > l - 1 THEN 0 ELSE l - 1 - 2 + 1
      BY <3>1, <3>2
    <3>4. (IF 2 > l THEN 0 ELSE l - 2 + 1) = l - 1
      BY <2>4
    <3>5. l > 1 => (IF 2 > l - 1 THEN 0 ELSE l - 1 - 2 + 1) = l - 2
      BY <2>4
    <3> QED
      BY <3>3, <3>4, <3>5
  <2> HIDE DEF S, E, l, t
  <2>8. Len(path) = Cardinality(S)
    <3>1. CASE l = 1
      <4>1. S = 2 .. l
        BY <2>6, <3>1
      <4> QED
        BY <2>5, <2>7, <3>1, <4>1
    <3>2. CASE l # 1
      <4>1. l > 1
        BY <2>4, <3>2
      <4> QED
        BY <2>5, <2>6, <2>7, <3>2, <4>1
    <3> QED
      BY <3>1, <3>2
  <2> QED
    BY <2>3, <2>8 DEF S, E, l
<1>6. PathFollowsStates
  BY <1>5 DEF PathFollowsStates
<1> QED
  BY <1>3, <1>4, <1>6 DEF StreamMeant

\* --stream gives the events of the input however it ends, and the path and the states of jsonStream go on
\* together, whatever the documents are and wherever the input stops (jsonStream.next of cli/stream.go).
THEOREM StreamMeantHolds == StreamSpec => []StreamMeant
<1>1. StreamInit => StreamInv
  BY StreamBegins
<1>2. StreamInv /\ [StreamNext]_streamVars => StreamInv'
  BY StreamSteps
<1>3. StreamInv => StreamMeant
  BY StreamKept
<1> QED
  BY <1>1, <1>2, <1>3, PTL DEF StreamSpec
===============================================================================
