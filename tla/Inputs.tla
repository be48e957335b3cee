-------------------------------- MODULE Inputs --------------------------------
(***************************************************************************)
(* The input iterators of cli/inputs.go, as createInputIter of cli/cli.go  *)
(* builds them, and the two that call them: the loop over the inputs,      *)
(* which takes values, and the queries, which ask for the name of the      *)
(* current file (input_filename) and take values themselves (input).       *)
(*                                                                         *)
(* A file is what it holds for the iterator that reads it: its values, and *)
(* perhaps an error after the last (a syntax error, or a failed read).     *)
(* The values of a file are pairs <<name, number>>.                        *)
(***************************************************************************)
EXTENDS Integers, SequencesExt, FiniteSetsExt

CONSTANTS
    Content,    \* a function from the names of files: [values, fails, opens]
    ArgLists,   \* the file arguments of the command lines
    Workers     \* the size of the pool, 1 without one

Stdin == "-"
None  == "none"    \* no file
Kinds == {"each", "all"}   \* one result for each value, or one for the whole file (-R -s)

ASSUME InputsAssumption ==
    /\ \A f \in DOMAIN Content :
          /\ Content[f].values \in Nat
          /\ Content[f].fails \in BOOLEAN
          /\ Content[f].opens \in BOOLEAN
    /\ Stdin \in DOMAIN Content /\ None \notin DOMAIN Content
    /\ ArgLists \subseteq Seq(DOMAIN Content)
    /\ Workers \in Nat \ {0}

VARIABLES
    args,     \* the file arguments
    kind,     \* what newIter is: readAllIter, or any other
    slurp,    \* the iterator is wrapped in a slurping one
    null,     \* --null-input: the loop has null only, the inputs are the queries'
    fnames,   \* i.fnames of filesInputIter
    file,     \* i.file, or none
    iter,     \* i.iter: [name, left], or none; without arguments the only iterator
    ferr,     \* i.err # nil
    serr,     \* the slurping iterator's err # nil
    vs,       \* what it has collected in a call of Next
    stdin,    \* standard input has been read to its end
    open,     \* the files whose handles are open
    pc,       \* the caller of Next: "idle", "files" within filesInputIter.Next, "closed"
    taken,    \* the results of the outermost Next so far
    queries   \* the queries that run: [own, pc, seen]

fileVars == <<args, kind, slurp, null, fnames, file, iter, ferr, serr, vs, stdin, open, pc, taken, queries>>

NoIter == [name |-> None, left |-> <<>>]

Value(f, n)   == <<"value", f, n>>
Whole(f)      == <<"whole", f>>
ReadError(f)  == <<"readerror", f>>
OpenError(f)  == <<"openerror", f>>
Slurped(s)    == <<"slurped", s>>
IsError(r)    == r[1] \in {"readerror", "openerror"}

\* What the iterator on a file returns, one call after the other.
Results(f, k) ==
    LET error == IF Content[f].fails THEN <<ReadError(f)>> ELSE <<>>
    IN  IF k = "all" THEN IF Content[f].fails THEN error ELSE <<Whole(f)>>
        ELSE [n \in 1 .. Content[f].values |-> Value(f, n)] \o error

\* The name that input_filename gives a file.
Shown(f) == IF f = Stdin THEN "<stdin>" ELSE f

\* What can be read from a file: standard input is used up by the first that reads it.
Readable(f) == IF f = Stdin /\ stdin THEN IF kind = "all" THEN <<<<"nothing">>>> ELSE <<>>
               ELSE Results(f, kind)

\* A query that has taken r from the inputs last.
Query(n, r) == [n |-> n, own |-> r, pc |-> "running", seen |-> None]

\* Mutant: every file is read under the name of the first.
NewIterFirst(f) == [name |-> IF args = <<>> THEN f ELSE args[1], left |-> Readable(f)]

NewIter(f) == [name |-> f, left |-> Readable(f)]

-------------------------------------------------------------------------------
\* createInputIter: standard input alone, or the files that are named.
InputsStart(a, k, s, n) ==
    /\ args = a
    /\ kind = k
    /\ slurp = s
    /\ null = n
    /\ fnames = args
    /\ file = None
    /\ stdin = FALSE
    /\ iter = IF args = <<>> THEN NewIter(Stdin) ELSE NoIter
    /\ ferr = FALSE
    /\ serr = FALSE
    /\ vs = <<>>
    /\ open = {}
    /\ pc = "idle"
    /\ taken = <<>>
    /\ queries = IF null THEN {Query(0, <<"null">>)} ELSE {}

InputsInit ==
    \E a \in ArgLists, k \in Kinds, s \in BOOLEAN, n \in BOOLEAN :
        /\ k = "all" => s
        /\ InputsStart(a, k, s, n)

\* The loop takes an input when it has nothing to do; the pool's producer holds one and
\* each worker runs a query on another.
LoopFree == ~null /\ Cardinality(queries) < IF Workers = 1 THEN 1 ELSE Workers + 1

\* A query that reads inputs itself does so between two of its own steps.
Reading(q) == Workers = 1 /\ q.pc = "running"

\* Next is called by the loop, or by a query's input.
CallNext ==
    /\ pc = "idle"
    /\ LoopFree \/ \E q \in queries : Reading(q)
    /\ ~serr
    /\ pc' = "files"
    /\ vs' = <<>>
    /\ UNCHANGED <<args, kind, slurp, null, fnames, file, iter, ferr, serr, stdin, open, taken, queries>>

\* The query that called input.
Taker(q) == ~LoopFree /\ Reading(q)

Takes(q, r) == queries' = (queries \ {q}) \cup {[q EXCEPT !.own = r]}

\* What the caller does with a result.  The loop reports an error and goes on, and runs the query
\* on anything else; the pool's producer hands errors to a worker as well.  A query
\* that called input goes on with the result, or handles the error.
Deliver(r) ==
    /\ taken' = Append(taken, r)
    /\ pc' = "idle"
    /\ \/ /\ LoopFree
          /\ queries' = IF IsError(r) /\ Workers = 1 THEN queries
                        ELSE queries \cup {Query(Len(taken) + 1, r)}
       \/ \E q \in queries : Taker(q) /\ Takes(q, r)

\* Mutant: errors are collected like values.
PassAll(r) ==
    \/ /\ ~slurp
       /\ Deliver(r)
       /\ UNCHANGED <<serr, vs>>
    \/ /\ slurp
       /\ vs' = Append(vs, r)
       /\ UNCHANGED <<serr, pc, taken, queries>>

\* slurpInputIter.Next and slurpRawInputIter.Next collect the results of the iterator below
\* up to its first error; without slurping each result is returned.
Pass(r) ==
    \/ /\ ~slurp
       /\ Deliver(r)
       /\ UNCHANGED <<serr, vs>>
    \/ /\ slurp /\ IsError(r)
       /\ serr' = TRUE
       /\ Deliver(r)
       /\ UNCHANGED vs
    \/ /\ slurp /\ ~IsError(r)
       /\ vs' = Append(vs, r)
       /\ UNCHANGED <<serr, pc, taken, queries>>

\* The iterator below has nothing more.
PassEnd ==
    \/ /\ ~slurp
       /\ pc' = "idle"
       /\ \/ LoopFree /\ UNCHANGED queries
          \/ \E q \in queries : Taker(q) /\ Takes(q, <<"end">>)
       /\ UNCHANGED <<serr, vs, taken>>
    \/ /\ slurp
       /\ serr' = TRUE
       /\ Deliver(Slurped(vs))
       /\ UNCHANGED vs

\* filesInputIter.Next with no file open: the next one is opened.
OpenFile ==
    /\ pc = "files"
    /\ args # <<>>
    /\ ~ferr
    /\ file = None
    /\ fnames # <<>>
    /\ fnames' = Tail(fnames)
    /\ LET f == Head(fnames)
       IN  \/ /\ ~Content[f].opens
              /\ Pass(OpenError(f))
              /\ UNCHANGED <<file, iter, open>>
           \/ /\ Content[f].opens
              /\ file' = f
              /\ open' = IF f = Stdin THEN open ELSE open \cup {f}
              /\ iter' = NewIter(f)
              /\ UNCHANGED <<serr, vs, pc, taken, queries>>
    /\ UNCHANGED <<args, kind, slurp, null, ferr, stdin>>

NoFileLeft ==
    /\ pc = "files"
    /\ args # <<>>
    /\ ~ferr
    /\ file = None
    /\ fnames = <<>>
    /\ ferr' = TRUE
    /\ iter' = NoIter
    /\ PassEnd
    /\ UNCHANGED <<args, kind, slurp, null, fnames, file, stdin, open>>

\* A value or an error of the current file; without arguments the iterator has no other around it.
\* A decoder reads ahead: whoever gets standard input next finds it at its end.
ReadNext ==
    /\ pc = "files"
    /\ args = <<>> \/ file # None
    /\ iter.left # <<>>
    /\ iter' = [iter EXCEPT !.left = Tail(@)]
    /\ stdin' = (stdin \/ args = <<>> \/ file = Stdin)
    /\ Pass(Head(iter.left))
    /\ UNCHANGED <<args, kind, slurp, null, fnames, file, ferr, open>>

\* Mutant: the handle is left open.
ForgetFile ==
    /\ pc = "files"
    /\ file # None
    /\ iter.left = <<>>
    /\ file' = None
    /\ stdin' = (stdin \/ file = Stdin)
    /\ UNCHANGED <<args, kind, slurp, null, fnames, iter, ferr, serr, vs, open, pc, taken, queries>>

CloseFile ==
    /\ pc = "files"
    /\ file # None
    /\ iter.left = <<>>
    /\ file' = None
    /\ open' = open \ {file}
    /\ stdin' = (stdin \/ file = Stdin)
    /\ UNCHANGED <<args, kind, slurp, null, fnames, iter, ferr, serr, vs, pc, taken, queries>>

\* Standard input alone, at its end; or Next of an iterator that is over.
NothingLeft ==
    /\ pc = "files"
    /\ \/ args = <<>> /\ iter.left = <<>>
       \/ ferr
    /\ PassEnd
    /\ UNCHANGED <<args, kind, slurp, null, fnames, file, iter, ferr, stdin, open>>

-------------------------------------------------------------------------------
(* The queries.                                                            *)

\* A query takes a step while the loop waits for it, or at any time in the pool.
Steps(q) == q \in queries /\ (Workers > 1 \/ pc = "idle")

Becomes(q, now) ==
    /\ queries' = (queries \ {q}) \cup now
    /\ UNCHANGED <<args, kind, slurp, null, fnames, file, iter, ferr, serr, vs, stdin, open, pc, taken>>

Named(q, name) == [n |-> q.n, own |-> q.own, pc |-> "named", seen |-> name]

\* input_filename: Name of filesInputIter looks at i.iter, and then at what it points to.
AskName(q) ==
    /\ Steps(q)
    /\ q.pc = "running"
    /\ IF iter = NoIter THEN Becomes(q, {Named(q, "null")})
       ELSE Becomes(q, {[q EXCEPT !.pc = "naming"]})

GetName(q) ==
    /\ Steps(q)
    /\ q.pc = "naming"
    /\ Becomes(q, {Named(q, IF args = <<>> /\ null THEN "null"
                           ELSE IF iter = NoIter THEN "panic"
                           ELSE Shown(iter.name))})

EndQuery(q) ==
    /\ Steps(q)
    /\ q.pc \in {"running", "named"}
    /\ Becomes(q, {})

\* When the inputs are used up, or a query halts, the deferred Close is called, once.
CloseInputs ==
    /\ pc = "idle"
    /\ \A q \in queries : q.pc # "naming"
    /\ pc' = "closed"
    /\ queries' = {}
    /\ \/ /\ file # None
          /\ open' = open \ {file}
          /\ file' = None
          /\ ferr' = TRUE
       \/ /\ file = None
          /\ UNCHANGED <<open, file, ferr>>
    /\ serr' = slurp
    /\ UNCHANGED <<args, kind, slurp, null, fnames, iter, vs, stdin, taken>>

InputsNext ==
    \/ CallNext
    \/ OpenFile
    \/ NoFileLeft
    \/ ReadNext
    \/ CloseFile
    \/ NothingLeft
    \/ \E q \in queries : AskName(q) \/ GetName(q) \/ EndQuery(q)
    \/ CloseInputs

InputsSpec == InputsInit /\ [][InputsNext]_fileVars

-------------------------------------------------------------------------------
InputsTypeOK ==
    /\ args \in ArgLists
    /\ kind \in Kinds
    /\ {slurp, null, ferr, serr, stdin} \subseteq BOOLEAN
    /\ fnames \in Seq(DOMAIN Content)
    /\ file \in DOMAIN Content \cup {None}
    /\ open \subseteq DOMAIN Content
    /\ pc \in {"idle", "files", "closed"}
    /\ \A q \in queries : /\ q = [n |-> q.n, own |-> q.own, pc |-> q.pc, seen |-> q.seen]
                           /\ q.pc \in {"running", "naming", "named"}

\* What the i-th argument yields, whatever came before it.
Yields(i) ==
    LET f == args[i]
    IN  IF ~Content[f].opens THEN <<OpenError(f)>>
        ELSE IF f = Stdin /\ \E j \in 1 .. i - 1 : args[j] = Stdin
        THEN IF kind = "all" THEN <<<<"nothing">>>> ELSE <<>>
        ELSE Results(f, kind)

Yielded == IF args = <<>> THEN Results(Stdin, kind) ELSE FlattenSeq([i \in DOMAIN args |-> Yields(i)])

\* The inputs of a command line.
Expected ==
    IF ~slurp THEN Yielded
    ELSE LET errors == {i \in DOMAIN Yielded : IsError(Yielded[i])}
         IN  IF errors = {} THEN <<Slurped(Yielded)>> ELSE <<Yielded[Min(errors)]>>

\* Every input is taken once and in the order of the command line, whoever takes it, the loop or the
\* queries; a file that fails or cannot be opened costs no value of another one, and when
\* Next has nothing more all have been taken (filesInputIter.Next, the slurping iterators).
InputsInOrder ==
    /\ InputsTypeOK
    /\ IsPrefix(taken, Expected)
    /\ pc = "idle" /\ (serr \/ (~slurp /\ ferr)) => taken = Expected

\* The handle of a file is closed before the next one is opened, and after Close none is left,
\* however the run ended (filesInputIter.Next and Close).
HandlesClosed ==
    /\ open = {file} \ {None, Stdin}
    /\ pc = "closed" => open = {}

\* A query that asks for the name of its file is given that of the file its input, or what it took
\* last, comes from (input_filename; cli/parallel.go:7 says that the pool's output is
\* that of the loop).
NamesOwnFile ==
    \A q \in queries :
        q.pc = "named" =>
            /\ q.own[1] \in {"value", "whole", "readerror"} =>
                   q.seen = IF args = <<>> /\ null THEN "null" ELSE Shown(q.own[2])
            /\ q.own[1] = "null" => q.seen = "null"
===============================================================================
