# jqlm in TLA+

jqlm is gojq, a jq interpreter in Go, with builtins that ask a language model
(`llm_select`, `llm_judge`) or a decision model (`jev_select`, `jev_judge`,
`jev_classify`) about a value, and a worker pool that processes several inputs
at once. This directory holds TLA+ modules translated from the Go code, TLC
configurations that check them, and TLAPS proofs. `PROJECT.json` lists the runs, the source
lines behind every definition, the hazards of the code and the findings.

    tlc -workers 2 -config MCParallel.cfg MCParallel.tla     # a run
    tlapm ParallelProofs.tla                                 # a proof

## 1. The system

### The command line and the inputs (`cli/flags.go`, `cli/inputs.go`, `cli/stream.go`, `cli/error.go`)

*State.* `parseFlags` walks over the arguments and changes them as it goes (an attached value is put in
the place of its option). The input iterators keep the files left, the open file, an
iterator on it and sticky errors; `jsonStream` keeps a path, a stack of states and the decoder;
`inputReader` keeps a part of what it has read for error messages.

*Operations.* `createInputIter` wraps iterators in one another (files, JSON, YAML, raw, stream, slurp, null).
`Next`, `Close` and `Name` are called by the loop over the inputs, and by queries through `input` and
`input_filename`.

*Hard behaviour.* Errors of opening, reading and decoding in the middle of a list of files; the name and
the handle of a file that is just being left; a stream that is cut off; a line number counted in
a buffer of which the front has been thrown away.

*Correct when* every value of every file comes once and in order, an error ends its own file only, nothing stays
open, a query is told the file its input came from, the events of a stream are those of the value,
and a command line means the same in every spelling.

### Processing inputs (`cli/cli.go`, `cli/parallel.go`)

*State.* The input iterator, the buffered output, `cli.exitCodeError` (the code
tracked for `--exit-status`), the error `process` will return. With
`--llm-concurrency N`, N > 1: channels `items`, `results`, `quit`; one producer,
N workers, a closer; the collector's `pending`, `next`, `procErr`, `halted`.

*Operations.* `process` reads an input, runs the query, prints the values, handles
the error, and goes on. `processParallel` splits this: the producer reads, each
worker runs the query on one input, the collector (the calling goroutine)
reorders the results and prints them.

*Hard behaviour.* Results arrive in any order. A halt must stop the printing at its
place in the input order, and every goroutine must get out of its channel
operation. Selects choose among ready cases at random.

*Correct when* each input is printed once, in order, up to the first halt, as by the
sequential loop, and the function returns with no goroutine left behind.

### The llm and jev builtins (`cli/llm.go`, `cli/jev.go`)

*State.* A decider per service, built on first use under a `sync.Once`: its
configuration and the counters `calls` and `failures`. Package state: the coalesced
warnings (`warnSeen`, `warnRepeated`) and flags. Per call: the attempt, the chunk,
the verdict so far, the last error.

*Operations.* A call checks its arguments, sends a request per chunk, retries some
failures, and fails open: a failed call discards the item, counts, warns, and
marks it. At the end of the run the counters decide the exit code (`--fail-closed`) and
the summaries, and the warnings are flushed.

*Interaction.* Workers of the pool call the builtins concurrently; the calls share the
counters and the warnings; the main goroutine reads both after the workers ended.

*Hard behaviour.* Responses that are late, lost, incomplete or undecodable; retries; one
of several chunks failing; counting, warning and marking as separate steps; the
order in which deferred functions and flags decide the exit code.

*Correct when* a verdict was really answered, every loss is counted once, the exit code
tells of it, and stderr accounts for every warning.

### Chunking (`cli/jev.go`)

A string, array or object whose JSON exceeds the limit is cut into states that are
judged one by one: `chunkString` guesses a cut, marshals, and shrinks; `batchElements` and `batchObject`
collect what fits together and have a string among it cut. *Correct when*
each state fits, nothing but newlines is lost, no rune is cut, and it returns.

### The interpreter (`execute.go`, `stack.go`, `scope_stack.go`, `env.go`, `compiler.go`)

*State.* An `env` per run of the query: the program counter, three stacks (values, paths,
scopes), the pending forks, the variables with their frame offset.

*Operations.* One per opcode. `pushfork` saves the three stacks as pairs of integers;
backtracking (`popfork`) restores them; slots up to `limit` are not reused
until the fork that protects them is gone. `opscope`/`opret` push and pop frames,
`index` finds a variable through `outerindex`. The compiler turns a query into these opcodes,
reserving instructions whose target it does not know yet, and optimises tail calls,
constants and pairs of neighbours.

*Hard behaviour.* Nested forks, closures that outlive their frame through a fork, tail calls
that reuse a frame, errors that unwind through forks of `try`, `//` and `label`.

*Correct when* backtracking finds everything as it was, and the values a query yields are
those its meaning gives.

### Values (`func.go`, `operator.go`, `compare.go`)

*State.* None but memory: arrays and maps are shared by everything that refers to them. An update
(`=`, `|=`, `delpaths`) carries an allocator that knows the blocks it made itself and changes those in place.

*Operations.* The builtins, operators and the order of all values. Numbers are machine integers, big
integers, floats, or digits that are parsed when needed.

*Hard behaviour.* Overflow at the ends of the machine integers; floats near the ends of theirs;
the same number kept in four ways; strings counted in bytes here and in runes there; a block
that is changed in place while somebody else holds a part of it.

*Correct when* the functions agree with one another and with what they mean, arithmetic on integers is exact, and
nobody's values change under them.

### The rest

Lexer, parser (generated), query printer, encoders, module
loader, configuration, error messages, debug traces: sequential code
without shared state. `PROJECT.json` says for each why it is not modelled.

## 2. The modules

| Module | Models | Uses |
| --- | --- | --- |
| `Output` | what an input may produce and what printing it does: `printValue`, the exit status, the error output | |
| `Sequential` | `process` and `printValues`: one step per iteration | `Output` |
| `Parallel` | `processParallel`: one step per channel operation, per query, per printed result | `Output`; refines `Sequential` |
| `ParallelProofs` | theorems about `Parallel` | `Parallel`, `TLAPS` |
| `Warnings` | `llmWarnOnce` (split at the unlock) and `warnFlushSuppressed` | |
| `Deciders` | the llm and jev calls and the end of the run | `Warnings` |
| `DecidersProofs` | theorems about `Deciders` and `Warnings` | `Deciders`, `TLAPS` |
| `Snapshots` | stacks that are copied at every fork | |
| `Forks` | `stack.go`, `scope_stack.go`, `pushfork`, `popfork` | refines `Snapshots` |
| `ForksProofs` | theorems about `Forks` | `Forks`, `Induction` |
| `Chunk` | `chunkString` | |
| `Batches` | `chunkStates`, `batchElements`, `batchObject` | `Chunk` |
| `ChunkProofs` | theorems about `Chunk` and `Batches` | `Batches`, `Induction` |
| `Induction` | lemmas for other proofs: least and greatest numbers, recursive functions on an interval, chains of blocks | `TLAPS` |
| `Terms` | values, errors, native functions and the syntax of queries | |
| `Compiler` | `compiler.go`: from queries to instructions | `Terms` |
| `Machine` | `env.Next` of `execute.go`: one step per instruction | `Terms`; refines `Answers` |
| `Layout` | what the compiler owes the interpreter: a condition on a program, checked of every program of the run `machine` | `Machine` |
| `MachineProofs` | theorems about `Machine` | `Layout`, `Induction` |
| `Meaning` | the values and the error a query means | `Terms` |
| `Answers` | what the caller of a query's iterator sees | |
| `Flags` | `parseFlags` and `$ARGS` | |
| `Phrases` | what command lines say, in which spellings | `Flags` |
| `Inputs` | `createInputIter` and the iterators, with the queries that call them | |
| `Documents` | JSON documents as rows of tokens and values, and the events they mean | |
| `Stream` | `jsonStream` | `Documents` |
| `Position` | `inputReader`, offsets of JSON errors, `getLineByOffset` | |
| `InputsProofs` | theorems about `Inputs`, `Position`, `Flags` and `Stream` | `Inputs`, `Position`, `Phrases`, `Stream`, `Induction` |
| `Data` | the values of jq, the bounds of a slice | |
| `Values` | builtins and operators on arrays, objects and strings; the order | `Data` |
| `ValueLaws` | what they promise | `Values` |
| `Numbers` | arithmetic, conversions, `range` | `Data` |
| `NumbersProofs` | theorems about `Numbers` | `Numbers`, `Induction` |
| `Updates` | `getpath`, `setpath`, `delpaths`, the loops of `=` and `\|=`, the allocator, in a memory of blocks | `Data` |
| `MC*` | the constants of the runs; `MCMachine` joins `Machine`, `Compiler` and `Meaning`, `MCLayout` these and `Layout`, `MCInputs` the modules from `Flags` to `Position`, `MCValues` those from `Data` on | |

### Parallel and Sequential

`producer`, `worker`, `collector` are where each goroutine is in its loop; `seq`, `item`,
`pending`, `next`, `halted`, `procErr` are the code's variables; `quit`, `closed` say that
a channel is closed. The channels are unbuffered, so a send and its receive are one step
(`Dispatch`, `SendResult`). The two cases of a select are two actions that are both
enabled. Indices start at 1 in the model and at 0 in the code. `items` is
closed when the producer is done.

A query's run on an input is one step with a fixed result, the sequence of values before
the first error and that error: the code hands over nothing earlier. Values are
reduced to truthy, falsy (they set the exit status) and nul (a string with a NUL
under `--raw-output0`, which `printValue` refuses). An input may be an error of the
iterator: the pool runs the query on it all the same, the sequential loop does not.

stdout is a sequence of blocks, one for each input. stderr is a sequence of reports. The part
of stderr written after the first halt is kept in a variable of its own, `late`, because the
sequential loop has no counterpart.

`SequentialUpToHalt` is the refinement: printing an input's result is an
iteration of the sequential loop, and everything else stutters. It needs
`WorldsAgree`, which says where the two loops are written to differ: errors of the iterator, and
values after a refused one.

### Deciders and Warnings

One record of `Tasks` is what a builtin is called with, reduced to what the checks before
the first request make of it. `pc` follows a call through construction, the
checks, the announcement of chunks, request, answer, back-off, and then failure: count, warn,
print, mark. These are separate steps since other calls run in between. An answer is one
of `Outcomes`. `"half"` is a response whose decoding fails after the verdict was stored: the
destination `out` of the llm decider is declared outside the attempts' loop and keeps it (`Spoil`), until a
`"null"` clears it. A budget of time may be `"spent"`, for jev also `"spentReading"`, while the body is read: `jevCall`
looks at the kind of an error of the transport, but retries any error of reading. The history keeps apart the verdicts
that came in decoded responses (`carried`) and those in responses that failed to decode (`spoilt`).

`process` itself is not part of this module: when all calls have returned it may have left any
status and returned any error (`Exit`).

### Forks and Snapshots

`data`, `index`, `limit` are the fields of each stack, `forks` the saved pairs. Program counter,
`offset` and `expdepth` of a fork are not modelled here. The history variable `view`
remembers for each slot the whole stack below it when it was written; `Contents` reads a
stack's values from it, `ViewFollowsBlocks` says that the linked blocks still hold
just these values. The scopes stack is assigned an index by `opret`; it is the
index the pop leaves, since a scope's `saveindex` is the index below it.

### Chunk and Batches

A string is a sequence of bytes of seven kinds, enough for the JSON length (1, 2 or 6 bytes for
a byte), the separators, and the rune boundaries. `Cut` is the first part of an
iteration of the outer loop, `Shrink` an iteration of the inner one, `Emit` and `Drop` its
ends.

In `Batches` an item is a value or a list of entries, one for an element of an array or a key of an
object. `Group`, `Split`, `Alone` and `GiveUp` are what an iteration over the entries may do; `Split` calls
`chunkString` (`Call`), whose steps follow, and `TakePieces` wraps what it returns. `curLen` is the length as the
code counts it; `StateLen` is the length of the JSON.

### Machine, Compiler and Meaning

`Compiler` is `compiler.go` as operators on the state of a compilation: the instructions so far and
the open scopes. A deferred `lazy` is a pair `Reserve`, `Patch`. `Unoptimized` ends before
`optimizeCodeOps`, `Compile` after it. Instructions are numbered from 1, and a call of a function written in
Go has an opcode of its own, `native`, which the code tells by the type of the operand.

`Machine` has an action for each opcode, and one more for what it does when its fork is popped (`BackAt...`).
`Unwind` is `break loop` with a pending fork, `End` without one. `pc`, `backtrack`, `err`, `forks`,
`scopes`, `values`, `offset`, `expdepth`, `label` are the code's variables; `call` is the pair
`callpc`, `index` that `opscope` reads. The value stack of a fork is a copy, which is what `Forks` is shown to
implement; the scope stack keeps its blocks, since closures refer to them by number and `popscope`
compares with `limit`. The caller takes values until the first error, as `printValues` does.

`Meaning` defines a query's values by recursion on the query, with an environment of names and no
instruction, stack or slot. A function's body is evaluated where it was defined, a closure's where it was
made, an alternative's variables are null where its pattern does not have them. `Answers` hands these values out
one by one; `MeansWhatItSays` says that `Machine` on compiled code implements it, also that it ends.

`Layout` is what lies between the two. The interpreter checks nothing: that there is a value to take, that
a variable is in its frame, that a return finds one element where the call left its arguments, it takes from the compiler. `Notes`
goes through the instructions once, as a bytecode verifier would, and writes down what whoever is at an instruction
knows: the scope it is in (`home`), those around it (`sees`), which elements of the stack the function has put there
are closures (`shape`), how many expressions it is in (`depth`) and how many parameters it has stored (`set`). `Following`
is what each instruction makes of that, `Permitted` what it relies on, and `Agree` that all ways to an instruction know
the same. `LaidOut` is that the notes of a program agree with it.

The fragment: identity, constants, `,` `|` `//` `and` `or` `if` `try`, `[...]`, `.[n]`, `.[]`, `as` with array
patterns and `?//`, `reduce`, `foreach`, `label`/`break`, functions with closures, and calls
of native functions (`error`, `halt`, `_add`). Values are null, booleans, numbers, arrays; the messages of
errors are strings a query can only pass on.

### Flags, Inputs, Stream, Position

`Flags`: an argument is a sequence of the pieces `parseFlags` cuts it into, so that `--arg=x`, `-nr` and `-L=x` are
told apart without characters. The table of options is a constant: `Kind` is what kind of field an option sets (switch, value,
counter, map, list, collecting list), `Short` the options that have a letter; only the two collecting lists are fixed, since
`$ARGS.positional` is put together from `--args` and `--jsonargs`. Each form of an argument is an action; `LongEquals` puts the
value in place of the option and does not move on, as the code does.

A command line comes with what it says (`meant`) and with marks of how far its arguments come with how much of that. `Phrases`
defines without reference to `Flags`' actions what a phrase `Says`: a word, an option with its values behind it or attached, a
group of letters of which the last may take values, a list with a word attached; what `IsWrong`; and that `--` makes words of all
that follows. `PhrasesAssumption`, which TLC evaluates, is that command lines are rows of phrases between their marks. Every
argument list but one is such a row: a value attached to a list that is no word (`--args=-n`), which the code reads as an
option, is left out, since nothing says what it means.

`Inputs`: `CallNext` enters `Next` of the outermost iterator; `OpenFile`, `ReadNext`, `CloseFile`, ... are
the steps of `filesInputIter.Next`, and `Pass` is what the wrapping iterators make of a result. `open` has the open
handles. `queries` are those that run on an input: they ask for a name in two steps, since `Name` looks at `i.iter`
before it uses it, and take inputs themselves. `Workers = 1` lets a query run only while the loop waits.

`Stream`: the decoder's tokens are consumed one at a time, each state of `next` is an action, and a document may be cut
off after any token or go on with a bad character.

`Documents` says what a document is without reference to `jsonStream`: a row of tokens, and a row of values that each have a path, a first
and a last token, and parts. `IsDocument` ties them together: a part begins right after the one before it, in an object after its key,
and its path is that of the value around it and one step; a value ends right after its last part. The first value is the document as a
whole. That the `Documents` of a run are of this form is `DocumentsAssumption`, which TLC evaluates. `EventsAt` is the event that
a token completes, read off the value to which the token belongs; `Known` puts together those of the first tokens. To see that
this is what the values mean, `MCInputs` lays its documents out from nested values (`LaidOut`) and compares, in the assumption `MeaningOfValues`,
`Known` of the whole with the events by recursion on the values (`EventsOf`).

`Position`: `Refill` is a read of the decoder through the `TeeReader`, `ScanValue` the end of a value, when the front of
the buffer is dropped and its lines are counted; `Message` calculates the line as `jsonParseError` does. The two counts
differ: what is passed over is counted by its newlines, what is left is split into lines at newlines and at lone carriage returns
too (`LineEnds`).

### Values, ValueLaws, Numbers, Updates, Data

`Values` has each builtin as an operator that follows the code's loops and conditions; an action calls one of them on
values from `Calls` and keeps the result. `ValueLaws` relates the results to one another and to what they mean. A
string is a sequence of runes of one or two bytes; functions that work on bytes in the code do so in the
model (`Encoded`). Not every number up to `MaxRune` is a rune (`Surrogates`), nor need every byte belong to one (`Stray`):
`Rune` is what `WriteRune` makes of the former and `explode` of the latter.

`Numbers` keeps every value in halves: an integer `n` as `2n`, a float as a multiple of one half with `Precision`
bits, the last of which is worth up to two to the `MaxExponent` of them. `Wrap` is two's
complement at `HalfRange`, and the operators have the code's own overflow tests (a sum that has
the wrong sign, a product divided back).

`Updates` has a memory: an array is a block, an offset, a length and a capacity, as a Go slice is, and updates write to
blocks that the allocator has and copy the others. `own` is what the allocator knows. `held` remembers what a query was given and
what it was worth then.

## 3. The runs

| Run | Bounds | Result |
| --- | --- | --- |
| `parallel` | 2 workers, sequences of up to 4 inputs of 4 kinds | 378,000 states; seven properties hold |
| `deciders` | 2 calls, 7 tasks, 2 chunks, 2 attempts | 673,000 states; seven properties hold |
| `fail_closed` | 1 call, with and without `--exit-status` | `FailClosed` is violated |
| `forks` | 1 stack of 2 values, 4 slots, 2 forks | 423,000 states; five properties hold |
| `chunk` | strings of up to 4 characters of 6 kinds, arrays of up to 3 elements and objects of up to 2 keys of a pool of 10 values, 11 limits from 0 to 20 | 266,000 states; four properties hold |
| `chunk_hang` | two strings of continuation bytes, limit 8 | `NeverHangs` is violated |
| `machine` | 2,724 programs on `[[3],null]` | 94,000 states; four properties hold |
| `machine_fused` | 27 queries with a constant after a comma | `OnlyMeantValues` is violated |
| `inputs` | command lines of up to 3 phrases; up to 3 files; documents of 3 levels cut off anywhere; a buffer of 4 bytes filled by 3 | 1,285,000 states; six properties hold |
| `values` | calls on small values, integers of 5 bits, floats of 4; lists of up to 2 paths | 375,000 states; seven properties hold |
| `held` | as `values` | `HeldKeptAlways` is violated |
| `digits` | as `values` | `EndRoundedUp` is violated |

*Why the bounds suffice.* With two workers and four inputs one slow input can have two others overtake
it, and after a halt both workers can drop a result while the producer holds one more input, the
least in which a producer without the case for quit would be left behind; the safety proofs cover any number. Two calls are the least that share a counter or a
message; two attempts the least with a first and a last; two chunks likewise. Forks of depth two
are the least where an inner fork must leave the outer one's protection alone; three
stacks would only multiply the state space, as they never touch each other.

Limits of 8, 11 and 16 make half the budget 4, 5 and 8: the first cut falls before, inside and after the
longest rune; 7 is below the smallest budget that is cut. With those in between each of the bytes reserved for
brackets, keys and commas decides for some item: one byte less in `Room` or two in `Group` violates `StatesFit`.
Keys have no escapes, as many as the reserve has room for, and more.

A query of `machine` stands within a function, a variable and a label it may use. Every operator is
tried with each of nine leaves in its two places, and those with five leaves again inside
another operator that uses the value underneath; recursion, closures, handlers and patterns are chosen
by hand, so that tail calls replace frames with and without forks behind them. Queries in which a jump goes to the
second of two fused instructions are left to `machine_fused` (`Unfused`): there the two ways to that instruction leave
different stacks, which is what `LayoutAssumption` excludes. TLC evaluates it for each of the 2,724 programs
of `machine`. Input and leaves are small since control does not depend on how large a value is.

Three files are the least where one between two others fails; they are values followed by a syntax error, a failed
read, or nothing, missing ones, standard input once and twice, and empty ones. Documents of three levels have every pair of containers in one another. A
buffer of four bytes is dropped while an error still lies ahead, and a read of three puts bytes in it that are not
scanned yet. Lone carriage returns are among the bytes before an error, passed over and not. Phrases of the command line meet in every order in pairs, and those that turn a mode on (`--args`, `--`)
in triples.

Integers from -16 to 15 have sums and products beyond both ends, and products that wrap around more than once; floats with four
bits are rounded and become infinite at 128 (`MaxFloat` = 256 halves), within reach of a product. `MaxRange` = 40 ends ranges that would not.
Sixteen numbers (`MaxRune` = 15) have neighbours on both sides of the one-byte limit (`OneByte`), and among the two-byte ones
`RuneError` and one that is a surrogate; a seventeenth is the byte that is no rune; `LongString` = 12 is passed by repeating. Lists of two paths of up to two steps are the least where the
first makes a block that the second changes. `MaxDepth` bounds how deep the model reads a value that contains
itself, which only `held` makes.

*Deadlock* is not checked as every model ends: a run that is over has no next step. That they do not
stop early is what `Termination`, `NoGoroutineLeak` and `RunEnds` say, and the last conjuncts of `InputsInOrder` and
`EndsWithinValue`.

*Fairness.* `Parallel`: weak fairness of each goroutine. The Go scheduler runs whatever can run, the
iterator is assumed to return and queries to end. No fairness of the choice in a
select: a producer may take `items` for as long as it likes. `Deciders`: weak fairness of each
call and of the end of the run; a request ends since its context has a timeout. `Batches`:
weak fairness of its only process, used by `chunk_hang` alone. `Machine`: weak fairness of its only
process; the queries of the run end.

*The properties.*

Parallel: `OnePlace` (nothing lost or doubled), `PrintedInOrder`,
`ReturnsComplete` (on return all is printed and the iterator is free to be closed),
`SequentialUpToHalt`, `Termination`, `NoGoroutineLeak`.

Deciders: `FailuresAreDiscards` (the failure counter is the number of items lost to failures, within the calls),
`VerdictIsAnswered`, `WarningsAddUp`, `FailClosedAlone`, `NoRetryAfterFinal`, `RunEnds`. Two of them say how far the code
keeps what its comments promise: `VerdictIsAnswered` lets an llm verdict also come from an earlier response that failed to
decode, `NoRetryAfterFinal` lets jev retry a budget spent while a body was read. Both exceptions are disagreements (section 4), and
the properties say that there are no others.

Forks: `ForksProtected`, `ViewFollowsBlocks`,
`FreeWhenUnshared` (popscope's integer test means that no pending fork can come back to the
scope), `SavedLikeCopies`.

Chunk and Batches: `StatesFit`, `StatesKeep` (both speak of the pieces and of the states made of them), `RunesWhole`,
`EveryPassShortens`. The last stands for termination: an inner loop counts to 64, so a string that gets
shorter with each pass is used up. The properties of content are stated for valid UTF-8; for
invalid strings `chunk_hang` shows that it fails. `StatesFit` leaves out what cannot fit: a single element, a limit without room for a
rune, and a key whose escapes take the room; the last is something the code overlooks (section 4).

Machine: `MeansWhatItSays`, `FramesApart` (frames that may be run in again share no
variable), `OuterFramesLive` (variables are looked up in frames that have not returned),
`NothingLeftBehind` (at each value the stacks are as they were at the start).

Inputs: `InputsInOrder`, `HandlesClosed`, `NamesOwnFile`; `CommandLineMeant` joins `RefusedWhenWrong`,
`PositionalInOrder` and `ValuesMeant`; `StreamMeant` joins `EventsMeant` (the events are those of the document, each
returned as soon as it is known), `EndsWithinValue` (a document that stops within a value is an error, one that stops
between values is not) and `PathFollowsStates`; `KeptErrorLine` says that the line in a message is right as long as
the byte it is about has not been dropped from the buffer, but for the lone carriage returns in what was passed over: each
of them makes it one too small, and nothing else does (section 4).

Values: each property joins laws about one hazard. `OneOrder`: `OrderTotal`, `KeysReached`, `SortedStably`, `GroupsPartition`,
`ExtremesAgree`, `SearchAgrees`. `TextKept`: `SplitJoins`, `AffixesComeOff`, `StringsAsRunes`, `IndicesAgree`,
`RowsTellApart` (rows of @csv and @tsv can be read back). `PartsKept`: `AddIsFold`, `SumsContain`, `MergeKeepsBoth`, `RepeatedWithinLimit`,
`ShapesKept`. `NumbersExact`: `Exact`, `RangeExact`, `Saturates`, `TimeKept`. `DigitsLikeNumbers`: digits that are kept
count as the number they are. `MeansReduce`: an update comes to what its definition in jq comes to, which copies.
`OthersKept`: `HeldKept` (what a query was given does not change under it) and `InputKept`.

## 4. Findings

Each violation run shows where the code does not do what its own comments, tests or README say.

- `fail_closed`: `--exit-status` hides `--fail-closed` (`cli/cli.go:340`, README:86).
- `chunk_hang`: long runs of continuation bytes hang `chunkString` (`cli/jev.go:435`, comment at 448).
- `machine_fused`: `optimizeCodeOps` fuses an instruction with the next one although a jump goes between them
  (`compiler.go:1690`): `if ((1,$x)|2) then . else [.] end` yields 1 where it should yield the input, as
  do `reduce` and `as` with such a source.
- `held`: a slice that does not begin at the first cell of its array is not released (`func.go:1493`, comment at 1528), so
  that a later path changes a value that the update function keeps.
- `digits`: the end of a slice is rounded up in a query and cut off in the input (`func.go:2148`, `cli/test.yaml:559`).

More came up in the same models. They have no run of their own; putting the property or constant named here into the
configuration shows them.

- `HaltIsFinal` in `MCParallel.cfg`: after a halt, errors of results that are drained still reach stderr and
  replace the error that is returned (`cli/parallel.go:123-141`, comment at 144).
- `ByteIdentical` in `MCParallel.cfg`, with `"masked"` among the `Kinds`: the pool runs the query on errors of the iterator
  (`cli/parallel.go:63`, comment at 6).
- `EveryDiscardMarked` in `MCDeciders.cfg`: a response without a verdict loses an item unmarked (`cli/jev.go:614`, `679`,
  README:89).
- `VerdictIsDecoded` in `MCDeciders.cfg`: a response that fails to decode after its `shouldkeep` was stored, followed by one that
  omits it, gives the earlier verdict, since `out` outlives the attempt (`cli/llm.go:350`). The comments at 145-147 ("must not
  silently decode to false") and 361-363 want a failed call.
- `BudgetSpentOnce` in `MCDeciders.cfg`: a deadline that ends while a jev body is read is retried with a fresh timeout
  (`cli/jev.go:315`), against `jevRetryable` (339), which the transport's errors are asked, and the comment at `cli/llm.go:386`.
- `Items <- LongItems` and `Limits = {210}` in `MCChunk.cfg`: text before a long run of newlines is dropped, against
  `StatesKeep` (`cli/jev.go:448`, `cli/verify_chunk_test.go:175`).
- `StatesFit` without the last case of `Unfit`: a piece under a key with escapes exceeds the limit (`cli/jev.go:558` reserves
  the key's length in bytes, comment at 358).
- `StalePrograms` in `MCMachineFused.cfg`: alternatives keep variables of earlier rounds (`compiler.go:541`):
  `.[] as [$a] ?// $b | [$a,$b]` on `[1,[2]]` yields `[null,1]` and `[2,1]`; `cli/test.yaml:6987` expects null in place of the last 1.
- `HaltPrograms` in `MCMachineFused.cfg`: a halt is not seen by `opforkalt` after the end of a try (`execute.go:109`, `116`): in
  `try (. as [$a] ?// $a | $a) | (., halt)` the next pattern is tried and printed after the halt, against
  `CHANGELOG.md:53`.
- `NamesOwnFile` with `Workers = 2` and `Parts = {"files"}` in `MCInputs.cfg`: a query in the pool is told the name of a later file, or none, since the
  producer has moved on (`cli/cli.go:375`).
- `ErrorLine` in `MCInputs.cfg`: on a pipe, the line of an error in a value that is larger than the buffer is wrong, against
  `CHANGELOG.md:198`.
- `ErrorLineOfKept` in `MCInputs.cfg`: lines that a carriage return alone ends are lines in the part of the input that is kept
  (`cli/error.go:226`), but are not counted in the part that is skipped or dropped (`cli/inputs.go:46`, `110`), against
  `CHANGELOG.md:198`.
- `OwnWrites` in `MCValues.cfg`: deleting writes to containers of the input, though nothing but what they hold
  (`func.go:1778`).
- `DigitsLikeNumbersAlways` in `MCValues.cfg`: digits too large for a float are kept by `-` and `abs` and become infinite elsewhere.
- `MeansReduce` without `Unshared`: after a path through a slice the allocator takes the block for its own (`func.go:1687`).

Some things hold by design but may surprise: equality of integers and floats is not transitive where floats
are rounded; NaN is less than everything, itself included; a range over floats may not get on when the step is below
their precision; `gmtime` of a negative time that is no integer is off by the fraction.

## 5. The proofs

Proved for every value of the constants that meets the ASSUMEs (workers: a finite, non-empty set; worlds:
sequences of inputs; bounds: naturals; programs: laid out as `Layout` says, compiled or not; options: any table with the two lists, of which none
has a letter; command lines: rows of phrases; documents: of the form `IsDocument`, cut off anywhere; half the range of integers: a power of two, within reach of a float; operands: numbers of any kind and size):

- `ParallelProofs`: `TypeCorrect`, `OnePlaceHolds`, `PrintedInOrderHolds`, `ReturnsCompleteHolds`, and
  `Implements`, the refinement of `Sequential`, for worlds on which the two loops are written to
  agree (`WorldsAgree`).

  The inductive invariant `IInv` joins `OnePlace` with `PendingResults` (what is in pending was read
  and is its input's result), `Waiting` (a collector that receives has printed all it can),
  `Shutdown` (results is closed only when all workers are done, they are done only when the
  producer is or a halt closed quit) and `Printed` (how far stdout is). `OnePlace` alone is
  not inductive: a step that prints must know that what it prints has been read. Completeness on return is the chain of
  `Shutdown`, back from `closed` to the producer, together with `Waiting`. `Implements` has one lemma
  for printing a result, the only step that is an iteration of the sequential loop.

- `ForksProofs`: `TypeCorrect`, `ForksProtectedHolds`, `ViewFollowsBlocksHolds`, and `ImplementsCopies`, the
  refinement of `Snapshots`.

  `ForksProtected` speaks of the present `limit`, but `popfork` brings back an old one. The inductive
  invariant therefore says of every pending fork that what it reaches is within the limit
  of each fork after it and of the stack (`Nested`), and that the slots in use are in the slice
  (`InSlices`). `ViewFollowsBlocks` is kept because a push writes above everything in use and links go
  down, so that what can be reached from a slot in use is in use (`ReachNoHigher`). In `ImplementsCopies` the
  contents of saved stacks stay the same since none of the slots they are read from is written.

  `FreeWhenUnsharedHolds` adds to the invariant that each block is linked to one below it
  (`Linked`) and who shares what (`Shared`): what the top reaches at or below `limit`, some pending fork reaches too, and
  what a pending fork reaches at or below its saved limit, a fork before it does. A push puts its block above all of them,
  a pop goes down the same chain, a new fork reaches what the top does, and the clause of a fork is what the top
  needs once that fork is popped. The chains are a recursive function: that it exists, that chains go down and that they
  depend on the blocks below only (`FollowsExists`, `ChainFacts`, `SameChains` of `Induction`) is proved by least counterexample.

- `MachineProofs`: `FramesApartHolds`, `OuterFramesLiveHolds` and `NothingLeftBehindHolds`, for every program that is laid out as
  `Layout` says, with any input, any depth of recursion and any number of forks.

  `FramesApart` speaks of where the interpreter is; what it comes back to is in the forks. The invariant
  `Frames` says the same (`Mark`) of every place to go on at, which is the present one and each pending fork: below its `offset`
  there are variables, the frames on its chain end below the offset kept in the frame that follows (`Under`), and all frames that the
  forks before it can come back to end below its offset, also after it returns from any frame above its `limit`. The
  last clause is what `popscope` relies on when it frees the variables of a frame above `limit`; a tail call is a
  return and a call (`MarkLeft`, `MarkPlaced`), and a popped fork finds its own `Mark` (`FramesUnwind`). All blocks on these chains lie beside one another
  (`Beside`), which is `FramesApart`. `Flow` has what control needs: an error is under way only while backtracking. So far the
  code need only be `WellCoded` at each step: an instruction at `pc`, a natural `expdepth`, a frame to return from (`ApartWhenWellCoded`).

  `InOrder` says that the interpreter really is where the notes say. It adds to each frame two numbers that the program does not
  keep, the elements on the stack (`hs`) and the expressions begun (`es`) when its function was called. With them the
  interpreter is `Standing` at an instruction, whose note gives the stack above `hs` and `expdepth` above `es`; or a call is
  `Pending` at a scope instruction; or it is `Passing` one that can only raise an error. Of the places it may come to later,
  each frame in use has the function's outer frame on its chain, and goes `Back` to an instruction whose note is the stack as it was
  with the result on it (`Frame`); each fork is at an instruction that saves one, with a stack its note allows (`Saved`). A parameter
  is a closure over a frame of the same chain (`Params`, `Ready`, `Usable`), so that who calls it finds its variables.

  The numbers of a frame must be the same for all the forks that can come back to it, hence one function for all frames, which
  a new frame changes at its own slot only (`OrderPlaced`): by `Frames` no fork uses that slot. `Written` rests on the same, that
  a store changes no parameter of another frame. A frame is left for its caller by `Back` (`OrderReturn`), a fork is gone on
  from by `Saved` (`OrderUnwind`). `OuterFramesLive` is a clause of `Frame`; `NothingLeftBehind` comes from the note at the
  last `ret`, one value and no expression, on top of no elements and no expressions of the outermost frame. `OrderGood` gives `WellCoded`.

- `ChunkProofs`: `PiecesFitHolds`, `RunesWholeHolds`, `EveryPassShortensHolds`, `StatesFitHolds`, `StatesKeepHolds`, for any
  items and limits that meet `ItemsAssumption` and `LimitsAssumption`.

  The invariant `Splitting` says what `chunkString` knows between its steps: the rest is the text after some number of
  bytes (`Reached`), the piece in hand is a beginning of the rest (`Trying`), and in a valid string both end where
  a rune ends. That a cut is never 0 rests on `RuneCutFound`, that a rune begins within four bytes or right after a separator,
  and on `NextCut`, whose value lies between 1 and the cut before; that no rune is cut on `PartWhole`,
  that a part of a valid string between two ends of runes is valid.

  `Batching` adds what `batchElements` and `batchObject` know: the batch in hand fits and is shorter than `curLen`, the
  length the code counts; a string is cut for the room that its brackets and key leave (`Room`), so that a piece
  that fits its budget fits the limit in its wrapping; a batch that does not is one of the cases of `Unfit`.

  `Telling` says where the content is: the batches, then the batch in hand, then the rest of the entries say what
  the item says (`Told`); within `chunkString`, the pieces and the rest are the string but for newlines (`Kept`). Content is a fold over sequences, so
  the lemmas are that folds of concatenations are concatenations (`ContentConcat`, `WithoutConcat`). The theorem
  assumes `InTime`, that the inner loop does not reach its cap: at the cap text is really dropped (section 4), and that is the only way
  to lose some. TLC finds `InTime` to hold in the whole of `chunk`. What comes close are strings that begin with characters of six-byte escapes, of which
  each iteration takes off a part only: 42 iterations at a budget of 64 KiB, 61 at 2 MiB, and more than 64 from some MiB on.

- `DecidersProofs`: `TypeCorrect`, `FailuresAreDiscardsHolds`, `VerdictIsAnsweredHolds`, `WarningsAddUpHolds`,
  `FailClosedAloneHolds`, `NoRetryAfterFinalHolds`, for any number of calls, attempts, chunks and any answers.

  What a call knows by itself is `CallOK`: which fields are set at which `pc` (`Local` joins it with the types). `Counted`
  says what the counters are: the failures are the number of calls in the set `Lost`, and the calls are at least those
  in `Tried`; a step puts one call into such a set as it adds one (`CallCounted`). `Decided` says of each call what the answers so far
  make of its verdict: one that is there is in `carried`, or for llm in `spoilt`. `NoRetryAfterFinal` follows from `CallOK`: who
  sleeps before another attempt does so for a reason in `Retried`. For the warnings, `Accounted` says that before the flush each message has been printed once or is about to be, and
  that the number kept counts all who raised it but the first (`Coalesced`); it needs `OnePrinter`, that of the calls that
  raised the same message at most one is between the unlock and its print. The flush comes when all calls have ended, so it
  misses none. `FailClosedAlone` follows from `Exited`, which ties the exit code to the counters as they stand when
  the calls are over.

- `InputsProofs`: `TypeCorrect`, `HandlesClosedHolds`, `InputsInOrderHolds` for any files, arguments, iterators and size of a pool,
  `NamesOwnFileHolds` for one worker, `KeptErrorLineHolds` for any input, buffer and reads, `CommandLineMeantHolds` for any
  options and command lines, `StreamMeantHolds` for any documents.

  `Inductive` is that the open handles are just the file's, with which wherever there is no file there is none.
  `SoloInductive` adds what a loop without a pool gives: at most one query at a time, an iterator whose results all
  come from the file it was made for, and queries whose last value was read from the iterator that is there now. It is this that
  a pool breaks.

  `Order`, for `InputsInOrder`: the files that are left are those after the current one (`FilesLeft`), and what has been taken (or
  slurped) followed by what the current file still has is what the arguments so far yield (`Sums`). Standard input
  yields something for the first argument that names it only, hence `StdinOnce`: it is at its end just if an argument behind us named it.
  A slurping iterator has taken nothing, and no error, until it has all.

  `Located`, for `KeptErrorLine`: `line` is the number of newlines before `offset` (`Counted`), whatever was dropped, and
  the values that are skipped end before the byte that is bad. `LineIs` and `LineFrom` have the line of a byte as one more than the
  lines that end before it, in the whole input and in the part that is left; `BreaksAre` splits the ends of lines into newlines and lone
  carriage returns, and an end in the part that is left is one in the whole input. What is missing are the lone returns in front.

  `FlagsInv`, for `CommandLineMeant`: the loop `Stands` at some place k of its command line. What the first k things mean has been
  done (`Sofar`: the last value of an option, all values of a list of them, the first value of a variable, the words where they
  belong), and what is still to be read says the rest: it is between two phrases, at the word that was attached to a list, within a
  group of letters (`InGroup`), or among words after `--`. If something is wrong, it is either still ahead, or within the group being read
  (`InWrong`). The arguments that the loop has changed are behind it or say what is left to be said (`Ahead`, `PutBack`), which is why
  an attached value is read once. The two lists hold the words that either collects at the places they have among all of these, and
  fillers between them (`Holds`), so that the merge in `runInternal` finds each place taken by one of them (`MergedIs`,
  `PositionalMeant`). `RefusedWhenWrong` would not be inductive without `Stands`: that a command line is refused only if
  it is wrong needs that the values an option is about to take are those of its phrase.

  `StreamInv`, for `StreamMeant`: as long as there was no error, `next` is `Here` at some place of the document, b tokens on. The values
  around the place are one within the other, each the part that comes next in the one around it, and `states` has
  `TopValue`, `ArrayValue` or `ObjectValue` for each but the innermost (`Surround`). What the innermost state and `path` must be is `TopAt`, and differs with the
  `Turn`: a call in its loop for which the decoder has another part has moved the path to it; one for which it has none, and `next`
  between calls, leave it at the part behind; and it is the path of the value itself when that has ended empty. The decoder holds the tokens
  from b on, and what has been returned is `Known` of b tokens. From `TopAt` follows what the next token can be, a value (`ValueAhead`), a key (`KeyAhead`) or an end
  (`EndAhead`), each with the `path` it needs; a value that begins makes the stack deeper, one that ends is a part behind in the
  one around it. The length of a path is the depth of its value (`Surround` again), which gives `PathFollowsStates`; a document is
  `Complete` where nothing but the document is around.

- `NumbersProofs`: `NumbersExactHolds` and `DigitsLikeNumbersHolds`, for integers of any width (64 bits among them), floats of any precision,
  operands of any size and however they are kept.

  The invariant `Calculated` is that the result is what the operator makes of the operands, and of a range that it has
  come as far as its length says (`Ranging`); the rest are theorems about the operators (`AddExact`, ..., `CompareExact`). `WrapTurns` and
  `WrapOnce` say what two's complement does. `AddIntsExact` and `SubIntsExact`: a sum that wrapped has the wrong sign.
  `MulIntsExact`: if the wrapped product divided by one factor gives the other, it is the product, except where the code tests for
  the smallest integer and -1; it rests on `SmallMultiple`, that a multiple of the whole range that is less than the range is 0.
  `SwitchIs` has what `binopTypeSwitch` hands on: two whole numbers go to the callback for integers or that for big integers as they are.
  For conversions, `NearestIs` says what `Nearest` is in terms of the last bit's worth. From it: nothing is rounded below a multiple of
  that worth (`RoundedAbove`), whole numbers are rounded to whole ones (`RoundedEven`), and what is beyond the last integer stays
  there (`RoundedEnd`), which is why the range must be a power of two.
  A range is complete because along the step what is past the end stays past it (`TowardsEnd`, `ResultsInRange`), also where the
  sum has become a big integer.

Only model-checked:

- liveness (`Termination`, `NoGoroutineLeak`, `RunEnds`), which is out of the provers' reach;
- `MeansWhatItSays` of `Machine`, and that what `Compiler` emits is laid out as `Layout` says: `Compiler` and `Meaning` are
  recursive over queries;
- `OneOrder`, `PartsKept`, `TextKept`, `MeansReduce`, `OthersKept`: these compare with
  definitions by recursion over values or updates, and what they compute for every input is an induction over data.

## 6. What is not modelled

- Lexer and parser (generated from a grammar), the printer of queries, the encoders, the module loader: text in, text out.
- In the interpreter: paths within a query (`oppathbegin` to `oppathend`), objects, strings, by-value
  parameters, iterators written in Go, builtins written in jq, modules, cancellation of the context, and calling the
  iterator again after an error (the code leaves an instruction to come back to, and forks below it go on).
  The updates of `Updates` begin where the paths are known.
- Of the builtins: regular expressions, mathematical functions, formatting and parsing of time, `@html`, `@uri`,
  `@base64`, JSON texts, negative zero.
- In the pool: a query that reads `input`, which races with the producer inside a decoder; a producer blocked in its
  iterator, which a model whose fairness lets it return cannot have.
- The wire format, and what instructor-go does within a request; probabilities other than against the threshold.
- Of the command line: environment variables and `config.yaml`.

The notes in `PROJECT.json` go part by part.

## 7. What would come next

1. `Machine` with paths: `oppathbegin`, `oppathend`, `pathIntact` and `expdepth`, against the paths a query means, joined
   with `Updates`; objects and their patterns; iterators written in Go; going on after an error.
2. `Parallel` composed with `Inputs`: a pool whose queries take inputs themselves.
