-------------------------------- MODULE Machine --------------------------------
(***************************************************************************)
(* The interpreter: env.Next of execute.go, one action per instruction,    *)
(* run until a caller that stops at the first error (printValues of        *)
(* cli.go) has seen the end.  The queries it runs read no paths: the paths *)
(* stack stays empty, and expdepth only has to come back to where it was.  *)
(*                                                                         *)
(* The value stack is the copy Forks implements.  The scope stack keeps    *)
(* its blocks here, numbered from 0: closures refer to them by index, and  *)
(* popscope asks whether a fork can come back.  Instructions are numbered  *)
(* from 1.                                                                 *)
(***************************************************************************)
EXTENDS Terms

CONSTANT Programs  \* the programs to run, with their input: [codes, input] and whatever else

\* The compiler numbers the scopes of a program (newScope in compiler.go) and counts their variables.
ASSUME ProgramsAssumption ==
    \A p \in Programs :
        /\ DOMAIN p.codes = 1 .. Len(p.codes)
        /\ \A i \in DOMAIN p.codes : p.codes[i].op = "scope" => p.codes[i].v.vars \in Nat
        /\ \A i, j \in DOMAIN p.codes :
              p.codes[i].op = "scope" /\ p.codes[j].op = "scope" /\ p.codes[i].v.id = p.codes[j].v.id => i = j

VARIABLES
    prog,       \* the program that runs
    pc,         \* the instruction
    backtrack,  \* it was reached by popping its fork
    err,        \* the error that is looking for a handler
    stack,      \* values, closures and what is left of iterations
    scopes,     \* [data, index, limit]: the frames
    values,     \* the variables of all frames
    offset,     \* the first one that is free
    forks,      \* where to go on
    expdepth,   \* expressions entered whose paths do not count
    label,      \* the next label
    call,       \* [pc, index]: where the call under way returns, its outer frame
    out,        \* the values Next has returned
    outcome     \* how the iteration ended: an error, NoError, or Running

control == <<prog, out, outcome>>
frames  == <<scopes, offset, values>>
vars    == <<control, frames, pc, backtrack, err, stack, forks, expdepth, label, call>>

Running == <<"running">>

code == prog.codes
Arg  == code[pc].v

\* The caller of the whole program, and of a call that replaces its caller.
Caller == [pc |-> Len(code), index |-> -1]
NoCaller == -1

Larger(i, j) == IF i < j THEN j ELSE i
Top  == stack[Len(stack)]
Rest == SubSeq(stack, 1, Len(stack) - 1)

Init ==
    /\ prog \in Programs
    /\ pc = 1
    /\ backtrack = FALSE
    /\ err = NoError
    /\ stack = <<prog.input>>
    /\ scopes = [data |-> <<>>, index |-> -1, limit |-> -1]
    /\ values = <<>>
    /\ offset = 0
    /\ forks = <<>>
    /\ expdepth = 0
    /\ label = 0
    /\ call = Caller
    /\ out = <<>>
    /\ outcome = Running

-------------------------------------------------------------------------------
(* What instructions have in common.                                       *)

Doing(op) == outcome = Running /\ code[pc].op = op

\* The instruction leaves the stack s, and instruction i is next.
Continue(s, i) ==
    /\ stack' = s
    /\ pc' = i
    /\ UNCHANGED <<control, call, err>>

Step(s, i) == Continue(s, i) /\ UNCHANGED <<frames, backtrack, forks, expdepth, label>>

\* A fork takes its other branch, at instruction i.
Resume(s, i) ==
    /\ stack' = s
    /\ pc' = i
    /\ backtrack' = FALSE
    /\ err' = NoError
    /\ UNCHANGED <<control, frames, forks, expdepth, label, call>>

\* pushfork, with the value stack s.
PushFork(s) ==
    /\ forks' = Append(forks, [pc |-> pc, offset |-> offset, expdepth |-> expdepth, stack |-> s,
                               index |-> scopes.index, limit |-> scopes.limit])
    /\ scopes' = [scopes EXCEPT !.limit = Larger(scopes.index, scopes.limit)]

\* break loop, with a pending fork: popfork.
Unwind(e) ==
    LET fork == forks[Len(forks)]
    IN  /\ forks # <<>>
        /\ forks' = SubSeq(forks, 1, Len(forks) - 1)
        /\ pc' = fork.pc
        /\ offset' = fork.offset
        /\ expdepth' = fork.expdepth
        /\ stack' = fork.stack
        /\ scopes' = [scopes EXCEPT !.index = fork.index, !.limit = fork.limit]
        /\ backtrack' = TRUE
        /\ err' = e
        /\ UNCHANGED <<control, values, label, call>>

\* break loop, without one: Next returns the error, or that there are no more values.
End(e) ==
    /\ forks = <<>>
    /\ outcome' = e
    /\ UNCHANGED <<prog, out, frames, pc, backtrack, err, stack, forks, expdepth, label, call>>

Raise(e) == Unwind(e) \/ End(e)

\* A result of a native function, pushed on s or raised.
Deliver(result, s) ==
    \/ result.err = NoError /\ Step(Append(s, result.val), pc + 1)
    \/ result.err # NoError /\ Raise(result.err)

\* The frame of scope id, from the current one out; without one, the index it is looked up at is out of range.
FrameOf(id) ==
    LET frame[i \in DOMAIN scopes.data \cup {-1}] ==
            IF i = -1 \/ scopes.data[i].id = id THEN i ELSE frame[scopes.data[i].outer]
    IN  frame[scopes.index]

\* env.index: the place of a variable in values.
Slot(v) == scopes.data[FrameOf(v[1])].offset + v[2]

-------------------------------------------------------------------------------
(* Values and variables.                                                   *)

Nop   == Doing("nop") /\ Step(stack, pc + 1)
Push  == Doing("push") /\ Step(Append(stack, Arg), pc + 1)
Pop   == Doing("pop") /\ Step(Rest, pc + 1)
Dup   == Doing("dup") /\ Step(Append(stack, Top), pc + 1)
Replace == Doing("const") /\ Step(Append(Rest, Arg), pc + 1)
Load  == Doing("load") /\ Step(Append(stack, values[Slot(Arg)]), pc + 1)

Assign(v, x) ==
    /\ values' = [values EXCEPT ![Slot(v)] = x]
    /\ Continue(Rest, pc + 1)
    /\ UNCHANGED <<backtrack, scopes, offset, forks, expdepth, label>>

Store    == Doing("store") /\ Assign(Arg, Top)
AppendTo == Doing("append") /\ Assign(Arg, Arr(Append(Elems(values[Slot(Arg)]), Top)))

IndexAt == Doing("index") /\ Deliver(ElementAt(Top, Arg), Rest)

\* opindexarray refuses the strings that opindex accepts.
IndexArray ==
    /\ Doing("indexarray")
    /\ Deliver(IF IsString(Top) THEN Fails(TypeError("expected an array")) ELSE ElementAt(Top, Arg), Rest)

\* opcall of a function in Go: its input is on top, its arguments are below it.
CallNative ==
    /\ Doing("native")
    /\ LET n == Len(stack)
           args == [i \in 1 .. Arg[2] |-> stack[n - i]]
       IN  Deliver(Native(Arg[1], Top, args), SubSeq(stack, 1, n - 1 - Arg[2]))

\* opexpbegin and opexpend.
Expression(op, d) ==
    /\ Doing(op)
    /\ expdepth' = expdepth + d
    /\ Continue(stack, pc + 1)
    /\ UNCHANGED <<frames, backtrack, forks, label>>

ExpBegin == Expression("expbegin", 1)
ExpEnd   == Expression("expend", -1)

-------------------------------------------------------------------------------
(* Control: jumps, forks and what they do when they are backtracked to.    *)

Jump == Doing("jump") /\ Step(stack, Arg)

JumpIfNot == Doing("jumpifnot") /\ Step(Rest, IF Truthy(Top) THEN pc + 1 ELSE Arg)

Backtrack == Doing("backtrack") /\ Raise(err)

\* The fork instructions: remember the place, go on with the next instruction.
PlaceFork ==
    /\ \E op \in {"fork", "forktrybegin", "forktryend", "forkalt"} : Doing(op)
    /\ ~backtrack
    /\ PushFork(stack)
    /\ Continue(stack, pc + 1)
    /\ UNCHANGED <<backtrack, offset, values, expdepth, label>>

\* An error passes; otherwise the other branch is next.
BackAtFork ==
    /\ Doing("fork") /\ backtrack
    /\ \/ err # NoError /\ Raise(err)
       \/ err = NoError /\ Resume(stack, Arg)

\* Mutant: the handler's input is pushed without popping that of the body.
KeepInputAtTryBegin ==
    /\ Doing("forktrybegin") /\ backtrack
    /\ \/ IsTryEnd(err) /\ Raise(err[2])
       \/ Uncatchable(err) /\ Raise(err)
       \/ ~IsTryEnd(err) /\ ~Uncatchable(err) /\ Resume(Append(stack, Caught(err)), Arg)

\* The handler of a try: errors from after its end are unwrapped and passed on.
BackAtTryBegin ==
    /\ Doing("forktrybegin") /\ backtrack
    /\ \/ IsTryEnd(err) /\ Raise(err[2])
       \/ Uncatchable(err) /\ Raise(err)
       \/ ~IsTryEnd(err) /\ ~Uncatchable(err) /\ Resume(Append(Rest, Caught(err)), Arg)

\* Mutant: errors from after the end of a try reach its handler.
PassAtTryEnd == Doing("forktryend") /\ backtrack /\ Raise(err)

BackAtTryEnd ==
    /\ Doing("forktryend") /\ backtrack
    /\ Raise(IF err = NoError THEN err ELSE TryEndError(err))

\* The next pattern of several.
BackAtAlternative ==
    /\ Doing("forkalt") /\ backtrack
    /\ \/ Uncatchable(err) /\ Raise(err)
       \/ ~Uncatchable(err) /\ Resume(stack, Arg)

\* The fork remembers the label on the stack.
PlaceLabel ==
    /\ Doing("forklabel") /\ ~backtrack
    /\ PushFork(Append(stack, Num(label)))
    /\ values' = [values EXCEPT ![Slot(Arg)] = Num(label)]
    /\ label' = label + 1
    /\ Continue(stack, pc + 1)
    /\ UNCHANGED <<backtrack, offset, expdepth>>

BackAtLabel ==
    /\ Doing("forklabel") /\ backtrack
    /\ Raise(IF err = BreakError(Top) THEN NoError ELSE err)

\* opiter: the first element now, the others when it is backtracked to.
Iterate(xs) ==
    /\ xs # <<>>
    /\ Continue(Append(Rest, Head(xs)), pc + 1)
    /\ backtrack' = FALSE
    /\ \/ Len(xs) = 1 /\ UNCHANGED <<forks, scopes>>
       \/ Len(xs) > 1 /\ PushFork(Append(Rest, <<"items", Tail(xs)>>))
    /\ UNCHANGED <<offset, values, expdepth, label>>

Each ==
    /\ Doing("iter")
    /\ \/ err # NoError /\ Raise(err)
       \/ err = NoError /\ Top[1] \in {"arr", "items"} /\ Iterate(Elems(Top))
       \/ err = NoError /\ Top = Arr(<<>>) /\ Raise(NoError)
       \/ err = NoError /\ Top[1] \notin {"arr", "items"} /\ Raise(TypeError("cannot be iterated over"))

-------------------------------------------------------------------------------
(* Functions.                                                              *)

Enter(i, returnTo, outer) ==
    /\ pc' = i
    /\ call' = [pc |-> returnTo, index |-> outer]
    /\ UNCHANGED <<control, frames, backtrack, err, forks, expdepth, label>>

CallFunction == Doing("call") /\ Enter(Arg, pc, scopes.index) /\ UNCHANGED stack
CallAsLast   == Doing("callrec") /\ Enter(Arg, NoCaller, scopes.index) /\ UNCHANGED stack

\* A closure is where its code starts, and the frame it was made in.
PushClosure == Doing("pushpc") /\ Step(Append(stack, <<"closure", Arg, scopes.index>>), pc + 1)
CallClosure == Doing("callpc") /\ Enter(Top[2], pc, Top[3]) /\ stack' = Rest

\* Mutant: a frame gives its variables back although a fork may come back to it.
FreedAlways(b) == scopes.data[b].offset

\* popscope: the variables of block b are free again, unless a fork can come back to it.
Freed(b) == IF scopes.index > scopes.limit THEN scopes.data[b].offset ELSE offset

\* The frame under way replaces the one that called it.
Replacing == call.index = scopes.index /\ call.pc = NoCaller

\* Mutant: the outer frame is the calling one, also for a function inside itself.
CallerFrame(id) == call.index

\* A function inside itself shares the outer frame of the calling one.
OuterFrame(id) ==
    IF call.index >= 0 /\ scopes.data[call.index].id = id THEN scopes.data[call.index].outer ELSE call.index

\* A slice with index i written; it grows by one when i is its length.
Put(slice, i, x) == [j \in DOMAIN slice \cup {i} |-> IF j = i THEN x ELSE slice[j]]

\* values, with room for the variables below n.
Grown(n) == [j \in DOMAIN values \cup 0 .. n - 1 |-> IF j \in DOMAIN values THEN values[j] ELSE Null]

\* opscope: a frame for the call under way, in place of its caller's for callrec.
PushScope(returnTo, saveindex, next, start) ==
    LET slot == Larger(next, scopes.limit) + 1
        frame == [id |-> Arg.id, offset |-> start, pc |-> returnTo, saveindex |-> saveindex,
                  outer |-> OuterFrame(Arg.id), next |-> next]
    IN  /\ scopes' = [scopes EXCEPT !.data = Put(@, slot, frame), !.index = slot]
        /\ offset' = start + Arg.vars
        /\ values' = Grown(start + Arg.vars)
        /\ Continue(stack, pc + 1)
        /\ UNCHANGED <<backtrack, forks, expdepth, label>>

Scope ==
    /\ Doing("scope")
    /\ LET top == scopes.data[scopes.index]
       IN  \/ ~Replacing /\ PushScope(call.pc, scopes.index, scopes.index, offset)
           \/ Replacing /\ PushScope(top.pc, top.saveindex, top.next, Freed(scopes.index))

\* opret into a function.
Return ==
    /\ Doing("ret") /\ ~backtrack
    /\ LET top == scopes.data[scopes.index]
       IN  /\ top.saveindex >= 0
           /\ scopes' = [scopes EXCEPT !.index = top.saveindex]
           /\ offset' = Freed(scopes.index)
           /\ Continue(stack, top.pc + 1)
    /\ UNCHANGED <<backtrack, values, forks, expdepth, label>>

\* opret out of the program: Next returns a value, and is called again.
Output ==
    /\ Doing("ret") /\ ~backtrack
    /\ LET top == scopes.data[scopes.index]
       IN  /\ top.saveindex < 0
           /\ scopes' = [scopes EXCEPT !.index = top.saveindex]
           /\ offset' = Freed(scopes.index)
           /\ pc' = top.pc
    /\ out' = Append(out, Top)
    /\ stack' = Rest
    /\ backtrack' = TRUE
    /\ call' = Caller
    /\ UNCHANGED <<prog, outcome, values, err, forks, expdepth, label>>

BackAtReturn == Doing("ret") /\ backtrack /\ Raise(err)

Next ==
    \/ Nop \/ Push \/ Pop \/ Dup \/ Replace \/ Load \/ Store \/ AppendTo
    \/ IndexAt \/ IndexArray \/ CallNative \/ ExpBegin \/ ExpEnd
    \/ Jump \/ JumpIfNot \/ Backtrack \/ PlaceFork \/ BackAtFork
    \/ BackAtTryBegin \/ BackAtTryEnd \/ BackAtAlternative
    \/ PlaceLabel \/ BackAtLabel \/ Each
    \/ CallFunction \/ CallAsLast \/ PushClosure \/ CallClosure
    \/ Scope \/ Return \/ Output \/ BackAtReturn

Spec == Init /\ [][Next]_vars /\ WF_vars(Next)

-------------------------------------------------------------------------------
(* Properties.                                                             *)

\* The frames below frame i, and i: those it will return through.
Chain(i) ==
    LET chain[j \in DOMAIN scopes.data \cup {-1}] ==
            IF j = -1 THEN {} ELSE {j} \cup chain[scopes.data[j].next]
    IN  chain[i]

\* Frames that may still be run in: now, or when a fork is taken.
Current == {scopes.index} \cup {forks[k].index : k \in DOMAIN forks}
Live    == UNION {Chain(i) : i \in Current}

\* The variables of frame b, in values.
Vars(b) ==
    LET scope == CHOOSE i \in DOMAIN code : code[i].op = "scope" /\ code[i].v.id = scopes.data[b].id
    IN  code[scope].v.vars
Room(b) == scopes.data[b].offset .. scopes.data[b].offset + Vars(b) - 1

\* What the interpreter takes for granted of compiled code: it goes from instruction to instruction, ends no
\* expression that it has not begun, and returns, or calls as its last deed, only within a frame.
WellCoded ==
    /\ pc \in DOMAIN code
    /\ expdepth \in Nat
    /\ code[pc].op = "callrec" \/ (code[pc].op = "ret" /\ ~backtrack) => scopes.index # -1

\* The interpreter is at an instruction, in a frame that exists, with room for its
\* variables, and an error is under way only while forks are being popped: env.Next
\* clears err wherever it clears backtrack.
TypeOK ==
    /\ WellCoded
    /\ backtrack \in BOOLEAN
    /\ err # NoError => backtrack
    /\ Current \cup {scopes.limit} \subseteq DOMAIN scopes.data \cup {-1}
    /\ {offset, label} \subseteq Nat
    /\ \A n \in 1 .. offset : n - 1 \in DOMAIN values

\* Two frames that can still be run in never share a variable, and none has one where
\* the next frame will put its own (env.offset): popscope frees the variables of a
\* frame only when no fork can come back to it, also when a tail call replaces it.
FramesApart ==
    /\ TypeOK
    /\ \A b \in Live : \A d \in Live \ {b} : Room(b) \cap Room(d) = {}
    /\ \A b \in Live : \A n \in Room(b) : n < offset

\* The frame a function finds the variables around it in has not been returned from:
\* it is below the function's own frame, even if that one replaced its caller, was
\* entered through a closure, or comes back with a fork.
OuterFramesLive ==
    \A b \in Live : scopes.data[b].outer \in Chain(scopes.data[b].next) \cup {-1}

\* When Next returns a value, the instructions of the program have taken from the
\* stack all they have put there, left every frame and ended every expression.
NothingLeftBehind ==
    [][out' # out => stack' = <<>> /\ scopes'.index = -1 /\ expdepth' = 0]_vars
===============================================================================
