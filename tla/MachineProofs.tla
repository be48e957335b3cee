----------------------------- MODULE MachineProofs -----------------------------
(***************************************************************************)
(* Theorems about Machine, for any program that is laid out as Layout      *)
(* says.  Frames: frames that may be run in again do not share a variable, *)
(* however calls, returns, tail calls and forks follow one another.        *)
(* InOrder: wherever the interpreter is, or will go on with a fork, what   *)
(* is on the stack is what the instruction expects there, and what a       *)
(* function will find when it is back in its caller.                       *)
(***************************************************************************)
EXTENDS Layout, Induction, SequenceTheorems

-------------------------------------------------------------------------------
(* What a step does to the frames.                                         *)

\* The frames and forks stay.
Staying == UNCHANGED <<scopes, offset, forks>> /\ DOMAIN values' = DOMAIN values

\* A fork is pushed.
Saving == (\E s : PushFork(s)) /\ offset' = offset /\ DOMAIN values' = DOMAIN values

\* The last fork is popped.
Unwinding == \E e : Unwind(e)

\* A frame is left.
Leaving ==
    /\ code[pc].op = "ret" /\ ~backtrack
    /\ scopes' = [scopes EXCEPT !.index = scopes.data[scopes.index].saveindex]
    /\ offset' = Freed(scopes.index)
    /\ UNCHANGED <<values, forks>>

LEMMA RaiseKinds == ASSUME NEW e, Raise(e) PROVE (Staying \/ Unwinding) /\ prog' = prog
BY DEF Raise, Unwind, End, Staying, Unwinding, frames, control

LEMMA StepKinds ==
    ASSUME NEW s, NEW i, Step(s, i) \/ Resume(s, i)
    PROVE  Staying /\ prog' = prog
BY DEF Step, Continue, Resume, Staying, frames, control

LEMMA DeliverKinds ==
    ASSUME NEW r, NEW s, Deliver(r, s)
    PROVE  (Staying \/ Unwinding) /\ prog' = prog
BY RaiseKinds, StepKinds DEF Deliver

\* Every step does one of these, or enters a frame.
LEMMA Kinds ==
    ASSUME [Next]_vars
    PROVE  (Staying \/ Saving \/ Unwinding \/ Leaving \/ Scope) /\ prog' = prog
<1>1. CASE UNCHANGED vars
  BY <1>1 DEF vars, control, frames, Staying
<1>2. CASE Nop \/ Push \/ Pop \/ Dup \/ Replace \/ Load \/ Jump \/ JumpIfNot \/ PushClosure
  BY <1>2, StepKinds DEF Nop, Push, Pop, Dup, Replace, Load, Jump, JumpIfNot, PushClosure
<1>3. CASE Store \/ AppendTo
  BY <1>3 DEF Store, AppendTo, Assign, Continue, Staying, control
<1>4. CASE IndexAt \/ IndexArray \/ CallNative
  BY <1>4, DeliverKinds DEF IndexAt, IndexArray, CallNative
<1>5. CASE ExpBegin \/ ExpEnd
  BY <1>5 DEF ExpBegin, ExpEnd, Expression, Continue, Staying, frames, control
<1>6. CASE Backtrack \/ BackAtFork \/ BackAtTryBegin \/ BackAtTryEnd \/ BackAtAlternative
           \/ BackAtLabel \/ BackAtReturn
  BY <1>6, RaiseKinds, StepKinds DEF Backtrack, BackAtFork, BackAtTryBegin, BackAtTryEnd,
         BackAtAlternative, BackAtLabel, BackAtReturn
<1>7. CASE PlaceFork \/ PlaceLabel
  BY <1>7 DEF PlaceFork, PlaceLabel, Continue, Saving, control
<1>8. CASE Each
  <2>1. ASSUME NEW xs, Iterate(xs) PROVE (Staying \/ Saving) /\ prog' = prog
    BY <2>1 DEF Iterate, Continue, Staying, Saving, control
  <2> QED
    BY <1>8, <2>1, RaiseKinds DEF Each
<1>9. CASE CallFunction \/ CallAsLast \/ CallClosure
  BY <1>9 DEF CallFunction, CallAsLast, CallClosure, Enter, Staying, frames, control
<1>10. CASE Scope
  BY <1>10 DEF Scope, PushScope, Continue, control
<1>11. CASE Return \/ Output
  BY <1>11 DEF Return, Output, Leaving, Doing, Continue, control
<1> QED
  BY <1>1, <1>2, <1>3, <1>4, <1>5, <1>6, <1>7, <1>8, <1>9, <1>10, <1>11 DEF Next

-------------------------------------------------------------------------------
(* Errors, labels and calls.                                               *)

\* An error is under way only while forks are being popped, and a call that replaces
\* its caller was made in a frame.
Flow ==
    /\ prog \in Programs
    /\ backtrack \in BOOLEAN
    /\ err # NoError => backtrack
    /\ label \in Nat
    /\ call.pc = NoCaller => call.index # -1

LEMMA FlowInit == Init => Flow
<1> SUFFICES ASSUME Init PROVE Flow
  OBVIOUS
<1>1. Len(code) # NoCaller
  <2>1. DOMAIN code = 1 .. Len(code)
    BY ProgramsAssumption DEF Init, code
  <2> QED
    BY <2>1 DEF NoCaller
<1> QED
  BY <1>1 DEF Init, Flow, Caller

\* Raising an error, like taking another branch, keeps the order of things.
LEMMA FlowKept ==
    ASSUME Flow, UNCHANGED <<prog, call>>, label' \in Nat,
           \/ UNCHANGED <<backtrack, err>>
           \/ backtrack' = TRUE
           \/ backtrack' = FALSE /\ err' = NoError
    PROVE  Flow'
BY DEF Flow

LEMMA FlowRaise == ASSUME Flow, NEW e, Raise(e) PROVE Flow'
<1> USE DEF Flow
<1>1. CASE Unwind(e)
  BY <1>1 DEF Unwind, control
<1>2. CASE End(e)
  BY <1>2 DEF End
<1> QED
  BY <1>1, <1>2 DEF Raise

LEMMA FlowMove == ASSUME Flow, NEW s, NEW i, Step(s, i) \/ Resume(s, i) PROVE Flow'
BY DEF Flow, Step, Continue, Resume, control

LEMMA FlowDeliver == ASSUME Flow, NEW r, NEW s, Deliver(r, s) PROVE Flow'
BY FlowRaise, FlowMove DEF Deliver

LEMMA FlowStep == Flow /\ WellCoded /\ [Next]_vars => Flow'
<1> SUFFICES ASSUME Flow, WellCoded, [Next]_vars PROVE Flow'
  OBVIOUS
<1>1. CASE UNCHANGED vars
  BY <1>1 DEF vars, control, Flow
<1>2. CASE Nop \/ Push \/ Pop \/ Dup \/ Replace \/ Load \/ Jump \/ JumpIfNot \/ PushClosure
  BY <1>2, FlowMove DEF Nop, Push, Pop, Dup, Replace, Load, Jump, JumpIfNot, PushClosure
<1>3. CASE Store \/ AppendTo
  BY <1>3 DEF Store, AppendTo, Assign, Continue, control, Flow
<1>4. CASE IndexAt \/ IndexArray \/ CallNative
  BY <1>4, FlowDeliver DEF IndexAt, IndexArray, CallNative
<1>5. CASE ExpBegin \/ ExpEnd
  BY <1>5 DEF ExpBegin, ExpEnd, Expression, Continue, control, Flow
<1>6. CASE Backtrack \/ BackAtFork \/ BackAtTryBegin \/ BackAtTryEnd \/ BackAtAlternative
           \/ BackAtLabel \/ BackAtReturn
  BY <1>6, FlowRaise, FlowMove DEF Backtrack, BackAtFork, BackAtTryBegin, BackAtTryEnd,
         BackAtAlternative, BackAtLabel, BackAtReturn
<1>7. CASE PlaceFork
  BY <1>7 DEF PlaceFork, Continue, control, Flow
<1>8. CASE PlaceLabel
  BY <1>8 DEF PlaceLabel, Continue, control, Flow
<1>9. CASE Each
  <2>1. ASSUME NEW xs, err = NoError, Iterate(xs) PROVE Flow'
    BY <2>1 DEF Iterate, Continue, control, Flow
  <2> QED
    BY <1>9, <2>1, FlowRaise DEF Each
<1>10. CASE CallFunction \/ CallAsLast \/ CallClosure
  <2>1. pc # NoCaller
    BY ProgramsAssumption DEF Flow, WellCoded, code, NoCaller
  <2>2. CASE CallFunction \/ CallClosure
    BY <2>1, <2>2 DEF CallFunction, CallClosure, Enter, control, Flow
  <2>3. CASE CallAsLast
    <3>1. scopes.index # -1
      BY <2>3 DEF CallAsLast, Doing, WellCoded
    <3> QED
      BY <2>3, <3>1 DEF CallAsLast, Enter, control, Flow
  <2> QED
    BY <1>10, <2>2, <2>3
<1>11. CASE Scope
  BY <1>11 DEF Scope, PushScope, Continue, control, Flow
<1>12. CASE Return
  BY <1>12 DEF Return, Continue, control, Flow
<1>13. CASE Output
  <2>1. Len(code) # NoCaller
    BY ProgramsAssumption DEF Flow, code, NoCaller
  <2> QED
    BY <1>13, <2>1 DEF Output, Flow, Caller, code
<1> QED
  BY <1>1, <1>2, <1>3, <1>4, <1>5, <1>6, <1>7, <1>8, <1>9, <1>10, <1>11, <1>12, <1>13 DEF Next

-------------------------------------------------------------------------------
(* The blocks of the scope stack, d, that the program cs has pushed.       *)

\* Where the variables of block b end.
Past(cs, d, b) == d[b].offset + VarsOf(cs, d[b].id)

\* The variables of block i and of those below it are under x.
Under(cs, d, i, x) == \A b \in ChainIn(d, i) : Past(cs, d, b) <= x

Blocks(cs, d) ==
    /\ Descending(d)
    /\ \A b \in DOMAIN d :
          d[b].saveindex = d[b].next /\ d[b].offset \in Nat /\ VarsOf(cs, d[b].id) \in Nat

\* m is a place to go on at, now or with a fork, with the first k of the forks fs still
\* pending: its variables (of those, vs, that exist) are free from its offset on for its own
\* frames and for those of the forks. What is freed by leaving a frame of its own, above its
\* limit, is none that a fork comes back to.
Mark(cs, d, fs, vs, m, k) ==
    /\ m.index \in DOMAIN d \cup {-1} /\ m.limit \in DOMAIN d \cup {-1}
    /\ m.offset \in Nat /\ \A n \in 1 .. m.offset : n - 1 \in vs
    /\ Under(cs, d, m.index, m.offset)
    /\ \A b \in ChainIn(d, m.index) : Under(cs, d, d[b].next, d[b].offset)
    /\ \A j \in 1 .. k :
          /\ fs[j].index \in -1 .. m.limit /\ fs[j].limit \in -1 .. m.limit
          /\ Under(cs, d, fs[j].index, m.offset)
          /\ \A b \in ChainIn(d, m.index) : b > m.limit => Under(cs, d, fs[j].index, d[b].offset)

Now == [index |-> scopes.index, limit |-> scopes.limit, offset |-> offset]

\* Of two blocks of L, one ends where the other begins, or before.
Beside(cs, d, L) ==
    \A b, c \in L : b # c => Past(cs, d, b) <= d[c].offset \/ Past(cs, d, c) <= d[b].offset

\* The blocks from i on, and from where the forks go on.
Lives(d, i, fs) == ChainIn(d, i) \cup UNION {ChainIn(d, fs[k].index) : k \in 1 .. Len(fs)}

\* Every place to go on at is one, with the forks that were there before it.
Frames ==
    /\ DOMAIN scopes = {"data", "index", "limit"}
    /\ \E S : forks \in Seq(S)
    /\ Blocks(code, scopes.data)
    /\ Mark(code, scopes.data, forks, DOMAIN values, Now, Len(forks))
    /\ \A i \in 1 .. Len(forks) : Mark(code, scopes.data, forks, DOMAIN values, forks[i], i - 1)
    /\ Beside(code, scopes.data, Lives(scopes.data, scopes.index, forks))

LEMMA ChainsNext ==
    ASSUME NEW cs, NEW d, Blocks(cs, d), NEW i \in DOMAIN d
    PROVE  /\ d[i].next \in DOMAIN d \cup {-1} /\ d[i].next < i
           /\ ChainIn(d, i) = {i} \cup ChainIn(d, d[i].next)
           /\ ChainIn(d, i) \subseteq DOMAIN d
<1>1. PICK n \in Nat : DOMAIN d = 0 .. n - 1 /\ \A j \in 0 .. n - 1 : d[j].next \in -1 .. j - 1
  BY DEF Blocks, Descending
<1>2. ChainIn(d, i) \subseteq 0 .. i /\ ChainIn(d, i) = {i} \cup ChainIn(d, d[i].next)
  BY ChainInFacts DEF Blocks
<1> QED
  BY <1>1, <1>2

LEMMA ChainsWithin ==
    ASSUME NEW cs, NEW d, Blocks(cs, d), NEW i \in DOMAIN d \cup {-1}
    PROVE  ChainIn(d, i) \subseteq DOMAIN d /\ \A b \in ChainIn(d, i) : b <= i
<1>1. PICK n \in Nat : DOMAIN d = 0 .. n - 1
  BY DEF Blocks, Descending
<1>2. ChainIn(d, i) \subseteq 0 .. i
  BY ChainInFacts DEF Blocks
<1> QED
  BY <1>1, <1>2

-------------------------------------------------------------------------------
(* What happens to the places to go on at.                                 *)

\* Forks that come later do not matter to a place.
LEMMA MarkKept ==
    ASSUME NEW cs, NEW d, NEW fs, NEW gs, NEW vs, NEW m, NEW k \in Nat,
           Mark(cs, d, fs, vs, m, k), \A j \in 1 .. k : gs[j] = fs[j]
    PROVE  Mark(cs, d, gs, vs, m, k)
BY DEF Mark

\* A fork at m is pushed: m goes on above it.
LEMMA MarkSaved ==
    ASSUME NEW cs, NEW d, NEW fs, NEW gs, NEW vs, NEW m, NEW w, NEW k \in Nat,
           Blocks(cs, d), Mark(cs, d, fs, vs, m, k), \A j \in 1 .. k : gs[j] = fs[j],
           gs[k + 1].index = m.index, gs[k + 1].limit = m.limit,
           w.index = m.index, w.offset = m.offset, w.limit = Larger(m.index, m.limit)
    PROVE  Mark(cs, d, gs, vs, w, k + 1)
<1>1. PICK n \in Nat : DOMAIN d = 0 .. n - 1
  BY DEF Blocks, Descending
<1>2. m.index \in DOMAIN d \cup {-1} /\ m.limit \in DOMAIN d \cup {-1}
  BY DEF Mark
<1>3. w.limit \in DOMAIN d \cup {-1} /\ m.index <= w.limit /\ m.limit <= w.limit
  BY <1>1, <1>2 DEF Larger
<1>4. \A b \in ChainIn(d, m.index) : b \in DOMAIN d /\ ~ (b > w.limit)
  BY <1>1, <1>2, <1>3, ChainsWithin
<1>5. ASSUME NEW j \in 1 .. k + 1
      PROVE  /\ gs[j].index \in -1 .. w.limit /\ gs[j].limit \in -1 .. w.limit
             /\ Under(cs, d, gs[j].index, w.offset)
  <2>1. CASE j = k + 1
    BY <1>1, <1>2, <1>3, <2>1 DEF Mark
  <2>2. CASE j # k + 1
    <3>1. j \in 1 .. k /\ gs[j] = fs[j]
      BY <2>2
    <3>2. fs[j].index \in -1 .. m.limit /\ fs[j].limit \in -1 .. m.limit /\ Under(cs, d, fs[j].index, m.offset)
      BY <3>1 DEF Mark
    <3> QED
      BY <1>1, <1>2, <1>3, <3>1, <3>2
  <2> QED
    BY <2>1, <2>2
<1> QED
  BY <1>3, <1>4, <1>5 DEF Mark

\* The last frame is left: its variables are free again when no fork comes back to it.
LEMMA MarkLeft ==
    ASSUME NEW cs, NEW d, NEW fs, NEW vs, NEW m, NEW w, NEW k \in Nat,
           Blocks(cs, d), Mark(cs, d, fs, vs, m, k), m.index # -1,
           w.index = d[m.index].next, w.limit = m.limit,
           w.offset = IF m.index > m.limit THEN d[m.index].offset ELSE m.offset
    PROVE  /\ Mark(cs, d, fs, vs, w, k)
           /\ w.index \in -1 .. m.index - 1
           /\ ChainIn(d, w.index) \subseteq ChainIn(d, m.index)
<1> DEFINE b == m.index
<1>1. b \in DOMAIN d /\ b \in ChainIn(d, b)
  BY ChainsNext DEF Mark
<1>2. PICK n \in Nat : DOMAIN d = 0 .. n - 1
  BY DEF Blocks, Descending
<1>3. w.index \in DOMAIN d \cup {-1} /\ w.index < b /\ ChainIn(d, w.index) \subseteq ChainIn(d, b)
  BY <1>1, ChainsNext
<1>4. d[b].offset \in Nat /\ Past(cs, d, b) \in Nat /\ d[b].offset <= Past(cs, d, b)
  BY <1>1 DEF Blocks, Past
<1>5. w.offset \in Nat /\ w.offset <= m.offset
  BY <1>1, <1>4 DEF Mark, Under
<1>6. Under(cs, d, w.index, w.offset)
  BY <1>1, <1>3 DEF Mark, Under
<1>7. ASSUME NEW j \in 1 .. k PROVE Under(cs, d, fs[j].index, w.offset)
  BY <1>1 DEF Mark
<1>8. \A x \in 1 .. w.offset : x \in 1 .. m.offset
  BY <1>5 DEF Mark
<1> QED
  BY <1>2, <1>3, <1>5, <1>6, <1>7, <1>8 DEF Mark

\* A frame is put at block slot, above next and above what a fork comes back to; e are the blocks then.
Puts(cs, d, next, limit, frame, slot, e) ==
    /\ next \in DOMAIN d \cup {-1} /\ limit \in DOMAIN d \cup {-1}
    /\ frame.next = next /\ frame.saveindex = next
    /\ frame.offset \in Nat /\ VarsOf(cs, frame.id) \in Nat
    /\ slot = Larger(next, limit) + 1
    /\ e = Put(d, slot, frame)

\* Block slot of e is new, and what is below it is what is there in d.
Extends(d, slot, e) ==
    /\ slot \in Nat
    /\ DOMAIN e = DOMAIN d \cup {slot}
    /\ \A b \in DOMAIN d : b < slot => e[b] = d[b]
    /\ \A i \in -1 .. slot - 1 : ChainIn(e, i) = ChainIn(d, i)

LEMMA Placed ==
    ASSUME NEW cs, NEW d, Blocks(cs, d), NEW next, NEW limit, NEW frame, NEW slot, NEW e,
           Puts(cs, d, next, limit, frame, slot, e)
    PROVE  /\ Extends(d, slot, e) /\ Blocks(cs, e)
           /\ slot > next /\ slot > limit
           /\ e[slot] = frame
           /\ ChainIn(e, slot) = {slot} \cup ChainIn(d, next)
<1>0. /\ next \in DOMAIN d \cup {-1} /\ limit \in DOMAIN d \cup {-1}
      /\ frame.next = next /\ frame.saveindex = next
      /\ frame.offset \in Nat /\ VarsOf(cs, frame.id) \in Nat
      /\ slot = Larger(next, limit) + 1
  BY DEF Puts
<1>1. PICK n \in Nat : DOMAIN d = 0 .. n - 1 /\ \A j \in 0 .. n - 1 : d[j].next \in -1 .. j - 1
  BY DEF Blocks, Descending
<1>2. slot \in 0 .. n /\ slot > next /\ slot > limit
  BY <1>0, <1>1, SMTT(60) DEF Larger
<1>3. DOMAIN e = DOMAIN d \cup {slot} /\ \A b \in DOMAIN e : e[b] = IF b = slot THEN frame ELSE d[b]
  BY DEF Puts, Put
<1>4. Descending(e)
  <2>1. PICK k \in {n, n + 1} : DOMAIN e = 0 .. k - 1
    <3>1. (0 .. n - 1) \cup {slot} = 0 .. n - 1 \/ (0 .. n - 1) \cup {slot} = 0 .. (n + 1) - 1
      BY <1>2
    <3> QED
      BY <1>1, <1>3, <3>1
  <2>2. ASSUME NEW j \in DOMAIN e PROVE e[j].next \in -1 .. j - 1
    <3>1. CASE j = slot
      BY <1>0, <1>1, <1>2, <1>3, <3>1
    <3>2. CASE j # slot
      <4>1. j \in 0 .. n - 1 /\ e[j] = d[j]
        BY <1>1, <1>3, <3>2
      <4> QED
        BY <1>1, <4>1
    <3> QED
      BY <3>1, <3>2
  <2>3. k \in Nat /\ \A i \in 0 .. k - 1 : e[i].next \in -1 .. i - 1
    BY <2>1, <2>2
  <2> QED
    BY <2>1, <2>3, Zenon DEF Descending
<1>5. Blocks(cs, e)
  BY <1>0, <1>3, <1>4 DEF Blocks
<1>6. ASSUME NEW i \in 0 .. slot - 1 PROVE i \in DOMAIN d /\ i \in DOMAIN e /\ e[i] = d[i]
  <2>1. i \in 0 .. n - 1 /\ i # slot
    BY <1>2
  <2> QED
    BY <1>1, <1>3, <2>1
<1>7. \A i \in -1 .. slot - 1 : ChainIn(e, i) = ChainIn(d, i)
  <2>1. Descending(d) /\ slot - 1 \in Int
    BY <1>2 DEF Blocks
  <2> QED
    BY <1>4, <1>6, <2>1, SameChainIn
<1>8. ChainIn(e, slot) = {slot} \cup ChainIn(d, next)
  <2>1. slot \in DOMAIN e /\ e[slot].next = next
    BY <1>0, <1>3
  <2>0. next \in -1 .. slot - 1
    BY <1>0, <1>1, <1>2
  <2>2. ChainIn(e, slot) = {slot} \cup ChainIn(e, next)
    BY <1>4, <2>1, ChainInFacts
  <2> QED
    BY <1>7, <2>0, <2>2
<1>9. ASSUME NEW b \in DOMAIN d, b < slot PROVE e[b] = d[b]
  <2>1. b # slot
    BY <1>2, <1>9
  <2> QED
    BY <1>3, <2>1
<1>10. e[slot] = frame
  BY <1>3
<1> QED
  BY <1>2, <1>3, <1>5, <1>7, <1>8, <1>9, <1>10 DEF Extends

\* The places below the new block are what they were.
LEMMA UnderPlaced ==
    ASSUME NEW cs, NEW d, Blocks(cs, d), NEW e, NEW slot, Extends(d, slot, e),
           NEW i \in DOMAIN d \cup {-1}, i < slot
    PROVE  /\ ChainIn(e, i) = ChainIn(d, i)
           /\ \A b \in ChainIn(d, i) : b \in DOMAIN d /\ b < slot /\ e[b] = d[b]
           /\ \A x : Under(cs, d, i, x) => Under(cs, e, i, x)
<1>1. PICK n \in Nat : DOMAIN d = 0 .. n - 1
  BY DEF Blocks, Descending
<1>2. slot \in Nat /\ i \in -1 .. slot - 1
  BY <1>1 DEF Extends
<1>3. \A b \in ChainIn(d, i) : b \in DOMAIN d /\ b < slot
  BY <1>1, <1>2, ChainsWithin
<1> QED
  BY <1>2, <1>3 DEF Under, Past, Extends

\* A place with a limit below the new block stays one.
LEMMA MarkBelow ==
    ASSUME NEW cs, NEW d, Blocks(cs, d), NEW e, NEW slot, Extends(d, slot, e),
           NEW fs, NEW vs, NEW ws, vs \subseteq ws, NEW m, NEW k \in Nat, Mark(cs, d, fs, vs, m, k),
           m.index < slot, m.limit < slot
    PROVE  Mark(cs, e, fs, ws, m, k)
<1>1. PICK n \in Nat : DOMAIN d = 0 .. n - 1
  BY DEF Blocks, Descending
<1>2. m.index \in DOMAIN d \cup {-1} /\ m.limit \in DOMAIN d \cup {-1}
  BY DEF Mark
<1>7. slot \in Nat /\ DOMAIN e = DOMAIN d \cup {slot}
  BY DEF Extends
<1>3. /\  ChainIn(e, m.index) = ChainIn(d, m.index)
      /\ \A b \in ChainIn(d, m.index) : b \in DOMAIN d /\ b < slot /\ e[b] = d[b]
      /\ Under(cs, e, m.index, m.offset)
  <2>1. Under(cs, d, m.index, m.offset)
    BY DEF Mark
  <2> QED
    BY <1>2, <2>1, UnderPlaced
<1>4. ASSUME NEW b \in ChainIn(d, m.index) PROVE Under(cs, e, e[b].next, e[b].offset)
  <2>1. b \in DOMAIN d /\ b < slot /\ e[b] = d[b]
    BY <1>3
  <2>2. d[b].next \in DOMAIN d \cup {-1} /\ d[b].next < slot
    BY <1>1, <1>7, <2>1, ChainsNext
  <2>3. Under(cs, d, d[b].next, d[b].offset)
    BY DEF Mark
  <2> QED
    BY <2>1, <2>2, <2>3, UnderPlaced
<1>5. ASSUME NEW j \in 1 .. k
      PROVE  /\ fs[j].index \in -1 .. m.limit /\ fs[j].limit \in -1 .. m.limit
             /\ Under(cs, e, fs[j].index, m.offset)
             /\ \A b \in ChainIn(d, m.index) : b > m.limit => Under(cs, e, fs[j].index, e[b].offset)
  <2>1. /\ fs[j].index \in -1 .. m.limit /\ fs[j].limit \in -1 .. m.limit
        /\ Under(cs, d, fs[j].index, m.offset)
        /\ \A b \in ChainIn(d, m.index) : b > m.limit => Under(cs, d, fs[j].index, d[b].offset)
    BY DEF Mark
  <2>2. fs[j].index \in DOMAIN d \cup {-1} /\ fs[j].index < slot
    BY <1>1, <1>2, <1>7, <2>1
  <2>3. \A x : Under(cs, d, fs[j].index, x) => Under(cs, e, fs[j].index, x)
    BY <2>2, UnderPlaced
  <2> QED
    BY <1>3, <2>1, <2>3
<1>6. m.offset \in Nat /\ \A x \in 1 .. m.offset : x - 1 \in ws
  BY DEF Mark
<1> QED
  BY <1>2, <1>3, <1>4, <1>5, <1>6, <1>7 DEF Mark

\* The new frame is a place to go on at.
LEMMA MarkPlaced ==
    ASSUME NEW cs, NEW d, Blocks(cs, d), NEW next, NEW limit, NEW frame, NEW slot, NEW e,
           Puts(cs, d, next, limit, frame, slot, e),
           NEW fs, NEW vs, NEW m, NEW k \in Nat, Mark(cs, d, fs, vs, m, k), m.limit = limit,
           ChainIn(d, next) \subseteq ChainIn(d, m.index),
           Under(cs, d, next, frame.offset), \A j \in 1 .. k : Under(cs, d, fs[j].index, frame.offset),
           NEW w, w.index = slot, w.limit = limit, w.offset = frame.offset + VarsOf(cs, frame.id),
           NEW ws, \A n \in 1 .. w.offset : n - 1 \in ws
    PROVE  Mark(cs, e, fs, ws, w, k)
<1>0. /\ next \in DOMAIN d \cup {-1} /\ limit \in DOMAIN d \cup {-1}
      /\ frame.next = next /\ frame.offset \in Nat /\ VarsOf(cs, frame.id) \in Nat
  BY DEF Puts
<1>1. PICK n \in Nat : DOMAIN d = 0 .. n - 1
  BY DEF Blocks, Descending
<1>2. /\ Extends(d, slot, e) /\ slot > next /\ slot > limit
      /\ e[slot] = frame
      /\ ChainIn(e, slot) = {slot} \cup ChainIn(d, next)
  BY Placed
<1>12. slot \in Nat /\ DOMAIN e = DOMAIN d \cup {slot} /\ \A b \in DOMAIN d : b < slot => e[b] = d[b]
  BY <1>2 DEF Extends
<1>3. /\ \A b \in ChainIn(d, next) : b \in DOMAIN d /\ b < slot /\ e[b] = d[b]
      /\ \A x : Under(cs, d, next, x) => Under(cs, e, next, x)
  BY <1>0, <1>1, <1>2, <1>12, UnderPlaced
<1>4. w.offset \in Nat /\ frame.offset <= w.offset /\ Past(cs, e, slot) = w.offset
  BY <1>0, <1>2 DEF Past
<1>5. \A b \in ChainIn(d, next) : Past(cs, e, b) <= frame.offset /\ Past(cs, e, b) \in Nat
  BY <1>0, <1>3 DEF Under, Past, Blocks
<1>6. Under(cs, e, slot, w.offset)
  BY <1>0, <1>2, <1>4, <1>5 DEF Under
<1>7. ASSUME NEW b \in ChainIn(e, slot) PROVE Under(cs, e, e[b].next, e[b].offset)
  <2>1. CASE b = slot
    BY <1>0, <1>2, <1>3, <2>1
  <2>2. CASE b # slot
    <3>1. b \in ChainIn(d, next) /\ b \in ChainIn(d, m.index) /\ b \in DOMAIN d /\ b < slot /\ e[b] = d[b]
      BY <1>2, <1>3, <2>2
    <3>2. d[b].next \in DOMAIN d \cup {-1} /\ d[b].next < slot
      BY <1>1, <1>2, <1>12, <3>1, ChainsNext
    <3>3. Under(cs, d, d[b].next, d[b].offset)
      BY <3>1 DEF Mark
    <3> QED
      BY <1>2, <3>1, <3>2, <3>3, UnderPlaced
  <2> QED
    BY <2>1, <2>2
<1>8. ASSUME NEW j \in 1 .. k
      PROVE  /\ fs[j].index \in -1 .. limit /\ fs[j].limit \in -1 .. limit
             /\ Under(cs, e, fs[j].index, w.offset)
             /\ \A b \in ChainIn(e, slot) : b > limit => Under(cs, e, fs[j].index, e[b].offset)
  <2>1. fs[j].index \in -1 .. limit /\ fs[j].limit \in -1 .. limit
    BY DEF Mark
  <2>2. fs[j].index \in DOMAIN d \cup {-1} /\ fs[j].index < slot
    BY <1>0, <1>1, <1>2, <1>12, <2>1, SMTT(60)
  <2>3. /\ \A b \in ChainIn(d, fs[j].index) : b \in DOMAIN d /\ e[b] = d[b]
        /\ ChainIn(e, fs[j].index) = ChainIn(d, fs[j].index)
        /\ \A x : Under(cs, d, fs[j].index, x) => Under(cs, e, fs[j].index, x)
    BY <1>2, <2>2, UnderPlaced
  <2>4. Under(cs, e, fs[j].index, frame.offset)
    BY <2>3
  <2>5. \A b \in ChainIn(e, fs[j].index) : Past(cs, e, b) \in Nat
    BY <2>3 DEF Past, Blocks
  <2>6. Under(cs, e, fs[j].index, w.offset)
    BY <1>0, <1>4, <2>4, <2>5 DEF Under
  <2>7. ASSUME NEW b \in ChainIn(e, slot), b > limit PROVE Under(cs, e, fs[j].index, e[b].offset)
    <3>1. CASE b = slot
      BY <1>2, <2>4, <3>1
    <3>2. CASE b # slot
      <4>1. b \in ChainIn(d, next) /\ b \in ChainIn(d, m.index) /\ e[b] = d[b]
        BY <1>2, <1>3, <3>2
      <4>2. Under(cs, d, fs[j].index, d[b].offset)
        BY <2>7, <4>1 DEF Mark
      <4> QED
        BY <2>3, <4>1, <4>2
    <3> QED
      BY <3>1, <3>2
  <2> QED
    BY <2>1, <2>6, <2>7
<1>9. w.index \in DOMAIN e \cup {-1} /\ w.limit \in DOMAIN e \cup {-1}
  BY <1>0, <1>2, <1>12
<1>10. /\ \A b \in ChainIn(e, w.index) : Under(cs, e, e[b].next, e[b].offset)
       /\ Under(cs, e, w.index, w.offset)
  BY <1>6, <1>7
<1>11. \A j \in 1 .. k :
          /\ fs[j].index \in -1 .. w.limit /\ fs[j].limit \in -1 .. w.limit
          /\ Under(cs, e, fs[j].index, w.offset)
          /\ \A b \in ChainIn(e, w.index) : b > w.limit => Under(cs, e, fs[j].index, e[b].offset)
  BY <1>8
<1> QED
  BY <1>4, <1>9, <1>10, <1>11 DEF Mark

-------------------------------------------------------------------------------
(* Frames is an invariant.                                                 *)

LEMMA FramesInit == Init => Frames
<1> SUFFICES ASSUME Init PROVE Frames
  OBVIOUS
<1>1. forks = <<>> /\ scopes.index = -1 /\ scopes.limit = -1 /\ offset = 0 /\ scopes.data = <<>>
  BY DEF Init
<1>2. Descending(scopes.data)
  <2>1. DOMAIN scopes.data = 0 .. 0 - 1
    BY <1>1
  <2> QED
    BY <2>1 DEF Descending
<1>3. ChainIn(scopes.data, -1) = {}
  BY <1>2, ChainInFacts
<1>4. Blocks(code, scopes.data)
  BY <1>1, <1>2 DEF Blocks
<1>5. Mark(code, scopes.data, forks, DOMAIN values, Now, Len(forks))
  BY <1>1, <1>3 DEF Mark, Now, Under
<1>6. Lives(scopes.data, scopes.index, forks) = {}
  BY <1>1, <1>3 DEF Lives
<1>7. forks \in Seq({})
  BY <1>1
<1>8. DOMAIN scopes = {"data", "index", "limit"}
  BY DEF Init
<1>9. Beside(code, scopes.data, {})
  BY DEF Beside
<1> QED
  <2>1. \A i \in 1 .. Len(forks) : FALSE
    BY <1>1
  <2> QED
    BY <1>4, <1>5, <1>6, <1>7, <1>8, <1>9, <2>1 DEF Frames

LEMMA FramesStay == Frames /\ Staying /\ prog' = prog => Frames'
BY DEF Frames, Staying, Now, code

\* Fewer blocks are no closer to one another.
LEMMA FewerBeside ==
    ASSUME NEW cs, NEW d, NEW K, NEW L, K \subseteq L, Beside(cs, d, L)
    PROVE  Beside(cs, d, K)
BY DEF Beside

\* The parts of scopes.
LEMMA Parts ==
    ASSUME Frames, NEW x, NEW y, NEW z
    PROVE  /\ [scopes EXCEPT !.index = y].data = scopes.data
           /\ [scopes EXCEPT !.index = y].index = y
           /\ [scopes EXCEPT !.index = y].limit = scopes.limit
           /\ [scopes EXCEPT !.limit = z].data = scopes.data
           /\ [scopes EXCEPT !.limit = z].index = scopes.index
           /\ [scopes EXCEPT !.limit = z].limit = z
           /\ [scopes EXCEPT !.index = y, !.limit = z].data = scopes.data
           /\ [scopes EXCEPT !.index = y, !.limit = z].index = y
           /\ [scopes EXCEPT !.index = y, !.limit = z].limit = z
           /\ [scopes EXCEPT !.data = x, !.index = y].data = x
           /\ [scopes EXCEPT !.data = x, !.index = y].index = y
           /\ [scopes EXCEPT !.data = x, !.index = y].limit = scopes.limit
           /\ DOMAIN [scopes EXCEPT !.index = y] = DOMAIN scopes
           /\ DOMAIN [scopes EXCEPT !.limit = z] = DOMAIN scopes
           /\ DOMAIN [scopes EXCEPT !.index = y, !.limit = z] = DOMAIN scopes
           /\ DOMAIN [scopes EXCEPT !.data = x, !.index = y] = DOMAIN scopes
BY DEF Frames

LEMMA FramesSave == Frames /\ Saving /\ prog' = prog => Frames'
<1> SUFFICES ASSUME Frames, Saving, prog' = prog PROVE Frames'
  OBVIOUS
<1> DEFINE n == Len(forks)
<1>1. PICK S : forks \in Seq(S)
  BY DEF Frames
<1>2. PICK s : PushFork(s)
  BY DEF Saving
<1> DEFINE f == [pc |-> pc, offset |-> offset, expdepth |-> expdepth, stack |-> s,
                 index |-> scopes.index, limit |-> scopes.limit]
<1>3. forks' = Append(forks, f) /\ scopes' = [scopes EXCEPT !.limit = Larger(scopes.index, scopes.limit)]
  BY <1>2 DEF PushFork
<1>4. /\ f.index = Now.index /\ f.limit = Now.limit /\ f.offset = Now.offset
      /\ Now.index = scopes.index /\ Now.limit = scopes.limit
  BY DEF Now
<1> HIDE DEF f
<1>5. n \in Nat /\ Len(forks') = n + 1 /\ forks'[n + 1] = f /\ \A j \in 1 .. n : forks'[j] = forks[j]
  BY <1>1, <1>3
<1>6. forks' \in Seq(S \cup {f})
  BY <1>1, <1>3
<1>7. /\ scopes'.data = scopes.data /\ scopes'.index = scopes.index
      /\ scopes'.limit = Larger(scopes.index, scopes.limit) /\ DOMAIN scopes' = DOMAIN scopes
  BY <1>3, Parts
<1>8. code' = code /\ DOMAIN values' = DOMAIN values /\ offset' = offset
  BY DEF Saving, code
<1> DEFINE d == scopes.data
           vs == DOMAIN values
<1>9. /\ Blocks(code, d)
      /\ Mark(code, d, forks, vs, Now, n)
      /\ \A i \in 1 .. n : Mark(code, d, forks, vs, forks[i], i - 1)
  BY DEF Frames
<1> HIDE DEF d, vs, n
<1>10. Mark(code, d, forks', vs, Now', n + 1)
  <2>1. Now'.index = Now.index /\ Now'.offset = Now.offset /\ Now'.limit = Larger(Now.index, Now.limit)
    BY <1>7, <1>8 DEF Now
  <2> QED
    BY <1>4, <1>5, <1>9, <2>1, MarkSaved
<1>11. ASSUME NEW i \in 1 .. n + 1 PROVE Mark(code, d, forks', vs, forks'[i], i - 1)
  <2>1. CASE i = n + 1
    <3>1. Mark(code, d, forks', vs, Now, n)
      BY <1>5, <1>9, MarkKept
    <3>2. Mark(code, d, forks', vs, f, n)
      BY <1>4, <3>1 DEF Mark
    <3> QED
      BY <1>5, <2>1, <3>2
  <2>2. CASE i # n + 1
    <3>1. i \in 1 .. n /\ i - 1 \in Nat /\ \A j \in 1 .. i - 1 : forks'[j] = forks[j]
      BY <1>5, <2>2
    <3>2. Mark(code, d, forks, vs, forks[i], i - 1)
      BY <1>9, <3>1
    <3>3. Mark(code, d, forks', vs, forks[i], i - 1)
      BY <3>1, <3>2, MarkKept
    <3> QED
      BY <1>5, <3>1, <3>3
  <2> QED
    BY <2>1, <2>2
<1>12. Lives(d, scopes.index, forks') \subseteq Lives(d, scopes.index, forks)
  <2>1. ASSUME NEW k \in 1 .. n + 1
        PROVE  ChainIn(d, forks'[k].index) \subseteq Lives(d, scopes.index, forks)
    <3>1. CASE k = n + 1
      BY <1>4, <1>5, <3>1 DEF Lives
    <3>2. CASE k # n + 1
      <4>1. k \in 1 .. n /\ forks'[k] = forks[k]
        BY <1>5, <3>2
      <4> QED
        BY <4>1 DEF Lives, n
    <3> QED
      BY <3>1, <3>2
  <2> QED
    BY <1>5, <2>1 DEF Lives
<1>13. Beside(code, d, Lives(d, scopes.index, forks'))
  <2>1. Beside(code, d, Lives(d, scopes.index, forks))
    BY DEF Frames, d
  <2> QED
    BY <1>12, <2>1, FewerBeside
<1>14. /\ Blocks(code', scopes'.data)
       /\ Mark(code', scopes'.data, forks', DOMAIN values', Now', Len(forks'))
       /\ \A i \in 1 .. Len(forks') : Mark(code', scopes'.data, forks', DOMAIN values', forks'[i], i - 1)
       /\ Beside(code', scopes'.data, Lives(scopes'.data, scopes'.index, forks'))
  BY <1>5, <1>7, <1>8, <1>9, <1>10, <1>11, <1>13 DEF d, vs
<1>15. DOMAIN scopes' = {"data", "index", "limit"}
  BY <1>7 DEF Frames
<1> QED
  BY <1>6, <1>14, <1>15 DEF Frames

\* An older place comes back.
LEMMA FramesUnwind == Frames /\ Unwinding /\ prog' = prog => Frames'
<1> SUFFICES ASSUME Frames, Unwinding, prog' = prog PROVE Frames'
  OBVIOUS
<1> DEFINE n == Len(forks)
           d == scopes.data
           vs == DOMAIN values
<1>1. PICK S : forks \in Seq(S)
  BY DEF Frames
<1>2. PICK e : Unwind(e)
  BY DEF Unwinding
<1>3. /\ forks # <<>> /\ forks' = SubSeq(forks, 1, n - 1)
      /\ scopes' = [scopes EXCEPT !.index = forks[n].index, !.limit = forks[n].limit]
      /\ offset' = forks[n].offset /\ values' = values /\ code' = code
  BY <1>2 DEF Unwind, control, code
<1>4. n \in Nat \ {0} /\ Len(forks') = n - 1 /\ \A j \in 1 .. n - 1 : forks'[j] = forks[j]
  <2>1. n \in Nat /\ n # 0
    BY <1>1, <1>3
  <2> HIDE DEF n
  <2>2. n - 1 \in Nat /\ \A i \in 1 .. n - 1 : forks[i] \in S
    BY <1>1, <2>1 DEF n
  <2>3. /\ Len(SubSeq(forks, 1, n - 1)) = IF 1 <= n - 1 THEN (n - 1) - 1 + 1 ELSE 0
        /\ \A i \in 1 .. (n - 1) - 1 + 1 : SubSeq(forks, 1, n - 1)[i] = forks[1 + i - 1]
    BY <2>1, <2>2, SubSeqProperties
  <2> QED
    BY <1>3, <2>1, <2>3
<1>5. forks' \in Seq(S)
  BY <1>1, <1>3, <1>4
<1>6. /\ scopes'.data = d /\ scopes'.index = forks[n].index /\ scopes'.limit = forks[n].limit
      /\ DOMAIN scopes' = DOMAIN scopes
  BY <1>3, Parts
<1>7. /\ Blocks(code, d)
      /\ \A i \in 1 .. n : Mark(code, d, forks, vs, forks[i], i - 1)
      /\ Beside(code, d, Lives(d, scopes.index, forks))
      /\ DOMAIN scopes = {"data", "index", "limit"}
  BY DEF Frames
<1> HIDE DEF d, vs, n
<1>8. \A i \in 1 .. n : Mark(code, d, forks', vs, forks[i], i - 1)
  <2> TAKE i \in 1 .. n
  <2>1. i - 1 \in Nat /\ \A j \in 1 .. i - 1 : forks'[j] = forks[j]
    BY <1>4
  <2> QED
    BY <1>7, <2>1, MarkKept
<1>9. Mark(code, d, forks', vs, Now', n - 1)
  <2>1. Now'.index = forks[n].index /\ Now'.limit = forks[n].limit /\ Now'.offset = forks[n].offset
    BY <1>3, <1>6 DEF Now
  <2>2. Mark(code, d, forks', vs, forks[n], n - 1)
    BY <1>4, <1>8
  <2> QED
    BY <2>1, <2>2 DEF Mark
<1>10. Lives(d, scopes'.index, forks') \subseteq Lives(d, scopes.index, forks)
  <2>1. \A k \in 1 .. n : ChainIn(d, forks[k].index) \subseteq Lives(d, scopes.index, forks)
    BY DEF Lives, n
  <2>2. \A k \in 1 .. n - 1 : k \in 1 .. n /\ forks'[k] = forks[k]
    BY <1>4
  <2>3. n \in 1 .. n
    BY <1>4
  <2> QED
    BY <1>4, <1>6, <2>1, <2>2, <2>3 DEF Lives
<1>11. Beside(code, d, Lives(d, scopes'.index, forks'))
  BY <1>7, <1>10, FewerBeside
<1>12. \A i \in 1 .. n - 1 : i \in 1 .. n /\ forks'[i] = forks[i]
  BY <1>4
<1>13. /\ Blocks(code', scopes'.data)
       /\ Mark(code', scopes'.data, forks', DOMAIN values', Now', Len(forks'))
       /\ \A i \in 1 .. Len(forks') : Mark(code', scopes'.data, forks', DOMAIN values', forks'[i], i - 1)
       /\ Beside(code', scopes'.data, Lives(scopes'.data, scopes'.index, forks'))
  BY <1>3, <1>4, <1>6, <1>7, <1>8, <1>9, <1>11, <1>12 DEF vs
<1> QED
  BY <1>5, <1>6, <1>7, <1>13 DEF Frames

\* The last frame is left, and with it perhaps its variables.
LEMMA FramesLeave == Frames /\ WellCoded /\ Leaving /\ prog' = prog => Frames'
<1> SUFFICES ASSUME Frames, WellCoded, Leaving, prog' = prog PROVE Frames'
  OBVIOUS
<1> DEFINE n == Len(forks)
           d == scopes.data
           vs == DOMAIN values
           b == scopes.index
<1>1. PICK S : forks \in Seq(S)
  BY DEF Frames
<1>2. /\ scopes' = [scopes EXCEPT !.index = d[b].saveindex]
      /\ offset' = IF b > scopes.limit THEN d[b].offset ELSE offset
      /\ values' = values /\ forks' = forks /\ code' = code /\ b # -1
  BY DEF Leaving, WellCoded, Freed, code
<1>3. /\ Blocks(code, d)
      /\ Mark(code, d, forks, vs, Now, n)
      /\ \A i \in 1 .. n : Mark(code, d, forks, vs, forks[i], i - 1)
      /\ Beside(code, d, Lives(d, b, forks))
      /\ DOMAIN scopes = {"data", "index", "limit"}
  BY DEF Frames
<1>4. Now.index = b /\ Now.limit = scopes.limit /\ Now.offset = offset
  BY DEF Now
<1>5. d[b].saveindex = d[b].next
  BY <1>2, <1>3, <1>4 DEF Blocks, Mark
<1>6. /\ scopes'.data = d /\ scopes'.index = d[b].next /\ scopes'.limit = scopes.limit
      /\ DOMAIN scopes' = DOMAIN scopes
  BY <1>2, <1>5, Parts
<1>7. Now'.index = d[b].next /\ Now'.limit = scopes.limit /\ Now'.offset = offset'
  BY <1>6 DEF Now
<1>8. n \in Nat
  BY <1>1
<1> HIDE DEF d, vs, n, b
<1>9. Mark(code, d, forks, vs, Now', n) /\ ChainIn(d, scopes'.index) \subseteq ChainIn(d, b)
  <2>1. /\ Now'.index = d[Now.index].next /\ Now'.limit = Now.limit
        /\ Now'.offset = IF Now.index > Now.limit THEN d[Now.index].offset ELSE Now.offset
    BY <1>2, <1>4, <1>7 DEF d, b
  <2>2. Now.index # -1
    BY <1>2, <1>4 DEF b
  <2> DEFINE m == Now
             w == Now'
  <2>3. m.index # -1 /\ w.index = d[m.index].next /\ w.limit = m.limit
    BY <2>1, <2>2
  <2>4. w.offset = IF m.index > m.limit THEN d[m.index].offset ELSE m.offset
    BY <2>1
  <2> HIDE DEF m, w
  <2>5. Mark(code, d, forks, vs, m, n)
    BY <1>3 DEF m
  <2>6. Mark(code, d, forks, vs, w, n) /\ ChainIn(d, w.index) \subseteq ChainIn(d, m.index)
    BY <1>3, <1>8, <2>3, <2>4, <2>5, MarkLeft
  <2> QED
    BY <1>4, <1>6, <1>7, <2>6 DEF m, w, b
<1>10. Lives(d, scopes'.index, forks) \subseteq Lives(d, b, forks)
  BY <1>9 DEF Lives
<1>11. Beside(code, d, Lives(d, scopes'.index, forks))
  BY <1>3, <1>10, FewerBeside
<1>12. /\ Blocks(code', scopes'.data)
       /\ Mark(code', scopes'.data, forks', DOMAIN values', Now', Len(forks'))
       /\ \A i \in 1 .. Len(forks') : Mark(code', scopes'.data, forks', DOMAIN values', forks'[i], i - 1)
       /\ Beside(code', scopes'.data, Lives(scopes'.data, scopes'.index, forks'))
  BY <1>2, <1>3, <1>6, <1>9, <1>11 DEF vs, n
<1>13. forks' \in Seq(S)
  BY <1>1, <1>2
<1> QED
  BY <1>3, <1>6, <1>12, <1>13 DEF Frames

\* A scope instruction is the one of its number.
LEMMA ScopeVars ==
    ASSUME Flow, WellCoded, code[pc].op = "scope"
    PROVE  Arg.vars \in Nat /\ VarsOf(code, Arg.id) = Arg.vars
<1> DEFINE IsOf(i) == code[i].op = "scope" /\ code[i].v.id = Arg.id
           scope == CHOOSE i \in DOMAIN code : IsOf(i)
<1>1. pc \in DOMAIN code /\ IsOf(pc)
  BY DEF WellCoded, Arg
<1>2. scope \in DOMAIN code /\ IsOf(scope)
  BY <1>1
<1>3. scope = pc
  BY <1>1, <1>2, ProgramsAssumption DEF Flow, code, Arg
<1>4. VarsOf(code, Arg.id) = code[scope].v.vars
  BY DEF VarsOf, ScopeOf
<1> HIDE DEF scope
<1>5. Arg.vars \in Nat
  BY <1>1, ProgramsAssumption DEF Flow, code, Arg
<1> QED
  BY <1>3, <1>4, <1>5 DEF Arg

\* A frame is put above what it goes back to, with its variables from start on.
LEMMA FramesPlaced ==
    ASSUME Frames, Flow, WellCoded, code[pc].op = "scope",
           NEW returnTo, NEW next, NEW start, PushScope(returnTo, next, next, start),
           next \in DOMAIN scopes.data \cup {-1}, start \in Nat,
           ChainIn(scopes.data, next) \subseteq ChainIn(scopes.data, scopes.index),
           Under(code, scopes.data, next, start),
           \A j \in 1 .. Len(forks) : Under(code, scopes.data, forks[j].index, start)
    PROVE  Frames'
<1> DEFINE n == Len(forks)
           d == scopes.data
           vs == DOMAIN values
           limit == scopes.limit
           slot == Larger(next, limit) + 1
           frame == [id |-> Arg.id, offset |-> start, pc |-> returnTo, saveindex |-> next,
                     outer |-> OuterFrame(Arg.id), next |-> next]
           e == Put(d, slot, frame)
           ws == DOMAIN values'
<1>1. PICK S : forks \in Seq(S)
  BY DEF Frames
<1>2. /\ scopes' = [scopes EXCEPT !.data = e, !.index = slot]
      /\ offset' = start + Arg.vars
      /\ values' = Grown(start + Arg.vars)
      /\ forks' = forks /\ prog' = prog
  BY DEF PushScope, Continue, control
<1>3. /\ Blocks(code, d)
      /\ Mark(code, d, forks, vs, Now, n)
      /\ \A i \in 1 .. n : Mark(code, d, forks, vs, forks[i], i - 1)
      /\ Beside(code, d, Lives(d, scopes.index, forks))
      /\ DOMAIN scopes = {"data", "index", "limit"}
  BY DEF Frames
<1>4. Now.index = scopes.index /\ Now.limit = limit /\ Now.offset = offset
  BY DEF Now
<1>5. /\ scopes'.data = e /\ scopes'.index = slot /\ scopes'.limit = limit
      /\ DOMAIN scopes' = DOMAIN scopes
  BY <1>2, Parts
<1>6. Now'.index = slot /\ Now'.limit = limit /\ Now'.offset = offset'
  BY <1>5 DEF Now
<1>7. n \in Nat /\ code' = code
  BY <1>1, <1>2 DEF code
<1>8. Arg.vars \in Nat /\ VarsOf(code, Arg.id) = Arg.vars
  BY ScopeVars
<1>9. /\ frame.id = Arg.id /\ frame.offset = start /\ frame.next = next /\ frame.saveindex = next
  OBVIOUS
<1>10. ws = vs \cup 0 .. (start + Arg.vars) - 1
  BY <1>2 DEF Grown
<1>11. limit \in DOMAIN d \cup {-1}
  BY <1>3, <1>4 DEF Mark
<1> HIDE DEF frame
<1>12. Puts(code, d, next, limit, frame, slot, e)
  BY <1>8, <1>9, <1>11 DEF Puts
<1>13. /\ Under(code, d, next, frame.offset)
       /\ \A j \in 1 .. n : Under(code, d, forks[j].index, frame.offset)
       /\ ChainIn(d, next) \subseteq ChainIn(d, Now.index)
  BY <1>4, <1>9
<1> HIDE DEF d, vs, n, slot, e, ws, limit
<1>14. /\ Extends(d, slot, e) /\ Blocks(code, e)
       /\ slot > next /\ slot > limit
       /\ e[slot] = frame
       /\ ChainIn(e, slot) = {slot} \cup ChainIn(d, next)
  BY <1>3, <1>12, Placed
<1>15. Mark(code, e, forks, ws, Now', n)
  <2>1. Now'.offset = frame.offset + VarsOf(code, frame.id)
    BY <1>2, <1>6, <1>8, <1>9
  <2>2. \A x \in 1 .. Now'.offset : x - 1 \in ws
    BY <1>2, <1>6, <1>8, <1>10
  <2> QED
    BY <1>3, <1>4, <1>6, <1>7, <1>12, <1>13, <2>1, <2>2, MarkPlaced
<1>16. ASSUME NEW i \in 1 .. n
       PROVE  /\ forks[i].index \in DOMAIN d \cup {-1} /\ forks[i].index < slot
              /\ Mark(code, e, forks, ws, forks[i], i - 1)
  <2>1. Mark(code, d, forks, vs, forks[i], i - 1) /\ i - 1 \in Nat /\ vs \subseteq ws
    BY <1>3, <1>7, <1>10
  <2>2. forks[i].index \in -1 .. limit /\ forks[i].limit \in -1 .. limit
    BY <1>3, <1>4 DEF Mark
  <2>3. forks[i].index \in DOMAIN d \cup {-1}
    BY <2>1 DEF Mark
  <2>4. \E k \in Nat : DOMAIN d = 0 .. k - 1
    BY <1>3 DEF Blocks, Descending
  <2>5. slot \in Nat
    BY <1>14 DEF Extends
  <2>6. forks[i].index < slot /\ forks[i].limit < slot
    BY <1>11, <1>14, <2>2, <2>4, <2>5
  <2> QED
    BY <1>3, <1>14, <2>1, <2>3, <2>6, MarkBelow
<1>17. ASSUME NEW x \in Lives(e, slot, forks), x # slot
       PROVE  /\ x \in Lives(d, scopes.index, forks)
              /\ Past(code, e, x) = Past(code, d, x) /\ e[x] = d[x]
              /\ Past(code, e, x) <= start
  <2>1. ASSUME NEW i \in DOMAIN d \cup {-1}, i < slot, x \in ChainIn(d, i)
        PROVE  Past(code, e, x) = Past(code, d, x) /\ e[x] = d[x]
    <3>1. e[x] = d[x]
      BY <1>3, <1>14, <2>1, UnderPlaced
    <3> QED
      BY <3>1 DEF Past
  <2>2. CASE x \in ChainIn(e, slot)
    <3>1. x \in ChainIn(d, next) /\ next \in DOMAIN d \cup {-1} /\ next < slot
      BY <1>12, <1>14, <1>17, <2>2 DEF Puts
    <3>2. Past(code, d, x) <= start /\ x \in Lives(d, scopes.index, forks)
      BY <1>4, <1>9, <1>13, <3>1 DEF Under, Lives
    <3> QED
      BY <2>1, <3>1, <3>2
  <2>3. CASE x \notin ChainIn(e, slot)
    <3>1. PICK k \in 1 .. n : x \in ChainIn(e, forks[k].index)
      BY <2>3 DEF Lives, n
    <3>2. forks[k].index \in DOMAIN d \cup {-1} /\ forks[k].index < slot
      BY <1>16
    <3>3. x \in ChainIn(d, forks[k].index)
      BY <1>3, <1>14, <3>1, <3>2, UnderPlaced
    <3>4. Past(code, d, x) <= start /\ x \in Lives(d, scopes.index, forks)
      BY <1>9, <1>13, <3>3 DEF Under, Lives, n
    <3> QED
      BY <2>1, <3>2, <3>3, <3>4
  <2> QED
    BY <2>2, <2>3
<1>18. Beside(code, e, Lives(e, slot, forks))
  <2>1. e[slot].offset = start
    BY <1>9, <1>14
  <2>2. \A x, y \in Lives(e, slot, forks) : x # slot /\ y # slot /\ x # y =>
            Past(code, e, x) <= e[y].offset \/ Past(code, e, y) <= e[x].offset
    BY <1>3, <1>17 DEF Beside
  <2> QED
    BY <1>17, <2>1, <2>2 DEF Beside
<1>19. /\ Blocks(code', scopes'.data)
       /\ Mark(code', scopes'.data, forks', DOMAIN values', Now', Len(forks'))
       /\ \A i \in 1 .. Len(forks') : Mark(code', scopes'.data, forks', DOMAIN values', forks'[i], i - 1)
       /\ Beside(code', scopes'.data, Lives(scopes'.data, scopes'.index, forks'))
  BY <1>2, <1>5, <1>7, <1>14, <1>15, <1>16, <1>18 DEF ws, n
<1>20. forks' \in Seq(S)
  BY <1>1, <1>2
<1>21. DOMAIN scopes' = {"data", "index", "limit"}
  BY <1>3, <1>5
<1> QED
  BY <1>19, <1>20, <1>21 DEF Frames

\* A frame takes its place on top, or that of the caller whose last deed the call was.
LEMMA FramesEnter == Frames /\ Flow /\ WellCoded /\ Scope => Frames'
<1> SUFFICES ASSUME Frames, Flow, WellCoded, Scope PROVE Frames'
  OBVIOUS
<1> DEFINE d == scopes.data
           b == scopes.index
           top == d[b]
<1>1. code[pc].op = "scope"
  BY DEF Scope, Doing
<1>2. Blocks(code, d) /\ Mark(code, d, forks, DOMAIN values, Now, Len(forks))
  BY DEF Frames
<1>3. Now.index = b /\ Now.limit = scopes.limit /\ Now.offset = offset
  BY DEF Now
<1>4. b \in DOMAIN d \cup {-1} /\ offset \in Nat
  BY <1>2, <1>3 DEF Mark
<1>5. CASE ~Replacing
  <2>1. PushScope(call.pc, b, b, offset)
    BY <1>5 DEF Scope
  <2>2. Under(code, d, b, offset) /\ \A j \in 1 .. Len(forks) : Under(code, d, forks[j].index, offset)
    BY <1>2, <1>3 DEF Mark
  <2> QED
    BY <1>1, <1>4, <2>1, <2>2, FramesPlaced
<1>6. CASE Replacing
  <2>1. b # -1
    BY <1>6 DEF Replacing, Flow
  <2>2. top.saveindex = top.next
    BY <1>2, <1>4, <2>1 DEF Blocks
  <2>3. PushScope(top.pc, top.next, top.next, Freed(b))
    BY <1>6, <2>2 DEF Scope
  <2>4. PICK S : forks \in Seq(S)
    BY DEF Frames
  <2> DEFINE w == [index |-> top.next, limit |-> scopes.limit, offset |-> Freed(b)]
  <2>5. /\ w.index = d[Now.index].next /\ w.limit = Now.limit
        /\ w.offset = IF Now.index > Now.limit THEN d[Now.index].offset ELSE Now.offset
    BY <1>3 DEF Freed
  <2>6. w.index = top.next /\ w.offset = Freed(b)
    OBVIOUS
  <2> HIDE DEF w
  <2>7. Mark(code, d, forks, DOMAIN values, w, Len(forks)) /\ ChainIn(d, w.index) \subseteq ChainIn(d, b)
    <3>1. Len(forks) \in Nat
      BY <2>4
    <3> QED
      BY <1>2, <1>3, <2>1, <2>5, <3>1, MarkLeft
  <2>8. /\ top.next \in DOMAIN d \cup {-1} /\ Freed(b) \in Nat
        /\ Under(code, d, top.next, Freed(b))
        /\ \A j \in 1 .. Len(forks) : Under(code, d, forks[j].index, Freed(b))
        /\ ChainIn(d, top.next) \subseteq ChainIn(d, b)
    BY <2>6, <2>7 DEF Mark
  <2> QED
    BY <1>1, <2>3, <2>8, FramesPlaced
<1> QED
  BY <1>5, <1>6

LEMMA FramesStep == Frames /\ Flow /\ WellCoded /\ [Next]_vars => Frames'
BY Kinds, FramesStay, FramesSave, FramesUnwind, FramesLeave, FramesEnter

-------------------------------------------------------------------------------
(* What Frames says of Machine's own words.                                *)

LEMMA ChainIs == \A i : Chain(i) = ChainIn(scopes.data, i)
BY Zenon DEF Chain, ChainIn

LEMMA LiveIs == ASSUME Frames PROVE Live = Lives(scopes.data, scopes.index, forks)
<1>1. PICK S : forks \in Seq(S)
  BY DEF Frames
<1>2. DOMAIN forks = 1 .. Len(forks)
  BY <1>1
<1>3. Live = UNION {ChainIn(scopes.data, i) : i \in Current}
  BY ChainIs DEF Live
<1> QED
  BY <1>2, <1>3 DEF Current, Lives

\* What may be run in again is apart, and below what is free.
LEMMA FramesKeepApart == ASSUME Frames, Flow, WellCoded PROVE FramesApart
<1> DEFINE d == scopes.data
<1>1. PICK S : forks \in Seq(S)
  BY DEF Frames
<1>2. DOMAIN forks = 1 .. Len(forks)
  BY <1>1
<1>3. /\ Blocks(code, d)
      /\ Mark(code, d, forks, DOMAIN values, Now, Len(forks))
      /\ \A i \in 1 .. Len(forks) : Mark(code, d, forks, DOMAIN values, forks[i], i - 1)
      /\ Beside(code, d, Lives(d, scopes.index, forks))
  BY DEF Frames
<1>4. Now.index = scopes.index /\ Now.limit = scopes.limit /\ Now.offset = offset
  BY DEF Now
<1>5. TypeOK
  <2>1. \A i \in 1 .. Len(forks) : forks[i].index \in DOMAIN d \cup {-1}
    BY <1>3 DEF Mark
  <2>2. /\ scopes.index \in DOMAIN d \cup {-1} /\ scopes.limit \in DOMAIN d \cup {-1}
        /\ offset \in Nat /\ \A n \in 1 .. offset : n - 1 \in DOMAIN values
    BY <1>3, <1>4 DEF Mark
  <2>3. Current \cup {scopes.limit} \subseteq DOMAIN d \cup {-1}
    BY <1>2, <2>1, <2>2 DEF Current
  <2> QED
    BY <2>2, <2>3 DEF TypeOK, Flow
<1>6. ASSUME NEW b \in Live
      PROVE  /\ b \in DOMAIN d /\ d[b].offset \in Nat /\ Vars(b) \in Nat
             /\ Room(b) = d[b].offset .. Past(code, d, b) - 1
             /\ Past(code, d, b) \in Nat /\ Past(code, d, b) <= offset
  <2>1. PICK i \in {scopes.index} \cup {forks[k].index : k \in 1 .. Len(forks)} : b \in ChainIn(d, i)
    BY <1>2, ChainIs DEF Live, Current
  <2>2. i \in DOMAIN d \cup {-1} /\ Under(code, d, i, offset)
    BY <1>3, <1>4, <2>1 DEF Mark
  <2>3. b \in DOMAIN d
    BY <1>3, <2>1, <2>2, ChainsWithin
  <2>4. Vars(b) = VarsOf(code, d[b].id)
    BY DEF Vars, VarsOf, ScopeOf
  <2>5. d[b].offset \in Nat /\ VarsOf(code, d[b].id) \in Nat
    BY <1>3, <2>3 DEF Blocks
  <2> QED
    BY <2>1, <2>2, <2>3, <2>4, <2>5 DEF Room, Past, Under
<1>7. ASSUME NEW b \in Live, NEW c \in Live \ {b} PROVE Room(b) \cap Room(c) = {}
  <2>1. Past(code, d, b) <= d[c].offset \/ Past(code, d, c) <= d[b].offset
    BY <1>3, LiveIs DEF Beside
  <2> QED
    BY <1>6, <2>1
<1>8. ASSUME NEW b \in Live, NEW n \in Room(b) PROVE n < offset
  BY <1>4, <1>5, <1>6 DEF TypeOK
<1> QED
  BY <1>5, <1>7, <1>8 DEF FramesApart

-------------------------------------------------------------------------------
(* What holds of programs that are laid out as Layout says.                *)

\* The program has its scopes in order, and ns are notes that agree with it.
Sound(cs, ns) ==
    /\ Agree(cs, ns)
    /\ DOMAIN cs = 1 .. Len(cs)
    /\ \A i \in DOMAIN cs : cs[i].op = "scope" => cs[i].v.vars \in Nat
    /\ \A i, j \in DOMAIN cs : cs[i].op = "scope" /\ cs[j].op = "scope" /\ cs[i].v.id = cs[j].v.id => i = j

notes == Notes(code)

LEMMA ProgramSound == Flow => Sound(code, notes)
BY ProgramsAssumption, LayoutAssumption DEF Flow, Sound, LaidOut, code, notes

\* A scope instruction is the one of its number.
LEMMA ScopeIs ==
    ASSUME NEW cs, NEW ns, Sound(cs, ns), NEW p, IsScope(cs, p)
    PROVE  /\ ScopeOf(cs, cs[p].v.id) = p
           /\ ArgsOf(cs, cs[p].v.id) = cs[p].v.argc /\ cs[p].v.argc \in Nat
           /\ VarsOf(cs, cs[p].v.id) = cs[p].v.vars /\ cs[p].v.vars \in Nat
           /\ cs[p].v.argc = 0 \/ cs[p].v.argc < cs[p].v.vars
<1> DEFINE id == cs[p].v.id
           IsOf(i) == cs[i].op = "scope" /\ cs[i].v.id = id
           scope == CHOOSE i \in DOMAIN cs : IsOf(i)
<1>1. p \in DOMAIN cs /\ IsOf(p)
  BY DEF IsScope
<1>2. scope \in DOMAIN cs /\ IsOf(scope)
  BY <1>1
<1>3. scope = p
  BY <1>1, <1>2 DEF Sound
<1>4. ScopeOf(cs, id) = scope
  BY DEF ScopeOf
<1>5. ScopeOf(cs, id) = p
  BY <1>3, <1>4
<1>6. cs[p].v.argc \in Nat /\ (cs[p].v.argc = 0 \/ cs[p].v.argc < cs[p].v.vars) /\ cs[p].v.vars \in Nat
  BY <1>1 DEF Sound, Agree
<1> QED
  BY <1>5, <1>6 DEF ArgsOf, VarsOf

\* What is known where one has come to.
LEMMA Known ==
    ASSUME NEW cs, NEW ns, Sound(cs, ns), NEW i \in DOMAIN cs, ns[i] # Unreached
    PROVE  /\ ns[i].shape \in Seq({"value", "closure"})
           /\ ns[i].depth \in Nat
           /\ ArgsOf(cs, ns[i].home) \in Nat /\ ns[i].set \in 0 .. ArgsOf(cs, ns[i].home)
           /\ Permitted(cs, ns, i)
           /\ cs[i].op \notin Ends => Leads(cs, ns, i + 1, Following(cs, i, ns[i]))
           /\ cs[i].op \in Branches => Leads(cs, ns, cs[i].v, Branching(cs, i, ns[i]))
           /\ \E p : Starts(cs, ns, p) /\ cs[p].v.id = ns[i].home /\ ns[i].sees = ns[p].sees
<1>1. /\ ns[i].shape \in Seq({"value", "closure"})
      /\ ns[i].depth \in Nat
      /\ ns[i].set \in 0 .. ArgsOf(cs, ns[i].home)
      /\ Permitted(cs, ns, i)
      /\ cs[i].op \notin Ends => Leads(cs, ns, i + 1, Following(cs, i, ns[i]))
      /\ cs[i].op \in Branches => Leads(cs, ns, cs[i].v, Branching(cs, i, ns[i]))
  BY DEF Sound, Agree
<1> DEFINE p == ScopeOf(cs, ns[i].home)
<1>2. Starts(cs, ns, p) /\ cs[p].v.id = ns[i].home /\ ns[i].sees = ns[p].sees
  BY DEF Sound, Agree
<1>3. ArgsOf(cs, ns[i].home) = cs[p].v.argc
  BY DEF ArgsOf
<1> HIDE DEF p
<1>4. cs[p].v.argc \in Nat
  BY <1>2, ScopeIs DEF Starts
<1> QED
  BY <1>1, <1>2, <1>3, <1>4

-------------------------------------------------------------------------------
(* Frames, and what they are in.                                           *)

\* The blocks, linked to the frames the functions are in.
Outs(d) == [b \in DOMAIN d |-> [next |-> d[b].outer]]

\* The scopes whose variables block i finds.
Ids(d, i) == {d[b].id : b \in ChainIn(Outs(d), i)}

\* The function at p may be run in block f: it is, or f sees the functions around it.
MayRun(cs, ns, d, p, f) == Starts(cs, ns, p) /\ ns[p].sees \ {cs[p].v.id} \subseteq Ids(d, f)

\* x is a closure that may be called from block i.
Usable(cs, ns, d, i, x) ==
    \E p, f : /\ x = <<"closure", p, f>>
              /\ MayRun(cs, ns, d, p, f) /\ cs[p].v.argc = 0
              /\ f \in ChainIn(d, i) \cup {-1}

\* The first n parameters of block b are closures; those of the blocks from i on are.
Ready(cs, ns, d, vs, b, n) == \A k \in 1 .. n : Usable(cs, ns, d, b, vs[d[b].offset + k])
Params(cs, ns, d, vs, i)   == \A b \in ChainIn(d, i) : Ready(cs, ns, d, vs, b, ArgsOf(cs, d[b].id))

IsSeq(s) == \E S : s \in Seq(S)

\* Above the first h elements of the stack s are those of shape, for block i.
Fits(cs, ns, d, i, h, shape, s) ==
    /\ IsSeq(s) /\ h \in Nat /\ Len(s) = h + Len(shape)
    /\ \A q \in 1 .. Len(shape) : shape[q] = "closure" => Usable(cs, ns, d, i, s[h + q])

\* Instruction p is of the function whose frame block i is.
Inside(cs, ns, d, i, p) ==
    /\ p \in DOMAIN cs /\ cs[p].op # "scope" /\ ns[p] # Unreached
    /\ i \in DOMAIN d /\ d[i].id = ns[p].home

\* In block i, at instruction p, with the stack s and x expressions begun. The function of
\* block b has found hs[b] elements on the stack and es[b] expressions begun.
At(cs, ns, d, hs, es, p, i, s, x) ==
    /\ Inside(cs, ns, d, i, p)
    /\ Fits(cs, ns, d, i, hs[i], ns[p].shape, s)
    /\ x = es[i] + ns[p].depth

\* A function that has found h elements and x expressions goes back to p, in block i, with a
\* value on top, or else to the end of the program.
Back(cs, ns, d, hs, es, p, i, h, x) ==
    \/ i = -1 /\ p = Len(cs) /\ h = 0 /\ x = 0
    \/ /\ Inside(cs, ns, d, i, p + 1)
       /\ ns[p + 1].set = ArgsOf(cs, ns[p + 1].home)
       /\ ClosuresAt(ns[p + 1].shape, {})
       /\ h + 1 = hs[i] + Len(ns[p + 1].shape)
       /\ x = es[i] + ns[p + 1].depth

\* Block b is the frame of a function: it finds the variables of those around it in frames
\* that it is above, and goes back to where it was called.
Frame(cs, ns, d, hs, es, b) ==
    /\ \E p : Starts(cs, ns, p) /\ cs[p].v.id = d[b].id /\ ns[p].sees \subseteq Ids(d, b)
    /\ d[b].outer \in ChainIn(d, d[b].next) \cup {-1}
    /\ Back(cs, ns, d, hs, es, d[b].pc, d[b].next, hs[b], es[b])

Raising == {"forklabel", "forktryend"}

\* A fork is at an instruction that has saved it, and is to be gone on from unless that
\* only raises errors.
Saved(cs, ns, d, vs, hs, es, f) ==
    /\ f.pc \in DOMAIN cs /\ cs[f.pc].op \in Saves /\ f.expdepth \in Nat /\ IsSeq(f.stack)
    /\ Params(cs, ns, d, vs, f.index)
    /\ cs[f.pc].op \notin Raising => At(cs, ns, d, hs, es, f.pc, f.index, f.stack, f.expdepth)

\* The frames, and the places to go on at.
Settled(cs, ns, d, vs, hs, es, i, fs) ==
    /\ \A b \in Lives(d, i, fs) : Frame(cs, ns, d, hs, es, b)
    /\ \A k \in 1 .. Len(fs) : Saved(cs, ns, d, vs, hs, es, fs[k])

\* At an instruction of a function.
Standing(cs, ns, d, vs, hs, es, p, i, s, x) ==
    /\ At(cs, ns, d, hs, es, p, i, s, x)
    /\ Params(cs, ns, d, vs, d[i].next)
    /\ Ready(cs, ns, d, vs, i, ns[p].set)

\* At the start of a function that was called from block i, or is to replace it; c is the call.
Pending(cs, ns, d, vs, hs, es, p, i, s, x, c) ==
    /\ MayRun(cs, ns, d, p, c.index)
    /\ c.index \in ChainIn(d, i) \cup {-1}
    /\ Params(cs, ns, d, vs, i)
    /\ \E h \in Nat :
          /\ Fits(cs, ns, d, i, h, ns[p].shape, s)
          /\ \/ c.pc # NoCaller /\ Back(cs, ns, d, hs, es, c.pc, i, h, x)
             \/ /\ c.pc = NoCaller /\ c.index = i /\ i \in DOMAIN d
                /\ d[i].id = cs[p].v.id /\ cs[p].v.argc = 0
                /\ h = hs[i] /\ x = es[i]

\* The frames are settled, with the heights hs and es.
Steady(hs, es) ==
    /\ hs \in [Int -> Nat] /\ es \in [Int -> Nat]
    /\ Descending(Outs(scopes.data))
    /\ Settled(code, notes, scopes.data, values, hs, es, scopes.index, forks)

Stands(hs, es) == Standing(code, notes, scopes.data, values, hs, es, pc, scopes.index, stack, expdepth)
Called(hs, es) == Pending(code, notes, scopes.data, values, hs, es, pc, scopes.index, stack, expdepth, call)

\* At an instruction that a fork has come back to, or the end has, and that only raises errors.
Passing == backtrack /\ code[pc].op \in Raising \cup {"ret"}

\* Everything is in its place, for some heights of the frames.
InOrder ==
    /\ pc \in DOMAIN code /\ expdepth \in Nat /\ IsSeq(stack)
    /\ \E hs, es : Steady(hs, es) /\ (Passing \/ Stands(hs, es) \/ Called(hs, es))

-------------------------------------------------------------------------------
(* Chains.                                                                 *)

\* The chain of a block of a chain is in it.
LEMMA ChainWithin ==
    ASSUME NEW s, Descending(s), NEW i \in DOMAIN s \cup {-1}, NEW b \in ChainIn(s, i)
    PROVE  b \in DOMAIN s /\ b <= i /\ ChainIn(s, b) \subseteq ChainIn(s, i)
<1>1. PICK n \in Nat : DOMAIN s = 0 .. n - 1 /\ \A j \in 0 .. n - 1 : s[j].next \in -1 .. j - 1
  BY DEF Descending
<1>2. /\ ChainIn(s, -1) = {}
      /\ \A j \in DOMAIN s : ChainIn(s, j) = {j} \cup ChainIn(s, s[j].next)
      /\ \A j \in DOMAIN s \cup {-1} : ChainIn(s, j) \subseteq 0 .. j
  BY ChainInFacts
<1> DEFINE Holds(j) == \A c \in ChainIn(s, j) : ChainIn(s, c) \subseteq ChainIn(s, j)
           Bad == {j \in 0 .. n - 1 : ~ Holds(j)}
<1>3. Bad = {}
  <2> SUFFICES ASSUME Bad # {} PROVE FALSE
    OBVIOUS
  <2>1. Bad \subseteq Nat
    OBVIOUS
  <2>2. PICK j \in Bad : \A y \in Bad : j <= y
    BY <2>1, LeastExists
  <2>3. j \in 0 .. n - 1 /\ ~ Holds(j)
    OBVIOUS
  <2> DEFINE x == s[j].next
  <2>4. x \in -1 .. j - 1 /\ ChainIn(s, j) = {j} \cup ChainIn(s, x)
    BY <1>1, <1>2, <2>3
  <2> HIDE DEF x
  <2>5. Holds(x)
    <3>1. CASE x = -1
      BY <1>2, <3>1
    <3>2. CASE x # -1
      <4>1. x \in 0 .. n - 1 /\ ~ (j <= x)
        BY <2>3, <2>4, <3>2
      <4>2. x \notin Bad
        BY <2>2, <4>1
      <4> HIDE DEF Holds
      <4> QED
        BY <4>1, <4>2
    <3> QED
      BY <3>1, <3>2
  <2> QED
    BY <2>3, <2>4, <2>5
<1>4. Holds(i)
  <2>1. CASE i = -1
    BY <1>2, <2>1
  <2>2. CASE i # -1
    <3>1. i \in 0 .. n - 1
      BY <1>1, <2>2
    <3> HIDE DEF Holds
    <3> QED
      BY <1>3, <3>1
  <2> QED
    BY <2>1, <2>2
<1>5. b \in 0 .. i
  BY <1>2
<1>6. b \in DOMAIN s /\ b <= i
  BY <1>1, <1>5
<1> QED
  BY <1>4, <1>6

LEMMA OutsAre ==
    ASSUME NEW d
    PROVE  DOMAIN Outs(d) = DOMAIN d /\ \A b \in DOMAIN d : Outs(d)[b].next = d[b].outer
BY DEF Outs

\* The frames around a function are below its own.
LEMMA OutsWithin ==
    ASSUME NEW d, Descending(d), Descending(Outs(d)), NEW i \in DOMAIN d \cup {-1},
           \A b \in ChainIn(d, i) : d[b].outer \in ChainIn(d, d[b].next) \cup {-1}
    PROVE  ChainIn(Outs(d), i) \subseteq ChainIn(d, i)
<1>1. PICK n \in Nat : DOMAIN d = 0 .. n - 1 /\ \A j \in 0 .. n - 1 : d[j].next \in -1 .. j - 1
  BY DEF Descending
<1>2. /\ ChainIn(d, -1) = {}
      /\ \A j \in DOMAIN d : ChainIn(d, j) = {j} \cup ChainIn(d, d[j].next)
      /\ \A j \in DOMAIN d \cup {-1} : ChainIn(d, j) \subseteq 0 .. j
  BY ChainInFacts
<1>3. /\ ChainIn(Outs(d), -1) = {}
      /\ \A j \in DOMAIN d : ChainIn(Outs(d), j) = {j} \cup ChainIn(Outs(d), d[j].outer)
  BY ChainInFacts, OutsAre
<1> DEFINE Bad == {j \in 0 .. n - 1 : j \in ChainIn(d, i) /\ ~ (ChainIn(Outs(d), j) \subseteq ChainIn(d, j))}
<1>4. Bad = {}
  <2> SUFFICES ASSUME Bad # {} PROVE FALSE
    OBVIOUS
  <2>1. Bad \subseteq Nat
    OBVIOUS
  <2>2. PICK j \in Bad : \A y \in Bad : j <= y
    BY <2>1, LeastExists
  <2>3. j \in 0 .. n - 1 /\ j \in ChainIn(d, i) /\ j \in DOMAIN d
    BY <1>1
  <2> DEFINE o == d[j].outer
             x == d[j].next
  <2>4. x \in -1 .. j - 1 /\ x \in DOMAIN d \cup {-1} /\ ChainIn(d, j) = {j} \cup ChainIn(d, x)
    BY <1>1, <1>2, <2>3
  <2>5. o \in ChainIn(d, x) \cup {-1} /\ ChainIn(Outs(d), j) = {j} \cup ChainIn(Outs(d), o)
    BY <1>3, <2>3
  <2> HIDE DEF o, x
  <2>6. ChainIn(Outs(d), o) \subseteq ChainIn(d, x)
    <3>1. CASE o = -1
      BY <1>3, <3>1
    <3>2. CASE o # -1
      <4>1. o \in ChainIn(d, x) /\ o \in DOMAIN d /\ o <= x /\ ChainIn(d, o) \subseteq ChainIn(d, x)
        BY <2>4, <2>5, <3>2, ChainWithin
      <4>2. o \in 0 .. n - 1 /\ ~ (j <= o)
        BY <1>1, <2>3, <2>4, <4>1
      <4>3. ChainIn(d, j) \subseteq ChainIn(d, i)
        BY <2>3, ChainWithin
      <4>4. o \in ChainIn(d, i)
        BY <2>4, <4>1, <4>3
      <4>5. ChainIn(Outs(d), o) \subseteq ChainIn(d, o)
        BY <2>2, <4>2, <4>4
      <4> QED
        BY <4>1, <4>5
    <3> QED
      BY <3>1, <3>2
  <2> QED
    BY <2>4, <2>5, <2>6
<1>5. CASE i = -1
  BY <1>3, <1>5
<1>6. CASE i # -1
  <2>1. i \in 0 .. n - 1 /\ i \in ChainIn(d, i)
    BY <1>1, <1>2, <1>6
  <2> QED
    BY <1>4, <2>1
<1> QED
  BY <1>5, <1>6

\* FrameOf, in blocks d from i on.
FrameIn(d, id, i) ==
    LET frame[j \in DOMAIN d \cup {-1}] ==
            IF j = -1 \/ d[j].id = id THEN j ELSE frame[d[j].outer]
    IN  frame[i]

LEMMA FrameOfIs == \A id : FrameOf(id) = FrameIn(scopes.data, id, scopes.index)
BY Zenon DEF FrameOf, FrameIn

\* Such a function exists: it gives the last block of the scope in a chain.
Finds(f, d, id) ==
    f = [j \in DOMAIN d \cup {-1} |-> IF j = -1 \/ d[j].id = id THEN j ELSE f[d[j].outer]]

LEMMA FrameExists ==
    ASSUME NEW d, NEW id, Descending(Outs(d))
    PROVE  \E f : Finds(f, d, id)
<1> DEFINE s == Outs(d)
<1>1. PICK n \in Nat : DOMAIN d = 0 .. n - 1 /\ \A j \in 0 .. n - 1 : d[j].outer \in -1 .. j - 1
  BY OutsAre DEF Descending
<1>2. /\ ChainIn(s, -1) = {}
      /\ \A j \in DOMAIN d : ChainIn(s, j) = {j} \cup ChainIn(s, d[j].outer)
      /\ \A j \in DOMAIN d \cup {-1} : ChainIn(s, j) \subseteq 0 .. j
  BY ChainInFacts, OutsAre
<1> DEFINE T(j) == {b \in ChainIn(s, j) : d[b].id = id}
           last(j) == IF T(j) = {} THEN -1 ELSE Max(T(j))
           f == [j \in DOMAIN d \cup {-1} |-> last(j)]
<1>3. ASSUME NEW j \in DOMAIN d \cup {-1}
      PROVE  f[j] = IF j = -1 \/ d[j].id = id THEN j ELSE f[d[j].outer]
  <2>1. CASE j = -1
    BY <1>2, <2>1
  <2>2. CASE j # -1 /\ d[j].id = id
    <3>1. j \in Nat /\ T(j) \subseteq 0 .. j /\ j \in T(j)
      BY <1>1, <1>2, <2>2
    <3> HIDE DEF T
    <3>2. Max(T(j)) \in T(j) /\ Max(T(j)) >= j
      BY <3>1, MaxOf
    <3>3. Max(T(j)) = j
      BY <3>1, <3>2
    <3> QED
      BY <2>2, <3>1, <3>3
  <2>3. CASE j # -1 /\ d[j].id # id
    <3>1. j \in DOMAIN d /\ d[j].outer \in DOMAIN d \cup {-1}
      BY <1>1, <2>3
    <3>2. T(j) = T(d[j].outer)
      BY <1>2, <2>3, <3>1
    <3> HIDE DEF T
    <3> QED
      BY <2>3, <3>1, <3>2
  <2> QED
    BY <2>1, <2>2, <2>3
<1>4. f = [j \in DOMAIN d \cup {-1} |-> IF j = -1 \/ d[j].id = id THEN j ELSE f[d[j].outer]]
  BY <1>3
<1> QED
  BY <1>4 DEF Finds

\* A scope that is seen has a frame in the chain, its own when that is the last.
LEMMA FrameInFacts ==
    ASSUME NEW d, NEW id, Descending(Outs(d)), NEW i \in DOMAIN d \cup {-1}, id \in Ids(d, i)
    PROVE  /\ FrameIn(d, id, i) \in ChainIn(Outs(d), i) /\ d[FrameIn(d, id, i)].id = id
           /\ d[i].id = id => FrameIn(d, id, i) = i
<1> DEFINE s == Outs(d)
           c == CHOOSE f : f = [j \in DOMAIN d \cup {-1} |-> IF j = -1 \/ d[j].id = id THEN j ELSE f[d[j].outer]]
<1>1. PICK n \in Nat : DOMAIN d = 0 .. n - 1 /\ \A j \in 0 .. n - 1 : d[j].outer \in -1 .. j - 1
  BY OutsAre DEF Descending
<1>2. /\ ChainIn(s, -1) = {}
      /\ \A j \in DOMAIN d : ChainIn(s, j) = {j} \cup ChainIn(s, d[j].outer)
  BY ChainInFacts, OutsAre
<1>3. c = [j \in DOMAIN d \cup {-1} |-> IF j = -1 \/ d[j].id = id THEN j ELSE c[d[j].outer]]
  <2>1. PICK f : Finds(f, d, id)
    BY FrameExists
  <2>2. f = [j \in DOMAIN d \cup {-1} |-> IF j = -1 \/ d[j].id = id THEN j ELSE f[d[j].outer]]
    BY <2>1, Zenon DEF Finds
  <2> QED
    BY <2>2, Zenon
<1>4. FrameIn(d, id, i) = c[i]
  BY Zenon DEF FrameIn
<1> HIDE DEF c
<1>5. \A j \in DOMAIN d \cup {-1} : c[j] = IF j = -1 \/ d[j].id = id THEN j ELSE c[d[j].outer]
  BY <1>3
<1> DEFINE Bad == {j \in 0 .. n - 1 : id \in Ids(d, j) /\ ~ (c[j] \in ChainIn(s, j) /\ d[c[j]].id = id)}
<1>6. Bad = {}
  <2> SUFFICES ASSUME Bad # {} PROVE FALSE
    OBVIOUS
  <2>1. Bad \subseteq Nat
    OBVIOUS
  <2>2. PICK j \in Bad : \A y \in Bad : j <= y
    BY <2>1, LeastExists
  <2>3. j \in 0 .. n - 1 /\ j \in DOMAIN d /\ id \in Ids(d, j)
    BY <1>1
  <2> DEFINE o == d[j].outer
  <2>4. o \in -1 .. j - 1 /\ ChainIn(s, j) = {j} \cup ChainIn(s, o)
    BY <1>1, <1>2, <2>3
  <2>5. CASE d[j].id = id
    <3>1. c[j] = j
      BY <1>5, <2>3, <2>5
    <3> QED
      BY <2>4, <2>5, <3>1
  <2>6. CASE d[j].id # id
    <3>1. c[j] = c[o]
      BY <1>5, <2>3, <2>6
    <3> HIDE DEF o
    <3>2. id \in Ids(d, o)
      BY <2>3, <2>4, <2>6 DEF Ids
    <3>3. o # -1
      BY <1>2, <3>2 DEF Ids
    <3>4. o \in 0 .. n - 1 /\ ~ (j <= o)
      BY <2>3, <2>4, <3>3
    <3>5. c[o] \in ChainIn(s, o) /\ d[c[o]].id = id
      BY <2>2, <3>2, <3>4
    <3> QED
      BY <2>4, <3>1, <3>5
  <2> QED
    BY <2>5, <2>6
<1>7. i # -1
  BY <1>2 DEF Ids
<1>8. i \in 0 .. n - 1 /\ i \in DOMAIN d
  BY <1>1, <1>7
<1>9. c[i] \in ChainIn(s, i) /\ d[c[i]].id = id
  BY <1>6, <1>8
<1>10. d[i].id = id => c[i] = i
  BY <1>5, <1>8
<1> QED
  BY <1>4, <1>9, <1>10

-------------------------------------------------------------------------------
(* The stack.                                                              *)

Tags == {"value", "closure"}

LEMMA FitsPush ==
    ASSUME NEW cs, NEW ns, NEW d, NEW i, NEW h, NEW shape \in Seq(Tags), NEW s, NEW x,
           NEW tag \in Tags, Fits(cs, ns, d, i, h, shape, s), tag = "closure" => Usable(cs, ns, d, i, x)
    PROVE  Fits(cs, ns, d, i, h, Append(shape, tag), Append(s, x))
<1>1. PICK S : s \in Seq(S)
  BY DEF Fits, IsSeq
<1>2. IsSeq(Append(s, x))
  <2>1. Append(s, x) \in Seq(S \cup {x})
    BY <1>1
  <2> QED
    BY <2>1 DEF IsSeq
<1>3. h \in Nat /\ Len(s) = h + Len(shape)
  BY DEF Fits
<1>4. Len(Append(s, x)) = h + Len(Append(shape, tag))
  BY <1>1, <1>3
<1>5. ASSUME NEW q \in 1 .. Len(Append(shape, tag)), Append(shape, tag)[q] = "closure"
      PROVE  Usable(cs, ns, d, i, Append(s, x)[h + q])
  <2>1. CASE q = Len(shape) + 1
    <3>1. Append(shape, tag)[q] = tag /\ Append(s, x)[h + q] = x
      BY <1>1, <1>3, <2>1
    <3> QED
      BY <1>5, <3>1
  <2>2. CASE q # Len(shape) + 1
    <3>1. q \in 1 .. Len(shape) /\ h + q \in 1 .. Len(s)
      BY <1>3, <2>2
    <3>2. Append(shape, tag)[q] = shape[q] /\ Append(s, x)[h + q] = s[h + q]
      BY <1>1, <3>1
    <3> QED
      BY <1>5, <3>1, <3>2 DEF Fits
  <2> QED
    BY <2>1, <2>2
<1> QED
  BY <1>2, <1>3, <1>4, <1>5 DEF Fits

LEMMA FitsPop ==
    ASSUME NEW cs, NEW ns, NEW d, NEW i, NEW h, NEW shape \in Seq(Tags), NEW s,
           Fits(cs, ns, d, i, h, shape, s), NEW k \in 0 .. Len(shape)
    PROVE  /\ SubSeq(shape, 1, Len(shape) - k) \in Seq(Tags)
           /\ Len(SubSeq(shape, 1, Len(shape) - k)) = Len(shape) - k
           /\ \A q \in 1 .. Len(shape) - k : SubSeq(shape, 1, Len(shape) - k)[q] = shape[q]
           /\ Fits(cs, ns, d, i, h, SubSeq(shape, 1, Len(shape) - k), SubSeq(s, 1, Len(s) - k))
<1>1. PICK S : s \in Seq(S)
  BY DEF Fits, IsSeq
<1>2. h \in Nat /\ Len(s) = h + Len(shape) /\ Len(shape) \in Nat
  BY DEF Fits
<1> DEFINE m == Len(shape) - k
           n == Len(s) - k
<1>3. m \in Nat /\ n \in Nat /\ n = h + m /\ m <= Len(shape) /\ n <= Len(s)
  BY <1>2
<1> HIDE DEF m, n
<1>4. /\ SubSeq(shape, 1, m) \in Seq(Tags) /\ Len(SubSeq(shape, 1, m)) = m
      /\ \A q \in 1 .. m : SubSeq(shape, 1, m)[q] = shape[q]
  BY <1>3
<1>5. /\ SubSeq(s, 1, n) \in Seq(S) /\ Len(SubSeq(s, 1, n)) = n
      /\ \A q \in 1 .. n : SubSeq(s, 1, n)[q] = s[q]
  BY <1>1, <1>3
<1>6. ASSUME NEW q \in 1 .. m, SubSeq(shape, 1, m)[q] = "closure"
      PROVE  Usable(cs, ns, d, i, SubSeq(s, 1, n)[h + q])
  <2>1. q \in 1 .. Len(shape) /\ h + q \in 1 .. n
    BY <1>2, <1>3
  <2> QED
    BY <1>4, <1>5, <1>6, <2>1 DEF Fits
<1>7. Fits(cs, ns, d, i, h, SubSeq(shape, 1, m), SubSeq(s, 1, n))
  BY <1>2, <1>3, <1>4, <1>5, <1>6 DEF Fits, IsSeq
<1> QED
  BY <1>4, <1>7 DEF m, n

\* Where no closures are asked for, the height is all.
LEMMA FitsPlain ==
    ASSUME NEW cs, NEW ns, NEW d, NEW e, NEW i, NEW j, NEW h, NEW shape, NEW s, NEW t, IsSeq(t),
           Fits(cs, ns, d, i, h, shape, s), Len(t) = Len(s), ClosuresAt(shape, {})
    PROVE  Fits(cs, ns, e, j, h, shape, t)
BY DEF Fits, ClosuresAt

-------------------------------------------------------------------------------
(* Going on within a function.                                             *)

LEMMA StandsOn ==
    ASSUME NEW cs, NEW ns, NEW d, NEW vs, NEW hs, NEW es, NEW p, NEW i, NEW s, NEW x,
           Standing(cs, ns, d, vs, hs, es, p, i, s, x),
           NEW j, NEW n, Leads(cs, ns, j, n), n.home = ns[p].home, n.set = ns[p].set,
           NEW t, NEW y, Fits(cs, ns, d, i, hs[i], n.shape, t), y = es[i] + n.depth
    PROVE  Standing(cs, ns, d, vs, hs, es, j, i, t, y)
BY DEF Standing, At, Inside, Leads

\* What Standing says of the notes.
LEMMA StandsKnown ==
    ASSUME NEW cs, NEW ns, Sound(cs, ns), NEW d, NEW vs, NEW hs, NEW es, NEW p, NEW i, NEW s, NEW x,
           Standing(cs, ns, d, vs, hs, es, p, i, s, x)
    PROVE  /\ p \in DOMAIN cs /\ ns[p] # Unreached
           /\ ns[p].shape \in Seq(Tags) /\ ns[p].depth \in Nat
           /\ Permitted(cs, ns, p)
           /\ cs[p].op \notin Ends => Leads(cs, ns, p + 1, Following(cs, p, ns[p]))
           /\ cs[p].op \in Branches => Leads(cs, ns, cs[p].v, Branching(cs, p, ns[p]))
           /\ Fits(cs, ns, d, i, hs[i], ns[p].shape, s) /\ x = es[i] + ns[p].depth
<1>1. p \in DOMAIN cs /\ ns[p] # Unreached
  BY DEF Standing, At, Inside
<1>2. Fits(cs, ns, d, i, hs[i], ns[p].shape, s) /\ x = es[i] + ns[p].depth
  BY DEF Standing, At
<1> QED
  BY <1>1, <1>2, Known DEF Tags

\* The next instruction with k elements less, and x on top.
LEMMA StandsPut ==
    ASSUME NEW cs, NEW ns, Sound(cs, ns), NEW d, NEW vs, NEW hs, NEW es, NEW p, NEW i, NEW s, NEW x,
           Standing(cs, ns, d, vs, hs, es, p, i, s, x),
           NEW k \in 0 .. Len(ns[p].shape), NEW j, NEW tag \in Tags,
           Leads(cs, ns, j, Pushed(Popped(ns[p], k), tag)),
           NEW y, tag = "closure" => Usable(cs, ns, d, i, y)
    PROVE  Standing(cs, ns, d, vs, hs, es, j, i, Append(SubSeq(s, 1, Len(s) - k), y), x)
<1> DEFINE n == ns[p]
           m == Pushed(Popped(n, k), tag)
           shape == SubSeq(n.shape, 1, Len(n.shape) - k)
<1>1. n.shape \in Seq(Tags) /\ Fits(cs, ns, d, i, hs[i], n.shape, s) /\ x = es[i] + n.depth
  BY StandsKnown
<1>2. m.home = n.home /\ m.set = n.set /\ m.depth = n.depth /\ m.shape = Append(shape, tag)
  BY DEF Pushed, Popped, Shaped, Note
<1> HIDE DEF m, n
<1>3. shape \in Seq(Tags) /\ Fits(cs, ns, d, i, hs[i], shape, SubSeq(s, 1, Len(s) - k))
  BY <1>1, FitsPop DEF n
<1> HIDE DEF shape
<1>4. Fits(cs, ns, d, i, hs[i], m.shape, Append(SubSeq(s, 1, Len(s) - k), y))
  BY <1>2, <1>3, FitsPush
<1>5. Leads(cs, ns, j, m) /\ m.home = ns[p].home /\ m.set = ns[p].set /\ x = es[i] + m.depth
  BY <1>1, <1>2 DEF m, n
<1> QED
  BY <1>4, <1>5, StandsOn

LEMMA StandsPush ==
    ASSUME NEW cs, NEW ns, Sound(cs, ns), NEW d, NEW vs, NEW hs, NEW es, NEW p, NEW i, NEW s, NEW x,
           Standing(cs, ns, d, vs, hs, es, p, i, s, x),
           NEW j, NEW tag \in Tags, Leads(cs, ns, j, Pushed(ns[p], tag)),
           NEW y, tag = "closure" => Usable(cs, ns, d, i, y)
    PROVE  Standing(cs, ns, d, vs, hs, es, j, i, Append(s, y), x)
<1> DEFINE n == ns[p]
           m == Pushed(n, tag)
<1>1. n.shape \in Seq(Tags) /\ Fits(cs, ns, d, i, hs[i], n.shape, s) /\ x = es[i] + n.depth
  BY StandsKnown
<1>2. m.home = n.home /\ m.set = n.set /\ m.depth = n.depth /\ m.shape = Append(n.shape, tag)
  BY DEF Pushed, Shaped, Note
<1> HIDE DEF m, n
<1>3. Fits(cs, ns, d, i, hs[i], m.shape, Append(s, y))
  BY <1>1, <1>2, FitsPush
<1>4. Leads(cs, ns, j, m) /\ m.home = ns[p].home /\ m.set = ns[p].set /\ x = es[i] + m.depth
  BY <1>1, <1>2 DEF m, n
<1> QED
  BY <1>3, <1>4, StandsOn

LEMMA StandsPop ==
    ASSUME NEW cs, NEW ns, Sound(cs, ns), NEW d, NEW vs, NEW hs, NEW es, NEW p, NEW i, NEW s, NEW x,
           Standing(cs, ns, d, vs, hs, es, p, i, s, x),
           NEW k \in 0 .. Len(ns[p].shape), NEW j, Leads(cs, ns, j, Popped(ns[p], k))
    PROVE  Standing(cs, ns, d, vs, hs, es, j, i, SubSeq(s, 1, Len(s) - k), x)
<1> DEFINE n == ns[p]
           m == Popped(n, k)
           shape == SubSeq(n.shape, 1, Len(n.shape) - k)
<1>1. n.shape \in Seq(Tags) /\ Fits(cs, ns, d, i, hs[i], n.shape, s) /\ x = es[i] + n.depth
  BY StandsKnown
<1>2. /\ m.home = n.home /\ m.set = n.set /\ m.depth = n.depth
      /\ m.shape = shape
  BY DEF Popped, Shaped, Note
<1> HIDE DEF m, n
<1>3. Fits(cs, ns, d, i, hs[i], shape, SubSeq(s, 1, Len(s) - k))
  BY <1>1, FitsPop DEF n
<1> HIDE DEF shape
<1>4. Fits(cs, ns, d, i, hs[i], m.shape, SubSeq(s, 1, Len(s) - k))
  BY <1>2, <1>3
<1>5. Leads(cs, ns, j, m) /\ m.home = ns[p].home /\ m.set = ns[p].set /\ x = es[i] + m.depth
  BY <1>1, <1>2 DEF m, n
<1> QED
  BY <1>4, <1>5, StandsOn

\* An instruction that leaves the stack and what is known alone.
LEMMA StandsStill ==
    ASSUME NEW cs, NEW ns, Sound(cs, ns), NEW d, NEW vs, NEW hs, NEW es, NEW p, NEW i, NEW s, NEW x,
           Standing(cs, ns, d, vs, hs, es, p, i, s, x), NEW j, Leads(cs, ns, j, ns[p])
    PROVE  Standing(cs, ns, d, vs, hs, es, j, i, s, x)
BY StandsKnown, StandsOn

-------------------------------------------------------------------------------
(* What a function sees.                                                   *)

\* The frame of a function finds all the function sees.
LEMMA SeesHere ==
    ASSUME NEW cs, NEW ns, Sound(cs, ns), NEW d, NEW hs, NEW es, NEW i, NEW p,
           Frame(cs, ns, d, hs, es, i), Inside(cs, ns, d, i, p)
    PROVE  ns[p].sees \subseteq Ids(d, i)
<1>1. PICK q : Starts(cs, ns, q) /\ cs[q].v.id = d[i].id /\ ns[q].sees \subseteq Ids(d, i)
  BY DEF Frame
<1>2. p \in DOMAIN cs /\ ns[p] # Unreached /\ d[i].id = ns[p].home
  BY DEF Inside
<1>3. PICK r : Starts(cs, ns, r) /\ cs[r].v.id = ns[p].home /\ ns[p].sees = ns[r].sees
  BY <1>2, Known
<1>4. q = r
  BY <1>1, <1>2, <1>3 DEF Sound, Starts, IsScope
<1> QED
  BY <1>1, <1>3, <1>4

\* What may be called from a frame may be called from those above it.
LEMMA UsableAbove ==
    ASSUME NEW cs, NEW ns, NEW d, NEW i, NEW j, NEW x, Usable(cs, ns, d, j, x),
           ChainIn(d, j) \subseteq ChainIn(d, i)
    PROVE  Usable(cs, ns, d, i, x)
BY DEF Usable

-------------------------------------------------------------------------------
(* Steps within a function.                                                *)

LEMMA StandsAt ==
    ASSUME NEW hs, NEW es, Passing \/ Stands(hs, es) \/ Called(hs, es),
           code[pc].op \notin Raising \cup {"ret"} \/ ~backtrack, code[pc].op # "scope"
    PROVE  Stands(hs, es)
BY DEF Passing, Called, Pending, MayRun, Starts, IsScope

LEMMA CalledAt ==
    ASSUME NEW hs, NEW es, Passing \/ Stands(hs, es) \/ Called(hs, es), code[pc].op = "scope"
    PROVE  Called(hs, es)
BY DEF Passing, Raising, Stands, Standing, At, Inside

LEMMA SameNotes == ASSUME prog' = prog PROVE code' = code /\ notes' = notes
BY DEF code, notes

\* Blocks are numbers.
LEMMA BlocksAre == ASSUME NEW cs, NEW d, Blocks(cs, d) PROVE DOMAIN d \subseteq Nat
BY DEF Blocks, Descending

\* A step that leaves the frames alone is in order when the place it goes to is.
LEMMA OrderOn ==
    ASSUME Flow, Frames, NEW hs, NEW es, Steady(hs, es), UNCHANGED <<prog, frames, forks>>,
           Standing(code, notes, scopes.data, values, hs, es, pc', scopes.index, stack', expdepth')
    PROVE  InOrder'
<1>1. code' = code /\ notes' = notes /\ scopes' = scopes /\ values' = values /\ forks' = forks
  BY SameNotes DEF frames
<1>2. Steady(hs, es)' /\ Stands(hs, es)'
  BY <1>1 DEF Steady, Stands
<1>3. /\ pc' \in DOMAIN code /\ notes[pc'] # Unreached /\ scopes.index \in DOMAIN scopes.data
      /\ IsSeq(stack') /\ expdepth' = es[scopes.index] + notes[pc'].depth
  BY DEF Standing, At, Inside, Fits
<1>4. notes[pc'].depth \in Nat
  BY <1>3, ProgramSound, Known
<1>5. es[scopes.index] \in Nat
  BY <1>3, BlocksAre DEF Steady, Frames
<1> QED
  BY <1>1, <1>2, <1>3, <1>4, <1>5 DEF InOrder

LEMMA OrderStep ==
    ASSUME Flow, Frames, NEW hs, NEW es, Steady(hs, es), NEW s, NEW j, Step(s, j) \/ Resume(s, j),
           Standing(code, notes, scopes.data, values, hs, es, j, scopes.index, s, expdepth)
    PROVE  InOrder'
<1>1. UNCHANGED <<prog, frames, forks, expdepth>> /\ stack' = s /\ pc' = j
  BY DEF Step, Continue, Resume, control
<1> QED
  BY <1>1, OrderOn

\* A fork is popped.
LEMMA OrderUnwind ==
    ASSUME Flow, Frames, NEW hs, NEW es, Steady(hs, es), NEW e, Unwind(e)
    PROVE  InOrder'
<1> DEFINE n == Len(forks)
           f == forks[n]
           d == scopes.data
<1>1. PICK S : forks \in Seq(S)
  BY DEF Frames
<1>2. /\ forks # <<>> /\ forks' = SubSeq(forks, 1, n - 1)
      /\ scopes' = [scopes EXCEPT !.index = f.index, !.limit = f.limit]
      /\ values' = values /\ pc' = f.pc /\ expdepth' = f.expdepth /\ stack' = f.stack /\ backtrack' = TRUE
      /\ code' = code /\ notes' = notes
  BY SameNotes DEF Unwind, control
<1>3. /\ scopes'.data = d /\ scopes'.index = f.index
  BY <1>2, Parts
<1>4. n \in Nat \ {0} /\ Len(forks') = n - 1 /\ \A j \in 1 .. n - 1 : forks'[j] = forks[j] /\ j \in 1 .. n
  <2>1. n \in Nat /\ n # 0
    BY <1>1, <1>2
  <2> HIDE DEF n
  <2>2. n - 1 \in Nat /\ \A i \in 1 .. n - 1 : forks[i] \in S
    BY <1>1, <2>1 DEF n
  <2>3. /\ Len(SubSeq(forks, 1, n - 1)) = IF 1 <= n - 1 THEN (n - 1) - 1 + 1 ELSE 0
        /\ \A i \in 1 .. (n - 1) - 1 + 1 : SubSeq(forks, 1, n - 1)[i] = forks[1 + i - 1]
    BY <2>1, <2>2, SubSeqProperties
  <2> QED
    BY <1>2, <2>1, <2>3
<1>5. Settled(code, notes, d, values, hs, es, scopes.index, forks)
  BY DEF Steady
<1>6. n \in 1 .. n /\ f = forks[n]
  BY <1>4
<1> HIDE DEF d, n, f
<1>7. Saved(code, notes, d, values, hs, es, f)
  BY <1>5, <1>6 DEF Settled, n
<1>8. Lives(d, f.index, forks') \subseteq Lives(d, scopes.index, forks)
  <2>1. \A k \in 1 .. n : ChainIn(d, forks[k].index) \subseteq Lives(d, scopes.index, forks)
    BY DEF Lives, n
  <2> QED
    BY <1>4, <1>6, <2>1 DEF Lives
<1>9. \A k \in 1 .. n - 1 : Saved(code, notes, d, values, hs, es, forks'[k])
  BY <1>4, <1>5 DEF Settled, n
<1>10. Settled(code, notes, d, values, hs, es, f.index, forks')
  BY <1>4, <1>5, <1>8, <1>9 DEF Settled
<1>11. Steady(hs, es)'
  BY <1>2, <1>3, <1>10 DEF Steady, d
<1>12. f.pc \in DOMAIN code /\ f.expdepth \in Nat /\ IsSeq(f.stack)
  BY <1>7 DEF Saved
<1>13. CASE code[f.pc].op \in Raising
  BY <1>2, <1>11, <1>12, <1>13 DEF InOrder, Passing
<1>14. CASE code[f.pc].op \notin Raising
  <2>1. At(code, notes, d, hs, es, f.pc, f.index, f.stack, f.expdepth) /\ Params(code, notes, d, values, f.index)
        /\ code[f.pc].op \in Saves
    BY <1>7, <1>14 DEF Saved
  <2>2. f.index \in DOMAIN d /\ d[f.index].id = notes[f.pc].home /\ notes[f.pc] # Unreached
    BY <2>1 DEF At, Inside
  <2>3. notes[f.pc].set = ArgsOf(code, notes[f.pc].home)
    <3>1. Permitted(code, notes, f.pc)
      BY <1>12, <2>2, ProgramSound, Known
    <3> QED
      BY <2>1, <3>1 DEF Permitted, Saves
  <2>4. Blocks(code, d)
    BY DEF Frames, d
  <2>5. f.index \in ChainIn(d, f.index) /\ ChainIn(d, d[f.index].next) \subseteq ChainIn(d, f.index)
    BY <2>2, <2>4, ChainsNext
  <2>6. Standing(code, notes, d, values, hs, es, f.pc, f.index, f.stack, f.expdepth)
    BY <2>1, <2>2, <2>3, <2>5 DEF Standing, Params
  <2>7. Stands(hs, es)'
    BY <1>2, <1>3, <2>6 DEF Stands, d
  <2> QED
    BY <1>2, <1>11, <1>12, <2>7 DEF InOrder
<1> QED
  BY <1>13, <1>14

LEMMA OrderRaise ==
    ASSUME Flow, Frames, InOrder, NEW e, Raise(e)
    PROVE  InOrder'
<1>1. PICK hs, es : Steady(hs, es) /\ (Passing \/ Stands(hs, es) \/ Called(hs, es))
  BY DEF InOrder
<1>2. CASE Unwind(e)
  BY <1>1, <1>2, OrderUnwind
<1>3. CASE End(e)
  <2>1. UNCHANGED <<scopes, values, pc, stack, forks, expdepth, backtrack, call>> /\ code' = code /\ notes' = notes
    BY <1>3, SameNotes DEF End, frames
  <2>2. Steady(hs, es)' /\ (Passing \/ Stands(hs, es) \/ Called(hs, es))'
    BY <1>1, <2>1 DEF Steady, Passing, Stands, Called
  <2> QED
    BY <2>1, <2>2 DEF InOrder
<1> QED
  BY <1>2, <1>3 DEF Raise

LEMMA OrderDeliver ==
    ASSUME Flow, Frames, InOrder, NEW hs, NEW es, Steady(hs, es), NEW r, NEW s, Deliver(r, s),
           \A v : Standing(code, notes, scopes.data, values, hs, es, pc + 1, scopes.index, Append(s, v), expdepth)
    PROVE  InOrder'
BY OrderRaise, OrderStep DEF Deliver

\* The frame in which a variable is found is below that of the function, or is that.
LEMMA FoundFrame ==
    ASSUME Flow, Frames, NEW hs, NEW es, Steady(hs, es), Stands(hs, es), NEW id \in notes[pc].sees
    PROVE  /\ FrameOf(id) \in ChainIn(scopes.data, scopes.index)
           /\ FrameOf(id) \in DOMAIN scopes.data
           /\ ChainIn(scopes.data, FrameOf(id)) \subseteq ChainIn(scopes.data, scopes.index)
           /\ scopes.data[FrameOf(id)].id = id
           /\ id = notes[pc].home => FrameOf(id) = scopes.index
           /\ scopes.index \in DOMAIN scopes.data
<1> DEFINE d == scopes.data
           i == scopes.index
<1>1. Blocks(code, d) /\ Descending(d) /\ Descending(Outs(d))
  BY DEF Frames, Blocks, Steady
<1>2. Inside(code, notes, d, i, pc) /\ i \in DOMAIN d /\ d[i].id = notes[pc].home
  BY DEF Stands, Standing, At, Inside
<1>3. \A b \in ChainIn(d, i) : Frame(code, notes, d, hs, es, b)
  BY DEF Steady, Settled, Lives
<1>4. i \in ChainIn(d, i)
  BY <1>1, <1>2, ChainsNext
<1>5. Sound(code, notes)
  BY ProgramSound
<1> HIDE DEF d, i
<1>6. id \in Ids(d, i)
  BY <1>2, <1>3, <1>4, <1>5, SeesHere
<1> DEFINE f == FrameIn(d, id, i)
<1>7. f \in ChainIn(Outs(d), i) /\ d[f].id = id /\ (d[i].id = id => f = i)
  BY <1>1, <1>2, <1>6, FrameInFacts
<1>8. \A b \in ChainIn(d, i) : d[b].outer \in ChainIn(d, d[b].next) \cup {-1}
  BY <1>3 DEF Frame
<1>9. ChainIn(Outs(d), i) \subseteq ChainIn(d, i)
  BY <1>1, <1>2, <1>8, OutsWithin
<1> HIDE DEF f
<1>10. f \in ChainIn(d, i) /\ f \in DOMAIN d /\ ChainIn(d, f) \subseteq ChainIn(d, i)
  BY <1>1, <1>2, <1>7, <1>9, ChainWithin
<1>11. FrameOf(id) = f
  BY FrameOfIs DEF f, d, i
<1> QED
  BY <1>2, <1>7, <1>10, <1>11 DEF d, i

\* A parameter that is loaded may be called.
LEMMA LoadUsable ==
    ASSUME Flow, Frames, NEW hs, NEW es, Steady(hs, es), Stands(hs, es),
           code[pc].op = "load", Passed(code, Arg)
    PROVE  Usable(code, notes, scopes.data, scopes.index, values[Slot(Arg)])
<1> DEFINE d == scopes.data
           i == scopes.index
           f == FrameOf(Arg[1])
<1>1. pc \in DOMAIN code /\ notes[pc] # Unreached /\ Permitted(code, notes, pc)
  BY ProgramSound, StandsKnown DEF Stands
<1>2. Arg[1] \in notes[pc].sees /\ notes[pc].set = ArgsOf(code, notes[pc].home)
  BY <1>1 DEF Permitted, Variables, Arg
<1>3. /\ f \in ChainIn(d, i) /\ ChainIn(d, f) \subseteq ChainIn(d, i)
      /\ d[f].id = Arg[1] /\ i \in DOMAIN d
  BY <1>2, FoundFrame
<1>4. Arg[2] \in 1 .. ArgsOf(code, d[f].id)
  BY <1>3 DEF Passed
<1>5. Slot(Arg) = d[f].offset + Arg[2]
  BY DEF Slot
<1>6. /\ Params(code, notes, d, values, d[i].next) /\ Ready(code, notes, d, values, i, notes[pc].set)
      /\ d[i].id = notes[pc].home
  BY DEF Stands, Standing, At, Inside
<1>7. Blocks(code, d)
  BY DEF Frames
<1>8. ChainIn(d, i) = {i} \cup ChainIn(d, d[i].next)
  BY <1>3, <1>7, ChainsNext
<1> HIDE DEF d, i, f
<1>9. Ready(code, notes, d, values, f, ArgsOf(code, d[f].id))
  <2>1. CASE f = i
    BY <1>2, <1>6, <2>1
  <2>2. CASE f # i
    BY <1>3, <1>6, <1>8, <2>2 DEF Params
  <2> QED
    BY <2>1, <2>2
<1>10. Usable(code, notes, d, f, values[d[f].offset + Arg[2]])
  BY <1>4, <1>9 DEF Ready
<1> QED
  BY <1>3, <1>5, <1>10, UsableAbove DEF d, i

\* The instructions that move values.
LEMMA OrderValues ==
    ASSUME Flow, Frames, InOrder, Nop \/ Push \/ Pop \/ Dup \/ Replace \/ Load \/ PushClosure
    PROVE  InOrder'
<1>1. PICK hs, es : Steady(hs, es) /\ (Passing \/ Stands(hs, es) \/ Called(hs, es))
  BY DEF InOrder
<1> DEFINE n == notes[pc]
           d == scopes.data
           i == scopes.index
           Now1(j, s) == Standing(code, notes, d, values, hs, es, j, i, s, expdepth)
<1>2. code[pc].op \in {"nop", "push", "pop", "dup", "const", "load", "pushpc"}
  BY DEF Nop, Push, Pop, Dup, Replace, Load, PushClosure, Doing
<1>3. Stands(hs, es)
  BY <1>1, <1>2, StandsAt DEF Raising
<1>4. Now1(pc, stack) /\ Sound(code, notes)
  BY <1>3, ProgramSound DEF Stands
<1>5. Permitted(code, notes, pc) /\ Leads(code, notes, pc + 1, Following(code, pc, n)) /\ n.shape \in Seq(Tags)
  BY <1>2, <1>4, StandsKnown DEF Ends
<1>6. Takes(code, pc) \in 0 .. Len(n.shape)
  BY <1>5 DEF Permitted
<1>7. SUFFICES \E s : Step(s, pc + 1) /\ Now1(pc + 1, s)
  BY <1>1, OrderStep
<1> HIDE DEF n, d, i
<1>8. CASE Nop
  <2>1. Step(stack, pc + 1) /\ Following(code, pc, n) = n
    BY <1>8 DEF Nop, Doing, Following
  <2> QED
    BY <1>4, <1>5, <2>1, StandsStill DEF n
<1>9. CASE Push \/ Dup
  <2>1. Following(code, pc, n) = Pushed(n, "value")
    BY <1>9 DEF Push, Dup, Doing, Following
  <2>2. \A y : Now1(pc + 1, Append(stack, y))
    BY <1>4, <1>5, <2>1, StandsPush DEF n, Tags
  <2> QED
    BY <1>9, <2>2 DEF Push, Dup
<1>10. CASE Pop
  <2>1. Following(code, pc, n) = Popped(n, 1) /\ Takes(code, pc) = 1 /\ Step(Rest, pc + 1)
    BY <1>10 DEF Pop, Doing, Following, Takes
  <2>2. Now1(pc + 1, Rest)
    BY <1>4, <1>5, <1>6, <2>1, StandsPop DEF n, Rest
  <2> QED
    BY <2>1, <2>2
<1>11. CASE Replace
  <2>1. Following(code, pc, n) = Put1(n, 1) /\ Takes(code, pc) = 1 /\ Step(Append(Rest, Arg), pc + 1)
    BY <1>11 DEF Replace, Doing, Following, Takes
  <2>2. \A y : Now1(pc + 1, Append(Rest, y))
    BY <1>4, <1>5, <1>6, <2>1, StandsPut DEF n, Rest, Put1, Tags
  <2> QED
    BY <2>1, <2>2
<1>12. CASE Load
  <2> DEFINE tag == IF Passed(code, Arg) THEN "closure" ELSE "value"
             y == values[Slot(Arg)]
  <2>1. Following(code, pc, n) = Pushed(n, tag) /\ Step(Append(stack, y), pc + 1) /\ code[pc].op = "load"
    BY <1>12 DEF Load, Doing, Following, Arg
  <2>2. tag \in Tags /\ (tag = "closure" => Usable(code, notes, d, i, y))
    BY <1>1, <1>3, <2>1, LoadUsable DEF d, i, Tags
  <2> HIDE DEF tag, y
  <2>3. Now1(pc + 1, Append(stack, y))
    BY <1>4, <1>5, <2>1, <2>2, StandsPush DEF n
  <2> QED
    BY <2>1, <2>3
<1>13. CASE PushClosure
  <2> DEFINE y == <<"closure", Arg, i>>
  <2>1. /\ Following(code, pc, n) = Pushed(n, "closure") /\ Step(Append(stack, y), pc + 1)
        /\ code[pc].op = "pushpc"
    BY <1>13 DEF PushClosure, Doing, Following, i
  <2>2. Callable(code, notes, n, Arg) /\ code[Arg].v.argc = 0
    BY <1>5, <2>1 DEF Permitted, Arg, n
  <2>3. Inside(code, notes, d, i, pc) /\ i \in DOMAIN d
    BY <1>4 DEF Standing, At, Inside
  <2>4. Blocks(code, d)
    BY DEF Frames, d
  <2>5. i \in ChainIn(d, i)
    BY <2>3, <2>4, ChainsNext
  <2>6. Frame(code, notes, d, hs, es, i)
    BY <1>1, <2>5 DEF Steady, Settled, Lives, d, i
  <2>7. n.sees \subseteq Ids(d, i)
    BY <1>4, <2>3, <2>6, SeesHere DEF n
  <2>8. Usable(code, notes, d, i, y)
    BY <2>2, <2>5, <2>7 DEF Usable, MayRun, Callable
  <2> HIDE DEF y
  <2>9. Now1(pc + 1, Append(stack, y))
    BY <1>4, <1>5, <2>1, <2>8, StandsPush DEF n, Tags
  <2> QED
    BY <2>1, <2>9
<1> QED
  BY <1>8, <1>9, <1>10, <1>11, <1>12, <1>13

\* The instructions that compute, and those that may fail.
LEMMA OrderResults ==
    ASSUME Flow, Frames, InOrder, IndexAt \/ IndexArray \/ CallNative
    PROVE  InOrder'
<1>1. PICK hs, es : Steady(hs, es) /\ (Passing \/ Stands(hs, es) \/ Called(hs, es))
  BY DEF InOrder
<1> DEFINE n == notes[pc]
           d == scopes.data
           i == scopes.index
           k == Takes(code, pc)
           Now1(j, s) == Standing(code, notes, d, values, hs, es, j, i, s, expdepth)
<1>2. code[pc].op \in {"index", "indexarray", "native"}
  BY DEF IndexAt, IndexArray, CallNative, Doing
<1>3. Stands(hs, es)
  BY <1>1, <1>2, StandsAt DEF Raising
<1>4. Now1(pc, stack) /\ Sound(code, notes)
  BY <1>3, ProgramSound DEF Stands
<1>5. Permitted(code, notes, pc) /\ Leads(code, notes, pc + 1, Following(code, pc, n)) /\ n.shape \in Seq(Tags)
  BY <1>2, <1>4, StandsKnown DEF Ends
<1>6. k \in 0 .. Len(n.shape) /\ (code[pc].op = "native" => Arg[2] \in Nat)
  BY <1>5 DEF Permitted, Arg
<1>7. Following(code, pc, n) = Pushed(Popped(n, k), "value")
  BY <1>2 DEF Following, Put1
<1>8. Len(stack) \in Nat
  BY DEF InOrder, IsSeq
<1>9. \E r : Deliver(r, SubSeq(stack, 1, Len(stack) - k))
  <2>1. CASE IndexAt \/ IndexArray
    <3>1. k = 1
      BY <2>1 DEF IndexAt, IndexArray, Doing, Takes
    <3> QED
      BY <2>1, <3>1 DEF IndexAt, IndexArray, Rest
  <2>2. CASE CallNative
    <3>1. k = Arg[2] + 1 /\ Arg[2] \in Nat
      BY <1>6, <2>2 DEF CallNative, Doing, Takes, Arg
    <3> HIDE DEF k
    <3>2. Len(stack) - 1 - Arg[2] = Len(stack) - k
      BY <1>8, <3>1
    <3> QED
      BY <2>2, <3>2 DEF CallNative
  <2> QED
    BY <2>1, <2>2
<1> HIDE DEF k, n, d, i
<1>10. \A y : Now1(pc + 1, Append(SubSeq(stack, 1, Len(stack) - k), y))
  BY <1>4, <1>5, <1>6, <1>7, StandsPut DEF n, Tags
<1> QED
  BY <1>1, <1>9, <1>10, OrderDeliver DEF d, i

\* Expressions begin and end.
LEMMA OrderExpressions ==
    ASSUME Flow, Frames, InOrder, ExpBegin \/ ExpEnd
    PROVE  InOrder'
<1>1. PICK hs, es : Steady(hs, es) /\ (Passing \/ Stands(hs, es) \/ Called(hs, es))
  BY DEF InOrder
<1> DEFINE n == notes[pc]
           i == scopes.index
           d == scopes.data
<1>2. code[pc].op \in {"expbegin", "expend"}
  BY DEF ExpBegin, ExpEnd, Expression, Doing
<1>3. Stands(hs, es)
  BY <1>1, <1>2, StandsAt DEF Raising
<1>4. /\ Standing(code, notes, d, values, hs, es, pc, i, stack, expdepth)
      /\ Sound(code, notes)
  BY <1>3, ProgramSound DEF Stands
<1>5. /\ Leads(code, notes, pc + 1, Following(code, pc, n)) /\ n.depth \in Nat
      /\ Fits(code, notes, d, i, hs[i], n.shape, stack) /\ expdepth = es[i] + n.depth
  BY <1>2, <1>4, StandsKnown DEF Ends
<1>6. es[i] \in Nat
  BY <1>1, <1>4, BlocksAre DEF Steady, Frames, Standing, At, Inside
<1>7. /\ UNCHANGED <<prog, frames, forks>> /\ pc' = pc + 1 /\ stack' = stack
      /\ \/ ExpBegin /\ expdepth' = expdepth + 1 /\ Following(code, pc, n) = Deeper(n, 1)
         \/ ExpEnd /\ expdepth' = expdepth + -1 /\ Following(code, pc, n) = Deeper(n, -1)
  BY DEF ExpBegin, ExpEnd, Expression, Doing, Continue, control, Following
<1> HIDE DEF n, i, d
<1> DEFINE m == Following(code, pc, n)
<1>8. m.home = n.home /\ m.set = n.set /\ m.shape = n.shape /\ expdepth' = es[i] + m.depth
  <2>1. CASE ExpBegin /\ expdepth' = expdepth + 1 /\ m = Deeper(n, 1)
    <3>1. m.home = n.home /\ m.set = n.set /\ m.shape = n.shape /\ m.depth = n.depth + 1
      BY <2>1 DEF Deeper, Note
    <3> QED
      BY <1>5, <1>6, <2>1, <3>1
  <2>2. CASE ExpEnd /\ expdepth' = expdepth + -1 /\ m = Deeper(n, -1)
    <3>1. m.home = n.home /\ m.set = n.set /\ m.shape = n.shape /\ m.depth = n.depth + -1
      BY <2>2 DEF Deeper, Note
    <3> QED
      BY <1>5, <1>6, <2>2, <3>1
  <2> QED
    BY <1>7, <2>1, <2>2
<1> HIDE DEF m
<1>9. Standing(code, notes, d, values, hs, es, pc + 1, i, stack, expdepth')
  <2>1. Leads(code, notes, pc + 1, m)
    BY <1>5 DEF m
  <2> QED
    BY <1>4, <1>5, <1>8, <2>1, StandsOn DEF n
<1>10. Standing(code, notes, scopes.data, values, hs, es, pc', scopes.index, stack', expdepth')
  BY <1>7, <1>9 DEF d, i
<1> QED
  BY <1>1, <1>7, <1>10, OrderOn

\* Jumps, and forks that take their other branch.
LEMMA OrderBranches ==
    ASSUME Flow, Frames, InOrder, Jump \/ JumpIfNot \/ BackAtFork \/ BackAtTryBegin \/ BackAtAlternative
    PROVE  InOrder'
<1>1. PICK hs, es : Steady(hs, es) /\ (Passing \/ Stands(hs, es) \/ Called(hs, es))
  BY DEF InOrder
<1> DEFINE n == notes[pc]
           d == scopes.data
           i == scopes.index
           Now1(j, s) == Standing(code, notes, d, values, hs, es, j, i, s, expdepth)
<1>2. code[pc].op \in Branches
  BY DEF Jump, JumpIfNot, BackAtFork, BackAtTryBegin, BackAtAlternative, Doing, Branches
<1>3. Stands(hs, es)
  BY <1>1, <1>2, StandsAt DEF Raising, Branches
<1>4. Now1(pc, stack) /\ Sound(code, notes)
  BY <1>3, ProgramSound DEF Stands
<1>5. /\ Permitted(code, notes, pc) /\ Leads(code, notes, Arg, Branching(code, pc, n))
      /\ n.shape \in Seq(Tags) /\ Fits(code, notes, d, i, hs[i], n.shape, stack) /\ expdepth = es[i] + n.depth
      /\ code[pc].op \notin Ends => Leads(code, notes, pc + 1, Following(code, pc, n))
  BY <1>2, <1>4, StandsKnown DEF Arg
<1>6. Takes(code, pc) \in 0 .. Len(n.shape)
  BY <1>5 DEF Permitted
<1>7. SUFFICES \/ \E e : Raise(e)
               \/ \E s, j : (Step(s, j) \/ Resume(s, j)) /\ Now1(j, s)
  BY <1>1, OrderStep, OrderRaise
<1>20. code[pc].op # "jumpifnot" => Branching(code, pc, n) = n
  BY DEF Branching
<1> HIDE DEF n, d, i
<1>8. code[pc].op # "jumpifnot" => Now1(Arg, stack)
  BY <1>4, <1>5, <1>20, StandsStill DEF n
<1>9. CASE Jump
  BY <1>8, <1>9 DEF Jump, Doing
<1>10. CASE JumpIfNot
  <2>1. /\ Takes(code, pc) = 1 /\ code[pc].op \notin Ends
        /\ Following(code, pc, n) = Popped(n, 1) /\ Branching(code, pc, n) = Popped(n, 1)
    BY <1>10 DEF JumpIfNot, Doing, Takes, Ends, Following, Branching
  <2>2. Now1(pc + 1, Rest) /\ Now1(Arg, Rest)
    BY <1>4, <1>5, <1>6, <2>1, StandsPop DEF n, Rest
  <2>3. Step(Rest, pc + 1) \/ Step(Rest, Arg)
    BY <1>10 DEF JumpIfNot
  <2> QED
    BY <2>2, <2>3
<1>11. CASE BackAtFork \/ BackAtAlternative
  BY <1>8, <1>11 DEF BackAtFork, BackAtAlternative, Doing
<1>12. CASE BackAtTryBegin
  <2> DEFINE t == Append(Rest, Caught(err))
  <2>1. code[pc].op = "forktrybegin" /\ ((\E e : Raise(e)) \/ Resume(t, Arg))
    BY <1>12 DEF BackAtTryBegin, Doing
  <2>2. Takes(code, pc) = 1
    BY <2>1 DEF Takes
  <2>3. ClosuresAt(n.shape, {}) /\ Leads(code, notes, Arg, n)
    BY <1>5, <1>20, <2>1 DEF Permitted, Saves, n
  <2>4. IsSeq(t) /\ Len(t) = Len(stack)
    <3>1. PICK S : stack \in Seq(S)
      BY DEF InOrder, IsSeq
    <3>2. Len(stack) \in Nat \ {0}
      BY <1>5, <1>6, <2>2, <3>1 DEF Fits
    <3>3. Rest \in Seq(S) /\ Len(Rest) = Len(stack) - 1
      <4> DEFINE l == Len(stack) - 1
      <4>1. l \in 0 .. Len(stack)
        BY <3>2
      <4> HIDE DEF l
      <4>2. SubSeq(stack, 1, l) \in Seq(S) /\ Len(SubSeq(stack, 1, l)) = l
        BY <3>1, <4>1
      <4> QED
        BY <4>2 DEF Rest, l
    <3>4. t \in Seq(S \cup {Caught(err)}) /\ Len(t) = Len(Rest) + 1
      BY <3>3
    <3> HIDE DEF t
    <3> QED
      BY <3>2, <3>3, <3>4 DEF IsSeq
  <2> HIDE DEF t
  <2>5. Fits(code, notes, d, i, hs[i], n.shape, t)
    BY <1>5, <2>3, <2>4, FitsPlain
  <2>6. Now1(Arg, t)
    BY <1>4, <1>5, <2>3, <2>5, StandsOn DEF n
  <2> QED
    BY <2>1, <2>6
<1> QED
  BY <1>9, <1>10, <1>11, <1>12

\* Forks that only pass errors on.
LEMMA OrderErrors ==
    ASSUME Flow, Frames, InOrder, Backtrack \/ BackAtTryEnd \/ BackAtLabel \/ BackAtReturn
    PROVE  InOrder'
BY OrderRaise DEF Backtrack, BackAtTryEnd, BackAtLabel, BackAtReturn

-------------------------------------------------------------------------------
(* Calls.                                                                  *)

\* What is known where a function starts.
LEMMA Entered ==
    ASSUME NEW cs, NEW ns, Sound(cs, ns), NEW p, Starts(cs, ns, p)
    PROVE  /\ p \in DOMAIN cs /\ cs[p].v.argc \in Nat
           /\ ns[p].shape \in Seq(Tags) /\ Len(ns[p].shape) = cs[p].v.argc + 1
           /\ \A q \in 1 .. cs[p].v.argc + 1 : ns[p].shape[q] = "closure" => q \in 1 .. cs[p].v.argc
           /\ ns[p].home = cs[p].v.id /\ ns[p].depth = 0 /\ ns[p].set = 0
           /\ Leads(cs, ns, p + 1, ns[p])
<1>1. p \in DOMAIN cs /\ cs[p].op = "scope" /\ ns[p] # Unreached
  BY DEF Starts, IsScope
<1>2. cs[p].v.argc \in Nat
  BY ScopeIs DEF Starts
<1>3. ns[p] = Entry(cs, ns, p) /\ Leads(cs, ns, p + 1, Following(cs, p, ns[p])) /\ ns[p].shape \in Seq(Tags)
  <2>1. /\ Permitted(cs, ns, p) /\ ns[p].shape \in Seq(Tags)
        /\ cs[p].op \notin Ends => Leads(cs, ns, p + 1, Following(cs, p, ns[p]))
    BY <1>1, Known DEF Tags
  <2>2. ns[p] = Entry(cs, ns, p)
    BY <1>1, <2>1 DEF Permitted
  <2> QED
    BY <1>1, <2>1, <2>2 DEF Ends
<1>4. Following(cs, p, ns[p]) = ns[p]
  BY <1>1 DEF Following
<1> DEFINE m == cs[p].v.argc
           shape == [q \in 1 .. m + 1 |-> IF q <= m THEN "closure" ELSE "value"]
<1>5. ns[p].home = cs[p].v.id /\ ns[p].depth = 0 /\ ns[p].set = 0 /\ ns[p].shape = shape
  BY <1>3 DEF Entry, Note
<1> HIDE DEF m
<1>6. m \in Nat
  BY <1>2 DEF m
<1>7. Len(shape) = m + 1 /\ \A q \in 1 .. m + 1 : shape[q] = "closure" => q \in 1 .. m
  BY <1>6
<1> QED
  BY <1>1, <1>2, <1>3, <1>4, <1>5, <1>7 DEF m

\* A function that is called goes back to where it was called.
LEMMA CallsBack ==
    ASSUME NEW cs, NEW ns, Sound(cs, ns), NEW d, NEW vs, NEW hs, NEW es, NEW p, NEW i, NEW s, NEW x,
           Standing(cs, ns, d, vs, hs, es, p, i, s, x),
           NEW k \in 1 .. Len(ns[p].shape), Leads(cs, ns, p + 1, Put1(ns[p], k)),
           ns[p].set = ArgsOf(cs, ns[p].home),
           \A q \in 1 .. Len(ns[p].shape) - k : ns[p].shape[q] # "closure",
           NEW h, h = hs[i] + Len(ns[p].shape) - k
    PROVE  Back(cs, ns, d, hs, es, p, i, h, x)
<1> DEFINE n == ns[p]
           shape == SubSeq(n.shape, 1, Len(n.shape) - k)
           m == Put1(n, k)
<1>1. n.shape \in Seq(Tags) /\ Fits(cs, ns, d, i, hs[i], n.shape, s) /\ x = es[i] + n.depth
  BY StandsKnown
<1>2. m.home = n.home /\ m.set = n.set /\ m.depth = n.depth /\ m.shape = Append(shape, "value")
  BY DEF Put1, Pushed, Popped, Shaped, Note
<1>3. Inside(cs, ns, d, i, p)
  BY DEF Standing, At
<1> HIDE DEF m, n
<1>4. /\ shape \in Seq(Tags) /\ Len(shape) = Len(n.shape) - k
      /\ \A q \in 1 .. Len(n.shape) - k : shape[q] = n.shape[q]
  <2>1. k \in 0 .. Len(n.shape)
    BY DEF n
  <2> QED
    BY <1>1, <2>1, FitsPop
<1> HIDE DEF shape
<1>5. Len(m.shape) = Len(n.shape) - k + 1 /\ ClosuresAt(m.shape, {})
  <2>1. Len(n.shape) - k \in Nat
    BY <1>1 DEF n
  <2> DEFINE l == Len(n.shape) - k
  <2>4. l \in Nat /\ Len(shape) = l /\ \A q \in 1 .. l : shape[q] = n.shape[q] /\ n.shape[q] # "closure"
    BY <1>4, <2>1 DEF n
  <2> HIDE DEF l
  <2>2. Len(m.shape) = l + 1
    BY <1>2, <1>4, <2>4
  <2>3. ASSUME NEW q \in 1 .. Len(m.shape) PROVE m.shape[q] # "closure"
    <3>1. CASE q = Len(shape) + 1
      BY <1>2, <1>4, <3>1
    <3>2. CASE q # Len(shape) + 1
      <4>1. q \in 1 .. l
        BY <2>2, <2>4, <3>2
      <4>2. q \in 1 .. Len(shape) /\ shape \in Seq(Tags)
        BY <1>4, <2>4, <4>1
      <4>3. Append(shape, "value")[q] = shape[q]
        BY <4>2
      <4> QED
        BY <1>2, <2>4, <4>1, <4>3
    <3> QED
      BY <3>1, <3>2
  <2> QED
    BY <2>2, <2>3 DEF ClosuresAt, l
<1>6. hs[i] \in Nat /\ Len(n.shape) \in Nat /\ k \in Nat
  BY <1>1 DEF Fits
<1>7. h + 1 = hs[i] + Len(m.shape)
  <2>1. h = hs[i] + Len(n.shape) - k
    BY DEF n
  <2> QED
    BY <1>5, <1>6, <2>1
<1>8. p + 1 \in DOMAIN cs /\ cs[p + 1].op # "scope" /\ ns[p + 1] # Unreached /\ ns[p + 1] = m
  BY DEF Leads, m, n
<1>9. Inside(cs, ns, d, i, p + 1)
  BY <1>2, <1>3, <1>8 DEF Inside, n
<1>10. m.set = ArgsOf(cs, m.home)
  BY <1>2 DEF n
<1> QED
  BY <1>1, <1>2, <1>5, <1>7, <1>8, <1>9, <1>10 DEF Back

\* A step that calls a function is in order when the function can start there.
LEMMA OrderInto ==
    ASSUME Flow, Frames, InOrder, NEW hs, NEW es, Steady(hs, es), NEW j, NEW r, NEW o, Enter(j, r, o),
           Pending(code, notes, scopes.data, values, hs, es, j, scopes.index, stack', expdepth,
                   [pc |-> r, index |-> o])
    PROVE  InOrder'
<1>1. /\ code' = code /\ notes' = notes /\ scopes' = scopes /\ values' = values /\ forks' = forks
      /\ expdepth' = expdepth /\ pc' = j /\ call' = [pc |-> r, index |-> o]
  BY SameNotes DEF Enter, frames, control
<1>2. Steady(hs, es)' /\ Called(hs, es)'
  BY <1>1 DEF Steady, Called
<1>3. j \in DOMAIN code /\ IsSeq(stack')
  BY DEF Pending, MayRun, Starts, IsScope, Fits
<1> QED
  BY <1>1, <1>2, <1>3 DEF InOrder

\* The parameters of a function that has stored them all, and of those below it.
LEMMA ParamsHere ==
    ASSUME NEW cs, NEW ns, NEW d, Blocks(cs, d), NEW vs, NEW hs, NEW es, NEW p, NEW i, NEW s, NEW x,
           Standing(cs, ns, d, vs, hs, es, p, i, s, x), ns[p].set = ArgsOf(cs, ns[p].home)
    PROVE  Params(cs, ns, d, vs, i) /\ i \in ChainIn(d, i)
<1>1. i \in DOMAIN d /\ d[i].id = ns[p].home
  BY DEF Standing, At, Inside
<1>2. ChainIn(d, i) = {i} \cup ChainIn(d, d[i].next)
  BY <1>1, ChainsNext
<1> QED
  BY <1>1, <1>2 DEF Standing, Params

LEMMA OrderCalls ==
    ASSUME Flow, Frames, InOrder, CallFunction \/ CallAsLast \/ CallClosure
    PROVE  InOrder'
<1>1. PICK hs, es : Steady(hs, es) /\ (Passing \/ Stands(hs, es) \/ Called(hs, es))
  BY DEF InOrder
<1> DEFINE n == notes[pc]
           d == scopes.data
           i == scopes.index
           top == Len(n.shape)
           Pends(j, h, s, r, o) ==
               /\ MayRun(code, notes, d, j, o) /\ o \in ChainIn(d, i) \cup {-1}
               /\ Fits(code, notes, d, i, h, notes[j].shape, s)
               /\ \/ r # NoCaller /\ Back(code, notes, d, hs, es, r, i, h, expdepth)
                  \/ /\ r = NoCaller /\ o = i /\ i \in DOMAIN d
                     /\ d[i].id = code[j].v.id /\ code[j].v.argc = 0
                     /\ h = hs[i] /\ expdepth = es[i]
<1>2. code[pc].op \in {"call", "callrec", "callpc"}
  BY DEF CallFunction, CallAsLast, CallClosure, Doing
<1>3. Stands(hs, es)
  BY <1>1, <1>2, StandsAt DEF Raising
<1>4. Standing(code, notes, d, values, hs, es, pc, i, stack, expdepth) /\ Sound(code, notes)
  BY <1>3, ProgramSound DEF Stands
<1>5. /\ Permitted(code, notes, pc) /\ n.shape \in Seq(Tags) /\ n.depth \in Nat
      /\ code[pc].op \notin Ends => Leads(code, notes, pc + 1, Following(code, pc, n))
      /\ Fits(code, notes, d, i, hs[i], n.shape, stack) /\ expdepth = es[i] + n.depth
  BY <1>4, StandsKnown
<1>6. Inside(code, notes, d, i, pc) /\ i \in DOMAIN d /\ d[i].id = n.home /\ pc \in DOMAIN code
  BY <1>4 DEF Standing, At, Inside
<1>7. Blocks(code, d)
  BY DEF Frames
<1>8. n.set = ArgsOf(code, n.home)
  BY <1>2, <1>5 DEF Permitted
<1>9. Params(code, notes, d, values, i) /\ i \in ChainIn(d, i)
  BY <1>4, <1>7, <1>8, ParamsHere
<1>10. n.sees \subseteq Ids(d, i)
  <2>1. Frame(code, notes, d, hs, es, i)
    BY <1>1, <1>9 DEF Steady, Settled, Lives
  <2> QED
    BY <1>4, <1>6, <2>1, SeesHere
<1>11. pc # NoCaller
  BY <1>6, ProgramsAssumption DEF Flow, code, NoCaller
<1>12. /\ top \in Nat /\ hs[i] \in Nat /\ Len(stack) = hs[i] + top /\ es[i] \in Nat
       /\ \A q \in 1 .. top : n.shape[q] = "closure" => Usable(code, notes, d, i, stack[hs[i] + q])
  <2>1. i \in Int
    BY <1>6, <1>7, BlocksAre
  <2>2. hs[i] \in Nat /\ es[i] \in Nat
    BY <1>1, <2>1 DEF Steady
  <2>3. top \in Nat
    BY <1>5
  <2>4. /\ Len(stack) = hs[i] + Len(n.shape)
        /\ \A q \in 1 .. Len(n.shape) : n.shape[q] = "closure" => Usable(code, notes, d, i, stack[hs[i] + q])
    <3> HIDE DEF n, d, i
    <3> QED
      BY <1>5 DEF Fits
  <2> QED
    BY <2>2, <2>3, <2>4
<1>13. SUFFICES \E j, h, r, o : Enter(j, r, o) /\ Pends(j, h, stack', r, o)
  <2>1. PICK j, h, r, o : Enter(j, r, o) /\ Pends(j, h, stack', r, o)
    BY <1>13
  <2> DEFINE c == [pc |-> r, index |-> o]
  <2>2. c.pc = r /\ c.index = o
    OBVIOUS
  <2> HIDE DEF c
  <2>3. h \in Nat
    BY <2>1 DEF Fits
  <2>4. Pending(code, notes, d, values, hs, es, j, i, stack', expdepth, c)
    BY <1>9, <2>1, <2>2, <2>3 DEF Pending
  <2> QED
    BY <1>1, <2>1, <2>4, OrderInto DEF c
<1> HIDE DEF n, d, i, top
<1>14. CASE CallFunction
  <2> DEFINE a == code[Arg].v.argc
             k == a + 1
             h == hs[i] + top - k
  <2>1. code[pc].op = "call" /\ Enter(Arg, pc, i) /\ stack' = stack
    BY <1>14 DEF CallFunction, Doing, i
  <2>2. /\ Takes(code, pc) = k /\ Following(code, pc, n) = Put1(n, k)
        /\ code[pc].op \notin Ends
    BY <2>1 DEF Takes, Following, Ends, Arg
  <2>3. /\ k \in 0 .. top /\ Callable(code, notes, n, Arg) /\ ClosuresAt(n.shape, top - a .. top - 1)
    BY <1>5, <2>1, <2>2 DEF Permitted, n, top, Arg
  <2>4. Starts(code, notes, Arg) /\ MayRun(code, notes, d, Arg, i)
    BY <1>10, <2>3 DEF Callable, MayRun
  <2>5. /\ a \in Nat /\ Len(notes[Arg].shape) = a + 1
        /\ \A q \in 1 .. a + 1 : notes[Arg].shape[q] = "closure" => q \in 1 .. a
    BY <1>4, <2>4, Entered
  <2> HIDE DEF a
  <2>6. k \in 1 .. top /\ h \in Nat /\ Len(stack) = h + (a + 1)
    BY <1>12, <2>3, <2>5
  <2>7. Fits(code, notes, d, i, h, notes[Arg].shape, stack)
    <3>1. ASSUME NEW q \in 1 .. a + 1, notes[Arg].shape[q] = "closure"
          PROVE  Usable(code, notes, d, i, stack[h + q])
      <4>1. q \in 1 .. a
        BY <2>5, <3>1
      <4> DEFINE z == top - k + q
      <4>2. z \in 1 .. top /\ z \in top - a .. top - 1 /\ h + q = hs[i] + z
        <5>1. /\ a \in Nat /\ q \in Nat /\ 1 <= q /\ q <= a /\ top \in Nat /\ hs[i] \in Nat
              /\ a + 1 \in 1 .. top
          BY <1>12, <2>5, <2>6, <4>1
        <5>2. z = top - (a + 1) + q /\ h + q = hs[i] + top - (a + 1) + q
          OBVIOUS
        <5> HIDE DEF z, h, k
        <5> QED
          BY <5>1, <5>2
      <4> HIDE DEF z, h
      <4>3. n.shape[z] = "closure"
        BY <2>3, <4>2 DEF ClosuresAt, top
      <4> QED
        BY <1>12, <4>2, <4>3
    <3> HIDE DEF h
    <3>2. IsSeq(stack)
      BY DEF InOrder
    <3> QED
      BY <2>5, <2>6, <3>1, <3>2 DEF Fits
  <2>8. \A q \in 1 .. top - k : n.shape[q] # "closure"
    <3>1. \A q \in 1 .. top - k : q \in 1 .. top /\ q \notin top - a .. top - 1
      BY <1>12, <2>5, <2>6
    <3> QED
      BY <2>3, <3>1 DEF ClosuresAt, top
  <2> HIDE DEF k
  <2>9. Leads(code, notes, pc + 1, Put1(n, k))
    BY <1>5, <2>2
  <2> HIDE DEF h
  <2>10. h = hs[i] + Len(notes[pc].shape) - k
    BY DEF h, top, n
  <2>11. Back(code, notes, d, hs, es, pc, i, h, expdepth)
    BY <1>4, <1>8, <2>6, <2>8, <2>9, <2>10, CallsBack DEF n, top
  <2> QED
    BY <1>9, <1>11, <2>1, <2>4, <2>7, <2>11
<1>15. CASE CallClosure
  <2> DEFINE h == hs[i] + top - 2
  <2>1. code[pc].op = "callpc" /\ Enter(Top[2], pc, Top[3]) /\ stack' = Rest
    BY <1>15 DEF CallClosure, Doing
  <2>2. Takes(code, pc) = 2 /\ Following(code, pc, n) = Put1(n, 2) /\ code[pc].op \notin Ends
    BY <2>1 DEF Takes, Following, Ends
  <2>3. 2 \in 1 .. top /\ ClosuresAt(n.shape, {top})
    BY <1>5, <1>12, <2>1, <2>2 DEF Permitted, n, top
  <2>4. Usable(code, notes, d, i, Top)
    <3>1. n.shape[top] = "closure" /\ top \in 1 .. top
      BY <1>12, <2>3 DEF ClosuresAt, top
    <3> QED
      BY <1>12, <3>1 DEF Top
  <2>5. PICK j, o : /\ Top = <<"closure", j, o>>
                    /\ MayRun(code, notes, d, j, o) /\ code[j].v.argc = 0
                    /\ o \in ChainIn(d, i) \cup {-1}
    BY <2>4 DEF Usable
  <2>6. Len(notes[j].shape) = 1 /\ notes[j].shape[1] # "closure"
    <3> DEFINE a == code[j].v.argc
    <3>0. Starts(code, notes, j)
      BY <2>5 DEF MayRun
    <3>1. /\ Len(notes[j].shape) = a + 1
          /\ \A q \in 1 .. a + 1 : notes[j].shape[q] = "closure" => q \in 1 .. a
      BY <1>4, <3>0, Entered
    <3>2. a = 0
      BY <2>5
    <3> HIDE DEF a
    <3> QED
      BY <3>1, <3>2
  <2>7. IsSeq(Rest) /\ Len(Rest) = Len(stack) - 1
    <3>1. PICK S : stack \in Seq(S)
      BY DEF InOrder, IsSeq
    <3> DEFINE l == Len(stack) - 1
    <3>2. l \in 0 .. Len(stack)
      BY <1>12, <2>3
    <3> HIDE DEF l
    <3>3. SubSeq(stack, 1, l) \in Seq(S) /\ Len(SubSeq(stack, 1, l)) = l
      BY <3>1, <3>2
    <3> QED
      BY <3>3 DEF Rest, l, IsSeq
  <2>8. h \in Nat /\ Len(Rest) = h + 1
    BY <1>12, <2>3, <2>7
  <2> HIDE DEF h
  <2>9. Fits(code, notes, d, i, h, notes[j].shape, Rest)
    BY <2>6, <2>7, <2>8 DEF Fits
  <2>10. \A q \in 1 .. top - 2 : n.shape[q] # "closure"
    <3>1. \A q \in 1 .. top - 2 : q \in 1 .. top /\ q # top
      BY <1>12
    <3> QED
      BY <2>3, <3>1 DEF ClosuresAt, top
  <2>11. Leads(code, notes, pc + 1, Put1(n, 2))
    BY <1>5, <2>2
  <2>12. h = hs[i] + Len(notes[pc].shape) - 2
    BY DEF h, top, n
  <2>13. Back(code, notes, d, hs, es, pc, i, h, expdepth)
    BY <1>4, <1>8, <2>3, <2>10, <2>11, <2>12, CallsBack DEF n, top
  <2> QED
    BY <1>11, <2>1, <2>5, <2>9, <2>13
<1>16. CASE CallAsLast
  <2>1. code[pc].op = "callrec" /\ Enter(Arg, NoCaller, i) /\ stack' = stack
    BY <1>16 DEF CallAsLast, Doing, i
  <2>2. /\ Callable(code, notes, n, Arg) /\ code[Arg].v.argc = 0 /\ code[Arg].v.id = n.home
        /\ n.shape = <<"value">> /\ n.depth = 0
    BY <1>5, <2>1 DEF Permitted, n, Arg
  <2>3. Starts(code, notes, Arg) /\ MayRun(code, notes, d, Arg, i)
    BY <1>10, <2>2 DEF Callable, MayRun
  <2>4. Len(notes[Arg].shape) = 1 /\ notes[Arg].shape[1] # "closure"
    <3> DEFINE a == code[Arg].v.argc
    <3>1. /\ Len(notes[Arg].shape) = a + 1
          /\ \A q \in 1 .. a + 1 : notes[Arg].shape[q] = "closure" => q \in 1 .. a
      BY <1>4, <2>3, Entered
    <3>2. a = 0
      BY <2>2
    <3> HIDE DEF a
    <3> QED
      BY <3>1, <3>2
  <2>5. IsSeq(stack) /\ Len(stack) = hs[i] + 1 /\ expdepth = es[i]
    BY <1>5, <1>12, <2>2 DEF InOrder, top
  <2>6. Fits(code, notes, d, i, hs[i], notes[Arg].shape, stack)
    BY <1>12, <2>4, <2>5 DEF Fits
  <2> QED
    BY <1>6, <1>9, <2>1, <2>2, <2>3, <2>5, <2>6
<1> QED
  BY <1>14, <1>15, <1>16

-------------------------------------------------------------------------------
(* Variables that are written, and forks that are saved.                   *)

\* The parameters that are ready in the blocks L with the variables vs still are with ws.
Keeps(cs, ns, d, vs, ws, L) ==
    \A b \in L : \A n \in 0 .. ArgsOf(cs, d[b].id) : Ready(cs, ns, d, vs, b, n) => Ready(cs, ns, d, ws, b, n)

\* The scope of a frame has its variables.
LEMMA FrameHas ==
    ASSUME NEW cs, NEW ns, Sound(cs, ns), NEW d, NEW hs, NEW es, NEW b, Frame(cs, ns, d, hs, es, b)
    PROVE  /\ ArgsOf(cs, d[b].id) \in Nat /\ VarsOf(cs, d[b].id) \in Nat
           /\ ArgsOf(cs, d[b].id) = 0 \/ ArgsOf(cs, d[b].id) < VarsOf(cs, d[b].id)
<1>1. PICK p : Starts(cs, ns, p) /\ cs[p].v.id = d[b].id
  BY DEF Frame
<1>2. IsScope(cs, p)
  BY <1>1 DEF Starts
<1> QED
  BY <1>1, <1>2, ScopeIs

LEMMA ParamsKept ==
    ASSUME NEW cs, NEW ns, Sound(cs, ns), NEW d, NEW vs, NEW ws, NEW hs, NEW es, NEW L, NEW i,
           \A b \in L : Frame(cs, ns, d, hs, es, b),
           Keeps(cs, ns, d, vs, ws, L), ChainIn(d, i) \subseteq L, Params(cs, ns, d, vs, i)
    PROVE  Params(cs, ns, d, ws, i)
<1> SUFFICES ASSUME NEW b \in ChainIn(d, i) PROVE Ready(cs, ns, d, ws, b, ArgsOf(cs, d[b].id))
  BY DEF Params
<1>1. ArgsOf(cs, d[b].id) \in 0 .. ArgsOf(cs, d[b].id)
  BY FrameHas
<1> QED
  BY <1>1 DEF Keeps, Params

LEMMA SettledKept ==
    ASSUME NEW cs, NEW ns, Sound(cs, ns), NEW d, NEW vs, NEW ws, NEW hs, NEW es, NEW i, NEW fs,
           Settled(cs, ns, d, vs, hs, es, i, fs), Keeps(cs, ns, d, vs, ws, Lives(d, i, fs))
    PROVE  Settled(cs, ns, d, ws, hs, es, i, fs)
<1>1. \A b \in Lives(d, i, fs) : Frame(cs, ns, d, hs, es, b)
  BY DEF Settled
<1>2. ASSUME NEW k \in 1 .. Len(fs)
      PROVE  Saved(cs, ns, d, ws, hs, es, fs[k])
  <2>1. Saved(cs, ns, d, vs, hs, es, fs[k])
    BY DEF Settled
  <2>2. ChainIn(d, fs[k].index) \subseteq Lives(d, i, fs)
    BY DEF Lives
  <2>3. Params(cs, ns, d, ws, fs[k].index)
    BY <1>1, <2>1, <2>2, ParamsKept DEF Saved
  <2> QED
    BY <2>1, <2>3 DEF Saved
<1> QED
  BY <1>1, <1>2 DEF Settled

\* One more fork, in the block that is run in.
LEMMA SettledMore ==
    ASSUME NEW cs, NEW ns, NEW d, NEW vs, NEW hs, NEW es, NEW i, NEW fs, NEW S, fs \in Seq(S),
           Settled(cs, ns, d, vs, hs, es, i, fs), NEW f, f.index = i, Saved(cs, ns, d, vs, hs, es, f)
    PROVE  Settled(cs, ns, d, vs, hs, es, i, Append(fs, f))
<1> DEFINE n == Len(fs)
           gs == Append(fs, f)
<1>1. n \in Nat /\ Len(gs) = n + 1 /\ gs[n + 1] = f /\ \A k \in 1 .. n : gs[k] = fs[k]
  BY AppendProperties
<1> HIDE DEF n, gs
<1>2. \A k \in 1 .. n + 1 : k \in 1 .. n \/ k = n + 1
  BY <1>1
<1>3. Lives(d, i, gs) \subseteq Lives(d, i, fs)
  BY <1>1, <1>2 DEF Lives, n
<1>4. \A k \in 1 .. n + 1 : Saved(cs, ns, d, vs, hs, es, gs[k])
  BY <1>1, <1>2 DEF Settled, n
<1>5. Settled(cs, ns, d, vs, hs, es, i, gs)
  BY <1>1, <1>3, <1>4 DEF Settled
<1> QED
  BY <1>5 DEF gs

\* A step that writes a variable, or saves a fork, is in order when the place it goes to is.
LEMMA OrderSaved ==
    ASSUME Flow, Frames, NEW hs, NEW es, Steady(hs, es), prog' = prog,
           scopes'.data = scopes.data, scopes'.index = scopes.index,
           Keeps(code, notes, scopes.data, values, values', Lives(scopes.data, scopes.index, forks)),
           \/ forks' = forks
           \/ \E f : /\ forks' = Append(forks, f) /\ f.index = scopes.index
                     /\ Saved(code, notes, scopes.data, values', hs, es, f),
           Standing(code, notes, scopes.data, values', hs, es, pc', scopes.index, stack', expdepth')
    PROVE  InOrder'
<1> DEFINE d == scopes.data
           i == scopes.index
<1>1. code' = code /\ notes' = notes /\ Sound(code, notes)
  BY SameNotes, ProgramSound
<1>2. PICK S : forks \in Seq(S)
  BY DEF Frames
<1>3. Settled(code, notes, d, values, hs, es, i, forks)
  BY DEF Steady
<1> HIDE DEF d, i
<1>4. Settled(code, notes, d, values', hs, es, i, forks)
  BY <1>1, <1>3, SettledKept DEF d, i
<1>5. Settled(code, notes, d, values', hs, es, i, forks')
  BY <1>2, <1>4, SettledMore DEF d, i
<1>6. Steady(hs, es)'
  BY <1>1, <1>5 DEF Steady, d, i
<1>7. Stands(hs, es)'
  BY <1>1 DEF Stands
<1>8. (pc \in DOMAIN code /\ IsSeq(stack))'
  BY <1>1 DEF Standing, At, Inside, Fits
<1>9. expdepth' \in Nat
  <2>1. pc' \in DOMAIN code /\ notes[pc'] # Unreached /\ expdepth' = es[i] + notes[pc'].depth /\ i \in DOMAIN d
    BY DEF Standing, At, Inside, i, d
  <2>2. notes[pc'].depth \in Nat
    BY <1>1, <2>1, Known
  <2>3. i \in Int
    BY <2>1, BlocksAre DEF Frames, d
  <2>4. es[i] \in Nat
    BY <2>3 DEF Steady
  <2> QED
    BY <2>1, <2>2, <2>4
<1> QED
  BY <1>6, <1>7, <1>8, <1>9 DEF InOrder

\* The fork that is pushed is one to go on from.
LEMMA ForkSaved ==
    ASSUME Flow, Frames, NEW hs, NEW es, Steady(hs, es), Stands(hs, es), expdepth \in Nat,
           code[pc].op \in Saves, NEW s, PushFork(s), IsSeq(s),
           code[pc].op \notin Raising => Len(s) = Len(stack),
           NEW vs, Params(code, notes, scopes.data, vs, scopes.index)
    PROVE  /\ scopes'.data = scopes.data /\ scopes'.index = scopes.index
           /\ \E f : /\ forks' = Append(forks, f) /\ f.index = scopes.index
                     /\ Saved(code, notes, scopes.data, vs, hs, es, f)
<1> DEFINE f == [pc |-> pc, offset |-> offset, expdepth |-> expdepth, stack |-> s,
                 index |-> scopes.index, limit |-> scopes.limit]
           d == scopes.data
           i == scopes.index
<1>1. /\ forks' = Append(forks, f) /\ f.pc = pc /\ f.expdepth = expdepth /\ f.stack = s /\ f.index = i
      /\ scopes' = [scopes EXCEPT !.limit = Larger(scopes.index, scopes.limit)]
  BY DEF PushFork
<1> HIDE DEF f
<1>2. scopes'.data = scopes.data /\ scopes'.index = scopes.index
  BY <1>1, Parts
<1>3. At(code, notes, d, hs, es, pc, i, stack, expdepth)
  BY DEF Stands, Standing
<1>4. Permitted(code, notes, pc) /\ pc \in DOMAIN code
  BY ProgramSound, StandsKnown DEF Stands
<1>5. ClosuresAt(notes[pc].shape, {})
  BY <1>4 DEF Permitted
<1>6. code[pc].op \notin Raising => Fits(code, notes, d, i, hs[i], notes[pc].shape, s)
  BY <1>3, <1>5, FitsPlain DEF At
<1>7. code[pc].op \notin Raising => At(code, notes, d, hs, es, pc, i, s, expdepth)
  BY <1>3, <1>6 DEF At
<1>8. Saved(code, notes, d, vs, hs, es, f)
  BY <1>1, <1>4, <1>7 DEF Saved
<1> QED
  BY <1>1, <1>2, <1>8

\* What stays as it is keeps what is ready.
LEMMA KeepsAll ==
    ASSUME NEW cs, NEW ns, NEW d, NEW vs, NEW L
    PROVE  Keeps(cs, ns, d, vs, vs, L)
BY DEF Keeps

LEMMA OrderForks ==
    ASSUME Flow, Frames, InOrder, PlaceFork \/ Each
    PROVE  InOrder'
<1>1. PICK hs, es : Steady(hs, es) /\ (Passing \/ Stands(hs, es) \/ Called(hs, es))
  BY DEF InOrder
<1> DEFINE n == notes[pc]
           d == scopes.data
           i == scopes.index
           Now1(j, s) == Standing(code, notes, d, values, hs, es, j, i, s, expdepth)
<1>2. /\ code[pc].op \in {"fork", "forktrybegin", "forktryend", "forkalt", "iter"}
      /\ code[pc].op # "iter" => ~backtrack
  BY DEF PlaceFork, Each, Doing
<1>3. Stands(hs, es)
  BY <1>1, <1>2, StandsAt DEF Raising
<1>4. Now1(pc, stack) /\ Sound(code, notes) /\ Blocks(code, d)
  BY <1>3, ProgramSound DEF Stands, Frames
<1>5. Permitted(code, notes, pc) /\ Leads(code, notes, pc + 1, Following(code, pc, n)) /\ n.shape \in Seq(Tags)
  BY <1>2, <1>4, StandsKnown DEF Ends
<1>6. Takes(code, pc) \in 0 .. Len(n.shape) /\ n.set = ArgsOf(code, n.home)
  BY <1>2, <1>5 DEF Permitted
<1>7. Params(code, notes, d, values, i)
  BY <1>4, <1>6, ParamsHere
<1>8. Keeps(code, notes, d, values, values, Lives(d, i, forks))
  BY KeepsAll
<1>9. expdepth \in Nat /\ IsSeq(stack)
  BY DEF InOrder
<1>10. CASE PlaceFork
  <2>1. /\ code[pc].op \in {"fork", "forktrybegin", "forktryend", "forkalt"}
        /\ PushFork(stack) /\ Continue(stack, pc + 1) /\ values' = values /\ expdepth' = expdepth
    BY <1>10 DEF PlaceFork, Doing
  <2>2. stack' = stack /\ pc' = pc + 1 /\ prog' = prog
    BY <2>1 DEF Continue, control
  <2>3. Following(code, pc, n) = n
    BY <2>1 DEF Following
  <2>4. Now1(pc + 1, stack)
    BY <1>4, <1>5, <2>3, StandsStill
  <2>5. /\ scopes'.data = scopes.data /\ scopes'.index = scopes.index
        /\ \E f : /\ forks' = Append(forks, f) /\ f.index = scopes.index
                  /\ Saved(code, notes, scopes.data, values, hs, es, f)
    BY <1>1, <1>3, <1>7, <1>9, <2>1, ForkSaved DEF Saves
  <2> QED
    BY <1>1, <1>8, <2>1, <2>2, <2>4, <2>5, OrderSaved
<1>11. CASE Each
  <2>1. code[pc].op = "iter" /\ Following(code, pc, n) = Put1(n, 1) /\ Takes(code, pc) = 1
    BY <1>11 DEF Each, Doing, Following, Takes
  <2>2. (\E e : Raise(e)) \/ \E xs : Iterate(xs)
    BY <1>11 DEF Each
  <2>3. \A y : Now1(pc + 1, Append(Rest, y))
    BY <1>4, <1>5, <1>6, <2>1, StandsPut DEF Rest, Put1, Tags
  <2>4. ASSUME NEW xs, Iterate(xs)
        PROVE  InOrder'
    <3>1. /\ stack' = Append(Rest, Head(xs)) /\ pc' = pc + 1 /\ prog' = prog
          /\ values' = values /\ expdepth' = expdepth
      BY <2>4 DEF Iterate, Continue, control
    <3>2. CASE forks' = forks /\ scopes' = scopes
      BY <1>1, <1>8, <2>3, <3>1, <3>2, OrderSaved
    <3>3. CASE PushFork(Append(Rest, <<"items", Tail(xs)>>))
      <4> DEFINE s == Append(Rest, <<"items", Tail(xs)>>)
                 l == Len(stack) - 1
      <4>1. Len(n.shape) \in Nat /\ Len(stack) = hs[i] + Len(n.shape) /\ hs[i] \in Nat
        BY <1>4, <1>5, StandsKnown DEF Fits
      <4>2. l \in 0 .. Len(stack) /\ Len(stack) = l + 1 /\ l \in Nat
        BY <1>6, <2>1, <4>1
      <4> HIDE DEF l
      <4>3. PICK S : stack \in Seq(S)
        BY <1>9 DEF IsSeq
      <4>4. Rest \in Seq(S) /\ Len(Rest) = l
        <5>1. SubSeq(stack, 1, l) \in Seq(S) /\ Len(SubSeq(stack, 1, l)) = l
          BY <4>2, <4>3
        <5> QED
          BY <5>1 DEF Rest, l
      <4> DEFINE y == <<"items", Tail(xs)>>
                 T == S \cup {y}
      <4> HIDE DEF y
      <4>5. Rest \in Seq(T) /\ y \in T
        BY <4>4, SeqMonotonic
      <4> HIDE DEF T
      <4>6. Append(Rest, y) \in Seq(T) /\ Len(Append(Rest, y)) = Len(Rest) + 1
        BY <4>5
      <4>7. IsSeq(s) /\ Len(s) = Len(stack)
        BY <4>2, <4>4, <4>6 DEF IsSeq, y
      <4> HIDE DEF s
      <4>8. PushFork(s)
        BY <3>3 DEF s
      <4>9. /\ scopes'.data = scopes.data /\ scopes'.index = scopes.index
            /\ \E f : /\ forks' = Append(forks, f) /\ f.index = scopes.index
                      /\ Saved(code, notes, scopes.data, values, hs, es, f)
        BY <1>1, <1>3, <1>7, <1>9, <2>1, <4>7, <4>8, ForkSaved DEF Saves
      <4> QED
        BY <1>1, <1>8, <2>3, <3>1, <4>9, OrderSaved
    <3> QED
      BY <2>4, <3>2, <3>3 DEF Iterate
  <2> QED
    BY <2>2, <2>4, OrderRaise
<1> QED
  BY <1>10, <1>11

\* The variables of a block that may be run in are below what is free, and exist.
LEMMA LiveUnder ==
    ASSUME Frames, NEW b \in Lives(scopes.data, scopes.index, forks)
    PROVE  /\ b \in DOMAIN scopes.data /\ scopes.data[b].offset \in Nat /\ b \in Nat
           /\ VarsOf(code, scopes.data[b].id) \in Nat
           /\ \A z \in scopes.data[b].offset .. Past(code, scopes.data, b) - 1 : z \in DOMAIN values
<1> DEFINE d == scopes.data
<1>1. Blocks(code, d) /\ Mark(code, d, forks, DOMAIN values, Now, Len(forks))
  BY DEF Frames
<1>2. Now.index = scopes.index /\ Now.offset = offset
  BY DEF Now
<1>3. PICK i : i \in DOMAIN d \cup {-1} /\ b \in ChainIn(d, i) /\ Under(code, d, i, offset)
  <2>1. CASE b \in ChainIn(d, scopes.index)
    BY <1>1, <1>2, <2>1 DEF Mark
  <2>2. CASE \E k \in 1 .. Len(forks) : b \in ChainIn(d, forks[k].index)
    <3>1. PICK k \in 1 .. Len(forks) : b \in ChainIn(d, forks[k].index)
      BY <2>2
    <3>2. Mark(code, d, forks, DOMAIN values, forks[k], k - 1)
      BY <3>1 DEF Frames
    <3> QED
      BY <1>1, <1>2, <3>1, <3>2 DEF Mark
  <2> QED
    BY <2>1, <2>2 DEF Lives
<1> HIDE DEF d
<1>4. b \in DOMAIN d /\ Past(code, d, b) <= offset
  BY <1>1, <1>3, ChainsWithin DEF Under
<1>5. d[b].offset \in Nat /\ VarsOf(code, d[b].id) \in Nat /\ b \in Nat
  BY <1>1, <1>4, BlocksAre DEF Blocks
<1>6. offset \in Nat /\ \A n \in 1 .. offset : n - 1 \in DOMAIN values
  BY <1>1, <1>2 DEF Mark
<1> DEFINE x == Past(code, d, b)
<1>7. x \in Nat /\ x <= offset
  BY <1>4, <1>5 DEF Past
<1> HIDE DEF x
<1>8. ASSUME NEW z \in d[b].offset .. x - 1
      PROVE  z \in DOMAIN values
  <2>1. z + 1 \in 1 .. offset /\ (z + 1) - 1 = z
    BY <1>5, <1>6, <1>7
  <2> QED
    BY <1>6, <2>1
<1> QED
  BY <1>4, <1>5, <1>8 DEF d, x

\* A variable that is written is a parameter only if it is the next one of the function that
\* is run; nothing else that is ready changes.
LEMMA Written ==
    ASSUME Flow, Frames, NEW hs, NEW es, Steady(hs, es), Stands(hs, es),
           code[pc].op \in Variables \ {"load"}, NEW x, values' = [values EXCEPT ![Slot(Arg)] = x],
           Passed(code, Arg) => Usable(code, notes, scopes.data, scopes.index, x)
    PROVE  /\ Keeps(code, notes, scopes.data, values, values', Lives(scopes.data, scopes.index, forks))
           /\ Passed(code, Arg) => Ready(code, notes, scopes.data, values', scopes.index, Arg[2])
<1> DEFINE d == scopes.data
           i == scopes.index
           f == FrameOf(Arg[1])
           L == Lives(d, i, forks)
           z0 == Slot(Arg)
<1>1. Permitted(code, notes, pc) /\ Sound(code, notes) /\ code[pc].v = Arg
  BY ProgramSound, StandsKnown DEF Stands, Arg
<1>2. /\ Arg[1] \in notes[pc].sees /\ Arg[2] \in 0 .. VarsOf(code, Arg[1]) - 1
      /\ Passed(code, Arg) => Arg[1] = notes[pc].home /\ Arg[2] = notes[pc].set + 1
  BY <1>1 DEF Permitted, Variables
<1>3. /\ f \in ChainIn(d, i) /\ d[f].id = Arg[1] /\ i \in DOMAIN d
      /\ (Arg[1] = notes[pc].home => f = i)
  BY <1>2, FoundFrame
<1>4. z0 = d[f].offset + Arg[2]
  BY DEF Slot
<1>5. f \in L /\ Beside(code, d, L)
  BY <1>3 DEF Frames, Lives
<1>6. \A b \in L : /\ b \in DOMAIN d /\ d[b].offset \in Nat /\ VarsOf(code, d[b].id) \in Nat
                   /\ \A z \in d[b].offset .. Past(code, d, b) - 1 : z \in DOMAIN values
  BY LiveUnder
<1>7. \A b \in L : Frame(code, notes, d, hs, es, b)
  BY DEF Steady, Settled
<1>8. /\ Ready(code, notes, d, values, i, notes[pc].set) /\ notes[pc].set \in Nat
      /\ Inside(code, notes, d, i, pc) /\ pc \in DOMAIN code /\ notes[pc] # Unreached
  <2>1. Inside(code, notes, d, i, pc) /\ Ready(code, notes, d, values, i, notes[pc].set)
    BY DEF Stands, Standing, At
  <2>2. pc \in DOMAIN code /\ notes[pc] # Unreached
    BY <2>1 DEF Inside
  <2>3. notes[pc].set \in 0 .. ArgsOf(code, notes[pc].home) /\ ArgsOf(code, notes[pc].home) \in Nat
    BY <1>1, <2>2, Known
  <2> QED
    BY <2>1, <2>2, <2>3
<1> DEFINE ws == values'
<1>9. ws = [values EXCEPT ![z0] = x]
  OBVIOUS
<1>10. Passed(code, Arg) <=> Arg[2] \in 1 .. ArgsOf(code, Arg[1])
  BY DEF Passed
<1> HIDE DEF d, i, f, L, z0, ws
<1>11. ASSUME NEW b \in L, NEW k \in 1 .. ArgsOf(code, d[b].id)
       PROVE  ws[d[b].offset + k] = values[d[b].offset + k]
              \/ (b = i /\ Usable(code, notes, d, b, ws[d[b].offset + k]))
  <2> DEFINE z == d[b].offset + k
             v == VarsOf(code, d[b].id)
             a == ArgsOf(code, d[b].id)
             w == VarsOf(code, d[f].id)
             o == d[f].offset
  <2>1. a \in Nat /\ v \in Nat /\ (a = 0 \/ a < v) /\ d[b].offset \in Nat /\ Past(code, d, b) = d[b].offset + v
    BY <1>1, <1>6, <1>7, FrameHas DEF Past
  <2>2. w \in Nat /\ o \in Nat /\ Past(code, d, f) = o + w /\ Arg[2] \in 0 .. w - 1 /\ z0 = o + Arg[2]
    BY <1>2, <1>3, <1>4, <1>5, <1>6 DEF Past
  <2>3. k \in 1 .. a
    OBVIOUS
  <2>4. b # f => Past(code, d, b) <= o \/ Past(code, d, f) <= d[b].offset
    BY <1>5 DEF Beside
  <2> DEFINE ob == d[b].offset
             pb == Past(code, d, b)
             pf == Past(code, d, f)
             g == Arg[2]
  <2>5. z \in ob .. pb - 1
    <3> HIDE DEF a, v, w, o, ob, pb, pf, g
    <3>1. /\ a \in Nat /\ v \in Nat /\ (a = 0 \/ a < v) /\ ob \in Nat /\ pb = ob + v /\ k \in 1 .. a
          /\ z = ob + k
      BY <2>1, <2>3 DEF ob, pb
    <3> HIDE DEF z
    <3> QED
      BY <3>1
  <2>6. z \in DOMAIN values
    BY <1>6, <2>5 DEF ob, pb
  <2>7. z = z0 => b = f /\ g = k
    <3>1. /\ w \in Nat /\ o \in Nat /\ pf = o + w /\ g \in 0 .. w - 1 /\ z0 = o + g
          /\ (b # f => pb <= o \/ pf <= ob)
          /\ (b = f => ob = o) /\ ob \in Nat /\ z = ob + k /\ k \in Nat /\ v \in Nat /\ pb = ob + v
      BY <2>1, <2>2, <2>3, <2>4
    <3> HIDE DEF a, v, w, o, ob, pb, pf, g, z
    <3> QED
      BY <2>5, <3>1
  <2>8. CASE z # z0
    <3> HIDE DEF z
    <3>1. ws[z] = values[z]
      BY <1>9, <2>6, <2>8
    <3> QED
      BY <3>1 DEF z
  <2>9. CASE z = z0
    <3>1. b = f /\ Arg[2] = k /\ Arg[2] \in 1 .. ArgsOf(code, Arg[1])
      BY <1>3, <2>7, <2>9
    <3>2. Passed(code, Arg) /\ b = i
      BY <1>2, <1>3, <1>10, <3>1
    <3>3. ws[z] = x
      BY <1>9, <2>6, <2>9
    <3> HIDE DEF z
    <3>4. Usable(code, notes, d, b, ws[z])
      BY <3>2, <3>3 DEF d, i
    <3> QED
      BY <3>2, <3>4 DEF z
  <2> QED
    BY <2>8, <2>9
<1>12. Keeps(code, notes, d, values, ws, L)
  <2> SUFFICES ASSUME NEW b \in L, NEW n \in 0 .. ArgsOf(code, d[b].id), Ready(code, notes, d, values, b, n),
                      NEW k \in 1 .. n
               PROVE  Usable(code, notes, d, b, ws[d[b].offset + k])
    BY DEF Keeps, Ready
  <2>1. ArgsOf(code, d[b].id) \in Nat
    BY <1>1, <1>7, FrameHas
  <2>2. k \in 1 .. ArgsOf(code, d[b].id)
    BY <2>1
  <2>3. Usable(code, notes, d, b, values[d[b].offset + k])
    BY DEF Ready
  <2> QED
    BY <1>11, <2>2, <2>3
<1>13. ASSUME Passed(code, Arg)
       PROVE  Ready(code, notes, d, ws, i, Arg[2])
  <2> DEFINE m == notes[pc].set
  <2>1. Arg[2] = m + 1 /\ m \in Nat /\ f = i /\ Arg[2] \in 1 .. ArgsOf(code, d[i].id) /\ i \in L
    BY <1>2, <1>3, <1>5, <1>8, <1>10, <1>13
  <2>2. ArgsOf(code, d[i].id) \in Nat /\ Ready(code, notes, d, values, i, m)
    BY <1>1, <1>7, <1>8, <2>1, FrameHas
  <2> SUFFICES ASSUME NEW k \in 1 .. Arg[2] PROVE Usable(code, notes, d, i, ws[d[i].offset + k])
    BY DEF Ready
  <2> HIDE DEF m
  <2>3. k \in 1 .. m \/ k = Arg[2]
    BY <2>1
  <2>4. k \in 1 .. ArgsOf(code, d[i].id)
    BY <2>1, <2>2
  <2>5. CASE k \in 1 .. m
    <3>1. Usable(code, notes, d, i, values[d[i].offset + k])
      BY <2>2, <2>5 DEF Ready
    <3> QED
      BY <1>11, <2>1, <2>4, <3>1
  <2>6. CASE k = Arg[2]
    <3>1. d[i].offset + k = z0
      BY <1>4, <2>1, <2>6
    <3>2. z0 \in DOMAIN values
      <4> DEFINE o == d[f].offset
                 w == VarsOf(code, d[f].id)
                 q == Arg[2]
                 u == Past(code, d, f)
      <4>1. o \in Nat /\ w \in Nat /\ q \in 0 .. w - 1 /\ u = o + w /\ z0 = o + q
        BY <1>2, <1>3, <1>4, <1>5, <1>6 DEF Past
      <4> HIDE DEF o, w, q, u
      <4>2. z0 \in o .. u - 1
        BY <4>1
      <4> QED
        BY <1>5, <1>6, <4>2 DEF o, u
    <3>3. ws[d[i].offset + k] = x
      BY <1>9, <3>1, <3>2
    <3> QED
      BY <1>13, <3>3 DEF d, i
  <2> QED
    BY <2>3, <2>5, <2>6
<1> QED
  BY <1>12, <1>13 DEF d, i, L, ws

\* Going on within a function, after a variable was written.
LEMMA StandsWritten ==
    ASSUME NEW cs, NEW ns, Sound(cs, ns), NEW d, Blocks(cs, d), NEW vs, NEW ws, NEW hs, NEW es,
           NEW p, NEW i, NEW s, NEW x, Standing(cs, ns, d, vs, hs, es, p, i, s, x),
           NEW L, \A b \in L : Frame(cs, ns, d, hs, es, b),
           Keeps(cs, ns, d, vs, ws, L), ChainIn(d, i) \subseteq L,
           NEW j, NEW n, Leads(cs, ns, j, n), n.home = ns[p].home, Ready(cs, ns, d, ws, i, n.set),
           NEW t, NEW y, Fits(cs, ns, d, i, hs[i], n.shape, t), y = es[i] + n.depth
    PROVE  Standing(cs, ns, d, ws, hs, es, j, i, t, y)
<1>1. i \in DOMAIN d /\ d[i].id = ns[p].home
  BY DEF Standing, At, Inside
<1>2. ChainIn(d, i) = {i} \cup ChainIn(d, d[i].next)
  BY <1>1, ChainsNext
<1>3. Params(cs, ns, d, ws, d[i].next)
  <2>1. Params(cs, ns, d, vs, d[i].next) /\ ChainIn(d, d[i].next) \subseteq L
    BY <1>2 DEF Standing
  <2> QED
    BY <2>1, ParamsKept
<1>4. At(cs, ns, d, hs, es, j, i, t, y) /\ ns[j] = n
  BY <1>1 DEF At, Inside, Leads
<1> QED
  BY <1>3, <1>4 DEF Standing

LEMMA OrderWrites ==
    ASSUME Flow, Frames, InOrder, Store \/ AppendTo \/ PlaceLabel
    PROVE  InOrder'
<1>1. PICK hs, es : Steady(hs, es) /\ (Passing \/ Stands(hs, es) \/ Called(hs, es))
  BY DEF InOrder
<1> DEFINE n == notes[pc]
           d == scopes.data
           i == scopes.index
           L == Lives(d, i, forks)
           top == Len(n.shape)
           Now2(j, s) == Standing(code, notes, d, values', hs, es, j, i, s, expdepth)
<1>2. /\ code[pc].op \in {"store", "append", "forklabel"}
      /\ code[pc].op = "forklabel" => ~backtrack
  BY DEF Store, AppendTo, PlaceLabel, Doing
<1>3. Stands(hs, es)
  BY <1>1, <1>2, StandsAt DEF Raising
<1>4. Standing(code, notes, d, values, hs, es, pc, i, stack, expdepth) /\ Sound(code, notes) /\ Blocks(code, d)
  BY <1>3, ProgramSound DEF Stands, Frames
<1>5. /\ Permitted(code, notes, pc) /\ Leads(code, notes, pc + 1, Following(code, pc, n)) /\ n.shape \in Seq(Tags)
      /\ Fits(code, notes, d, i, hs[i], n.shape, stack) /\ expdepth = es[i] + n.depth
      /\ pc \in DOMAIN code /\ n # Unreached
  BY <1>2, <1>4, StandsKnown DEF Ends
<1>6. Inside(code, notes, d, i, pc) /\ i \in DOMAIN d /\ d[i].id = n.home
  BY <1>4 DEF Standing, At, Inside
<1>7. i \in ChainIn(d, i) /\ ChainIn(d, i) \subseteq L /\ \A b \in L : Frame(code, notes, d, hs, es, b)
  BY <1>1, <1>4, <1>6, ChainsNext DEF Lives, Steady, Settled
<1>8. /\ Ready(code, notes, d, values, i, n.set) /\ n.set \in 0 .. ArgsOf(code, d[i].id)
      /\ ArgsOf(code, d[i].id) \in Nat
  BY <1>4, <1>5, <1>6, Known DEF Standing
<1>9. code[pc].op \in Variables \ {"load"} /\ code[pc].v = Arg
  BY <1>2 DEF Variables, Arg
<1>10. Passed(code, Arg) =>
         code[pc].op = "store" /\ Arg[2] = n.set + 1 /\ n.shape[top] = "closure"
  BY <1>5, <1>9 DEF Permitted
<1>11. IsSeq(stack) /\ expdepth \in Nat
  BY DEF InOrder
<1>12. Takes(code, pc) \in 0 .. top
  BY <1>5 DEF Permitted
<1>13. ASSUME NEW x, Assign(Arg, x), Passed(code, Arg) => Usable(code, notes, d, i, x),
              code[pc].op \in {"store", "append"}
       PROVE  InOrder'
  <2> DEFINE m == Following(code, pc, n)
             set == IF Passed(code, Arg) THEN Arg[2] ELSE n.set
  <2>1. /\ values' = [values EXCEPT ![Slot(Arg)] = x]
        /\ stack' = Rest /\ pc' = pc + 1 /\ prog' = prog
        /\ scopes' = scopes /\ forks' = forks /\ expdepth' = expdepth
    BY <1>13 DEF Assign, Continue, control
  <2>2. /\ Keeps(code, notes, d, values, values', L)
        /\ Passed(code, Arg) => Ready(code, notes, d, values', i, Arg[2])
    BY <1>1, <1>3, <1>9, <1>13, <2>1, Written
  <2>3. Ready(code, notes, d, values', i, n.set)
    BY <1>7, <1>8, <2>2 DEF Keeps
  <2>4. m = Stored(Popped(n, 1), set) \/ (m = Popped(n, 1) /\ set = n.set)
    <3>1. CASE code[pc].op = "store"
      BY <3>1 DEF Following, Arg
    <3>2. CASE code[pc].op = "append"
      BY <1>10, <3>2 DEF Following
    <3> QED
      BY <1>13, <3>1, <3>2
  <2>5. /\ m.home = n.home /\ m.depth = n.depth /\ m.set = set
        /\ m.shape = SubSeq(n.shape, 1, Len(n.shape) - 1)
    BY <2>4 DEF Stored, Popped, Shaped, Note
  <2>6. Takes(code, pc) = 1
    BY <1>13 DEF Takes
  <2>7. Fits(code, notes, d, i, hs[i], m.shape, Rest)
    <3>1. 1 \in 0 .. Len(n.shape)
      BY <1>12, <2>6
    <3> HIDE DEF n, d, i, m
    <3>2. Fits(code, notes, d, i, hs[i], SubSeq(n.shape, 1, Len(n.shape) - 1), SubSeq(stack, 1, Len(stack) - 1))
      BY <1>5, <3>1, FitsPop
    <3> QED
      BY <2>5, <3>2 DEF Rest
  <2>8. Ready(code, notes, d, values', i, set)
    BY <2>2, <2>3
  <2> HIDE DEF m, set, n, d, i, L
  <2>9. Now2(pc + 1, Rest)
    BY <1>4, <1>5, <1>7, <2>2, <2>5, <2>7, <2>8, StandsWritten DEF m, n
  <2> QED
    BY <1>1, <2>1, <2>2, <2>9, OrderSaved DEF d, i, L
<1>14. CASE Store
  <2>1. code[pc].op = "store" /\ Assign(Arg, Top)
    BY <1>14 DEF Store, Doing
  <2>2. ASSUME Passed(code, Arg) PROVE Usable(code, notes, d, i, Top)
    <3>1. Takes(code, pc) = 1
      BY <2>1 DEF Takes
    <3>2. n.shape[top] = "closure" /\ top \in 1 .. top /\ Len(stack) = hs[i] + top
      <4>1. top \in Nat
        BY <1>5
      <4> QED
        BY <1>5, <1>10, <1>12, <2>2, <3>1, <4>1 DEF Fits
    <3> HIDE DEF n, d, i
    <3>3. Usable(code, notes, d, i, stack[hs[i] + top])
      BY <1>5, <3>2 DEF Fits
    <3> QED
      BY <3>2, <3>3 DEF Top
  <2> QED
    BY <1>13, <2>1, <2>2
<1>15. CASE AppendTo
  <2>1. code[pc].op = "append" /\ \E x : Assign(Arg, x)
    BY <1>15 DEF AppendTo, Doing
  <2> QED
    BY <1>10, <1>13, <2>1
<1>16. CASE PlaceLabel
  <2> DEFINE s == Append(stack, Num(label))
  <2>1. /\ code[pc].op = "forklabel" /\ PushFork(s)
        /\ values' = [values EXCEPT ![Slot(Arg)] = Num(label)]
        /\ stack' = stack /\ pc' = pc + 1 /\ prog' = prog /\ expdepth' = expdepth
    BY <1>16 DEF PlaceLabel, Doing, Continue, control
  <2>2. ~Passed(code, Arg)
    BY <1>10, <2>1
  <2>3. Keeps(code, notes, d, values, values', L)
    BY <1>1, <1>3, <1>9, <2>1, <2>2, Written
  <2>4. Following(code, pc, n) = n
    BY <2>1 DEF Following
  <2>5. n.set = ArgsOf(code, n.home)
    BY <1>5, <2>1 DEF Permitted
  <2>6. Ready(code, notes, d, values', i, n.set)
    BY <1>7, <1>8, <2>3 DEF Keeps
  <2>7. Params(code, notes, d, values, i)
    BY <1>4, <2>5, ParamsHere
  <2>8. Params(code, notes, d, values', i)
    BY <1>4, <1>7, <2>3, <2>7, ParamsKept
  <2>9. IsSeq(s)
    <3>1. PICK S : stack \in Seq(S)
      BY <1>11 DEF IsSeq
    <3> DEFINE y == Num(label)
               T == S \cup {y}
    <3> HIDE DEF y
    <3>2. stack \in Seq(T) /\ y \in T
      BY <3>1, SeqMonotonic
    <3> HIDE DEF T
    <3>3. Append(stack, y) \in Seq(T)
      BY <3>2
    <3> QED
      BY <3>3 DEF IsSeq, y
  <2> HIDE DEF s
  <2>10. code[pc].op \in Saves /\ code[pc].op \in Raising
    BY <2>1 DEF Saves, Raising
  <2>11. /\ scopes'.data = scopes.data /\ scopes'.index = scopes.index
         /\ \E f : /\ forks' = Append(forks, f) /\ f.index = scopes.index
                   /\ Saved(code, notes, scopes.data, values', hs, es, f)
    BY <1>1, <1>3, <1>11, <2>1, <2>8, <2>9, <2>10, ForkSaved
  <2> HIDE DEF n, d, i, L
  <2>12. Now2(pc + 1, stack)
    BY <1>4, <1>5, <1>7, <2>3, <2>4, <2>6, StandsWritten DEF n
  <2> QED
    BY <1>1, <2>1, <2>3, <2>11, <2>12, OrderSaved DEF d, i, L
<1> QED
  BY <1>14, <1>15, <1>16

-------------------------------------------------------------------------------
(* A new frame, at block slot: e are the blocks then.                      *)

\* What is below the new block sees what it did.
Grows(cs, d, slot, e) ==
    /\ Blocks(cs, d) /\ Extends(d, slot, e)
    /\ \A i \in -1 .. slot - 1 : Ids(e, i) = Ids(d, i)

\* The variables of the blocks L are there, with what they were.
Holds(cs, d, vs, ws, L) ==
    \A b \in L : \A k \in 1 .. ArgsOf(cs, d[b].id) : ws[d[b].offset + k] = vs[d[b].offset + k]

LEMMA OutsPut ==
    ASSUME NEW d, Descending(Outs(d)), NEW slot \in Nat, slot - 1 \in DOMAIN d \cup {-1},
           NEW frame, frame.outer \in -1 .. slot - 1, NEW e, e = Put(d, slot, frame)
    PROVE  Descending(Outs(e))
<1>1. PICK n \in Nat : DOMAIN d = 0 .. n - 1 /\ \A i \in 0 .. n - 1 : d[i].outer \in -1 .. i - 1
  BY OutsAre DEF Descending
<1> DEFINE m == IF slot = n THEN n + 1 ELSE n
<1>2. m \in Nat /\ DOMAIN e = 0 .. m - 1 /\ \A b \in DOMAIN e : e[b] = IF b = slot THEN frame ELSE d[b]
  BY <1>1 DEF Put
<1>3. ASSUME NEW b \in 0 .. m - 1 PROVE e[b].outer \in -1 .. b - 1
  <2>1. b = slot \/ (b \in 0 .. n - 1 /\ b # slot)
    BY <1>1
  <2>2. b \in DOMAIN e
    BY <1>2
  <2> HIDE DEF m
  <2>3. CASE b = slot
    BY <1>2, <2>2, <2>3
  <2>4. CASE b # slot
    BY <1>1, <1>2, <2>1, <2>2, <2>4
  <2> QED
    BY <2>3, <2>4
<1> HIDE DEF m
<1> QED
  BY <1>2, <1>3, OutsAre DEF Descending

LEMMA GrowsPut ==
    ASSUME NEW cs, NEW d, Blocks(cs, d), NEW slot, NEW e, Extends(d, slot, e),
           Descending(Outs(d)), Descending(Outs(e)), slot - 1 \in DOMAIN d \cup {-1}
    PROVE  Grows(cs, d, slot, e)
<1>1. PICK n \in Nat : DOMAIN d = 0 .. n - 1
  BY OutsAre DEF Descending
<1>2. slot \in Nat /\ \A b \in DOMAIN d : b < slot => e[b] = d[b]
  BY DEF Extends
<1>3. \A b \in 0 .. slot - 1 : b \in DOMAIN d /\ b \in DOMAIN e /\ e[b] = d[b]
  BY <1>1, <1>2 DEF Extends
<1> DEFINE m == slot - 1
<1>4. m \in Int /\ \A b \in 0 .. m : b \in DOMAIN Outs(d) /\ b \in DOMAIN Outs(e) /\ Outs(e)[b] = Outs(d)[b]
  BY <1>2, <1>3 DEF Outs
<1> HIDE DEF m
<1>5. \A i \in -1 .. m : ChainIn(Outs(e), i) = ChainIn(Outs(d), i)
  BY <1>4, SameChainIn
<1>6. \A i \in -1 .. m : i \in DOMAIN Outs(d) \cup {-1}
  BY <1>1, <1>2, <1>3, OutsAre DEF m
<1>7. \A i \in -1 .. m : ChainIn(Outs(d), i) \subseteq 0 .. i
  BY <1>6, ChainInFacts
<1>8. ASSUME NEW i \in -1 .. m PROVE Ids(e, i) = Ids(d, i)
  <2>1. \A b \in ChainIn(Outs(d), i) : b \in 0 .. slot - 1
    BY <1>2, <1>7 DEF m
  <2> QED
    BY <1>3, <1>5, <2>1 DEF Ids
<1> QED
  BY <1>8 DEF Grows, m

\* The new block sees itself and what its outer frame sees.
LEMMA IdsNew ==
    ASSUME NEW d, Descending(Outs(d)), NEW b \in DOMAIN d
    PROVE  Ids(d, b) = {d[b].id} \cup Ids(d, d[b].outer)
<1>1. ChainIn(Outs(d), b) = {b} \cup ChainIn(Outs(d), d[b].outer)
  BY OutsAre, ChainInFacts
<1> QED
  BY <1>1 DEF Ids

-------------------------------------------------------------------------------
(* What holds below the new block still does.                              *)

LEMMA UsableGrown ==
    ASSUME NEW cs, NEW ns, NEW d, NEW slot, NEW e, Grows(cs, d, slot, e),
           NEW i \in DOMAIN d \cup {-1}, i < slot, NEW j, ChainIn(d, i) \subseteq ChainIn(e, j),
           NEW x, Usable(cs, ns, d, i, x)
    PROVE  Usable(cs, ns, e, j, x)
<1>1. PICK p, f : /\ x = <<"closure", p, f>>
                  /\ MayRun(cs, ns, d, p, f) /\ cs[p].v.argc = 0
                  /\ f \in ChainIn(d, i) \cup {-1}
  BY DEF Usable
<1>2. f \in -1 .. slot - 1
  <2>1. Blocks(cs, d) /\ slot \in Nat
    BY DEF Grows, Extends
  <2>2. f # -1 => f \in DOMAIN d /\ f <= i /\ f \in Nat
    BY <1>1, <2>1, ChainsWithin, BlocksAre
  <2>3. i \in Int
    BY <2>1, BlocksAre
  <2> QED
    BY <2>1, <2>2, <2>3
<1>3. MayRun(cs, ns, e, p, f)
  BY <1>1, <1>2 DEF MayRun, Grows
<1> QED
  BY <1>1, <1>3 DEF Usable

LEMMA InsideGrown ==
    ASSUME NEW cs, NEW ns, NEW d, NEW slot, NEW e, Grows(cs, d, slot, e),
           NEW i, i < slot, NEW p, Inside(cs, ns, d, i, p)
    PROVE  Inside(cs, ns, e, i, p)
BY DEF Inside, Grows, Extends

LEMMA FitsGrown ==
    ASSUME NEW cs, NEW ns, NEW d, NEW slot, NEW e, Grows(cs, d, slot, e),
           NEW i \in DOMAIN d \cup {-1}, i < slot, NEW j, ChainIn(d, i) \subseteq ChainIn(e, j),
           NEW h, NEW shape, NEW s, Fits(cs, ns, d, i, h, shape, s)
    PROVE  Fits(cs, ns, e, j, h, shape, s)
BY UsableGrown DEF Fits

LEMMA BackGrown ==
    ASSUME NEW cs, NEW ns, NEW d, NEW slot, NEW e, Grows(cs, d, slot, e),
           NEW hs, NEW es, NEW gs, NEW xs, NEW i, i < slot, gs[i] = hs[i], xs[i] = es[i],
           NEW p, NEW h, NEW x, Back(cs, ns, d, hs, es, p, i, h, x)
    PROVE  Back(cs, ns, e, gs, xs, p, i, h, x)
<1>1. CASE i = -1 /\ p = Len(cs) /\ h = 0 /\ x = 0
  BY <1>1 DEF Back
<1>2. CASE Inside(cs, ns, d, i, p + 1)
  BY <1>2, InsideGrown DEF Back
<1> QED
  BY <1>1, <1>2 DEF Back

LEMMA FrameGrown ==
    ASSUME NEW cs, NEW ns, NEW d, NEW slot, NEW e, Grows(cs, d, slot, e),
           NEW hs, NEW es, NEW gs, NEW xs, \A b \in -1 .. slot - 1 : gs[b] = hs[b] /\ xs[b] = es[b],
           NEW b \in DOMAIN d, b < slot, Frame(cs, ns, d, hs, es, b)
    PROVE  Frame(cs, ns, e, gs, xs, b)
<1>1. Blocks(cs, d) /\ e[b] = d[b] /\ slot \in Nat /\ b \in Nat
  BY BlocksAre DEF Grows, Extends
<1> DEFINE x == d[b].next
<1>2. x \in -1 .. slot - 1 /\ x < slot /\ b \in -1 .. slot - 1
  <2>1. x \in DOMAIN d \cup {-1} /\ x < b
    BY <1>1, ChainsNext
  <2>2. DOMAIN d \subseteq Nat
    BY <1>1, BlocksAre
  <2> QED
    BY <1>1, <2>1, <2>2
<1>3. Ids(e, b) = Ids(d, b) /\ ChainIn(e, x) = ChainIn(d, x)
  BY <1>2 DEF Grows, Extends
<1> HIDE DEF x
<1>4. Back(cs, ns, d, hs, es, d[b].pc, x, hs[b], es[b]) /\ gs[x] = hs[x] /\ xs[x] = es[x]
  BY <1>2 DEF Frame, x
<1>5. Back(cs, ns, e, gs, xs, d[b].pc, x, hs[b], es[b])
  BY <1>2, <1>4, BackGrown
<1>6. gs[b] = hs[b] /\ xs[b] = es[b]
  BY <1>2
<1> QED
  BY <1>1, <1>3, <1>5, <1>6 DEF Frame, x

LEMMA ParamsGrown ==
    ASSUME NEW cs, NEW ns, NEW d, NEW slot, NEW e, Grows(cs, d, slot, e),
           NEW vs, NEW ws, NEW L, Holds(cs, d, vs, ws, L),
           NEW i \in DOMAIN d \cup {-1}, i < slot, ChainIn(d, i) \subseteq L, Params(cs, ns, d, vs, i)
    PROVE  Params(cs, ns, e, ws, i)
<1>1. /\ Blocks(cs, d) /\ slot \in Nat /\ \A b \in DOMAIN d : b < slot => e[b] = d[b]
      /\ \A b \in -1 .. slot - 1 : ChainIn(e, b) = ChainIn(d, b)
  BY DEF Grows, Extends
<1>2. DOMAIN d \subseteq Nat
  BY <1>1, BlocksAre
<1>3. \A b \in ChainIn(d, i) : b \in DOMAIN d /\ b <= i
  BY <1>1, ChainsWithin
<1>4. i \in -1 .. slot - 1
  BY <1>1, <1>2
<1> SUFFICES ASSUME NEW b \in ChainIn(d, i), NEW k \in 1 .. ArgsOf(cs, d[b].id)
             PROVE  Usable(cs, ns, e, b, ws[d[b].offset + k])
  <2>1. \A b \in ChainIn(d, i) : e[b] = d[b]
    BY <1>1, <1>2, <1>3, <1>4
  <2>2. ChainIn(e, i) = ChainIn(d, i)
    BY <1>1, <1>4
  <2> QED
    BY <2>1, <2>2 DEF Params, Ready
<1>5. b \in DOMAIN d /\ b < slot /\ b \in -1 .. slot - 1
  BY <1>1, <1>2, <1>3, <1>4
<1>6. ChainIn(e, b) = ChainIn(d, b)
  BY <1>1, <1>5
<1>7. Usable(cs, ns, d, b, vs[d[b].offset + k])
  BY DEF Params, Ready
<1>8. ws[d[b].offset + k] = vs[d[b].offset + k]
  BY DEF Holds
<1> QED
  BY <1>5, <1>6, <1>7, <1>8, UsableGrown

LEMMA SavedGrown ==
    ASSUME NEW cs, NEW ns, NEW d, NEW slot, NEW e, Grows(cs, d, slot, e),
           NEW hs, NEW es, NEW gs, NEW xs, \A b \in -1 .. slot - 1 : gs[b] = hs[b] /\ xs[b] = es[b],
           NEW vs, NEW ws, NEW L, Holds(cs, d, vs, ws, L),
           NEW f, f.index \in DOMAIN d \cup {-1}, f.index < slot, ChainIn(d, f.index) \subseteq L,
           Saved(cs, ns, d, vs, hs, es, f)
    PROVE  Saved(cs, ns, e, ws, gs, xs, f)
<1> DEFINE i == f.index
<1>1. Params(cs, ns, e, ws, i)
  BY ParamsGrown DEF Saved
<1>2. ASSUME cs[f.pc].op \notin Raising
      PROVE  At(cs, ns, e, gs, xs, f.pc, i, f.stack, f.expdepth)
  <2>1. At(cs, ns, d, hs, es, f.pc, i, f.stack, f.expdepth)
    BY <1>2 DEF Saved
  <2>2. i \in -1 .. slot - 1 /\ ChainIn(e, i) = ChainIn(d, i)
    <3>1. Blocks(cs, d) /\ slot \in Nat
      BY DEF Grows, Extends
    <3>2. i \in -1 .. slot - 1
      BY <3>1, BlocksAre
    <3> QED
      BY <3>2 DEF Grows, Extends
  <2>3. gs[i] = hs[i] /\ xs[i] = es[i]
    BY <2>2
  <2> HIDE DEF i
  <2>4. i \in DOMAIN d \cup {-1} /\ i < slot
    BY DEF i
  <2>5. Inside(cs, ns, e, i, f.pc) /\ Fits(cs, ns, e, i, gs[i], ns[f.pc].shape, f.stack)
    BY <2>1, <2>2, <2>3, <2>4, InsideGrown, FitsGrown DEF At
  <2> QED
    BY <2>1, <2>3, <2>5 DEF At
<1> QED
  BY <1>1, <1>2 DEF Saved

\* A frame is put above next, with h elements on the stack below what is its own.
LEMMA OrderPlaced ==
    ASSUME Flow, Frames, NEW hs, NEW es, Steady(hs, es), code[pc].op = "scope", expdepth \in Nat,
           NEW returnTo, NEW next, NEW start, PushScope(returnTo, next, next, start),
           next \in DOMAIN scopes.data \cup {-1}, start \in Nat,
           ChainIn(scopes.data, next) \subseteq ChainIn(scopes.data, scopes.index),
           Starts(code, notes, pc),
           NEW outer, outer = OuterFrame(Arg.id), outer \in ChainIn(scopes.data, next) \cup {-1},
           notes[pc].sees \ {Arg.id} \subseteq Ids(scopes.data, outer),
           Params(code, notes, scopes.data, values, scopes.index),
           NEW h \in Nat, Fits(code, notes, scopes.data, next, h, notes[pc].shape, stack),
           Back(code, notes, scopes.data, hs, es, returnTo, next, h, expdepth)
    PROVE  InOrder'
<1> DEFINE d == scopes.data
           i == scopes.index
           limit == scopes.limit
           L == Lives(d, i, forks)
           slot == Larger(next, limit) + 1
           frame == [id |-> Arg.id, offset |-> start, pc |-> returnTo, saveindex |-> next,
                     outer |-> outer, next |-> next]
           e == Put(d, slot, frame)
           vs == values
           ws == values'
<1>1. /\ scopes' = [scopes EXCEPT !.data = e, !.index = slot]
      /\ values' = Grown(start + Arg.vars)
      /\ forks' = forks /\ prog' = prog /\ stack' = stack /\ pc' = pc + 1 /\ expdepth' = expdepth
  BY DEF PushScope, Continue, control
<1>2. scopes'.data = e /\ scopes'.index = slot
  BY <1>1, Parts
<1>3. code' = code /\ notes' = notes /\ Sound(code, notes)
  BY <1>1, SameNotes, ProgramSound
<1>4. /\ Blocks(code, d) /\ Mark(code, d, forks, DOMAIN values, Now, Len(forks))
      /\ limit \in DOMAIN d \cup {-1}
      /\ \A j \in 1 .. Len(forks) : forks[j].index \in -1 .. limit
  BY DEF Frames, Mark, Now
<1>5. /\ frame.id = Arg.id /\ frame.offset = start /\ frame.next = next /\ frame.saveindex = next
      /\ frame.pc = returnTo /\ frame.outer = outer
  OBVIOUS
<1>6. /\ Starts(code, notes, pc) /\ code[pc].v = Arg /\ pc \in DOMAIN code
      /\ notes[pc].home = Arg.id /\ notes[pc].depth = 0 /\ notes[pc].set = 0
      /\ Leads(code, notes, pc + 1, notes[pc])
  BY <1>3, Entered DEF Arg
<1>7. Arg.vars \in Nat /\ VarsOf(code, Arg.id) = Arg.vars
  BY <1>3, <1>6, ScopeIs DEF Starts
<1> HIDE DEF frame
<1>8. Puts(code, d, next, limit, frame, slot, e)
  BY <1>4, <1>5, <1>7 DEF Puts
<1>9. /\ Settled(code, notes, d, vs, hs, es, i, forks) /\ Descending(Outs(d))
      /\ hs \in [Int -> Nat] /\ es \in [Int -> Nat]
  BY DEF Steady
<1>10. Holds(code, d, vs, ws, L)
  <2> SUFFICES ASSUME NEW b \in L, NEW k \in 1 .. ArgsOf(code, d[b].id)
               PROVE  ws[d[b].offset + k] = vs[d[b].offset + k]
    BY DEF Holds
  <2> DEFINE a == ArgsOf(code, d[b].id)
             v == VarsOf(code, d[b].id)
             o == d[b].offset
  <2>1. a \in Nat /\ v \in Nat /\ (a = 0 \/ a < v)
    BY <1>3, <1>9, FrameHas DEF Settled
  <2>2. o \in Nat /\ \A z \in o .. o + v - 1 : z \in DOMAIN values
    BY LiveUnder DEF Past
  <2> HIDE DEF a, v, o
  <2>3. o + k \in o .. o + v - 1
    BY <2>1, <2>2 DEF a
  <2>4. o + k \in DOMAIN values
    BY <2>2, <2>3
  <2>5. ws[o + k] = vs[o + k]
    BY <1>1, <2>4 DEF Grown
  <2> QED
    BY <2>5 DEF o
<1>11. slot - 1 \in DOMAIN d \cup {-1} /\ slot \in Nat /\ DOMAIN d \subseteq Nat /\ slot - 1 = Larger(next, limit)
  <2>1. DOMAIN d \subseteq Nat
    BY <1>4, BlocksAre
  <2>2. Larger(next, limit) \in DOMAIN d \cup {-1}
    BY <1>4 DEF Larger
  <2> HIDE DEF d, limit
  <2>3. slot = Larger(next, limit) + 1
    OBVIOUS
  <2> HIDE DEF slot
  <2> QED
    BY <2>1, <2>2, <2>3
<1> HIDE DEF d, i, limit, L, slot, e, vs, ws
<1>12. /\ Extends(d, slot, e) /\ Blocks(code, e)
       /\ slot > next /\ slot > limit
       /\ e[slot] = frame
       /\ ChainIn(e, slot) = {slot} \cup ChainIn(d, next)
  BY <1>4, <1>8, Placed
<1>13. next \in -1 .. slot - 1 /\ next \in DOMAIN d \cup {-1} /\ next < slot
  BY <1>11, <1>12 DEF d
<1>14. outer \in -1 .. slot - 1
  <2>1. outer # -1 => outer \in DOMAIN d /\ outer <= next
    BY <1>4, <1>13, ChainsWithin DEF d
  <2> QED
    BY <1>11, <1>13, <2>1
<1>15. Descending(Outs(e))
  BY <1>5, <1>9, <1>11, <1>14, OutsPut DEF e
<1>16. Grows(code, d, slot, e)
  BY <1>4, <1>9, <1>11, <1>12, <1>15, GrowsPut
<1>17. PICK gs, xs :
         /\ gs \in [Int -> Nat] /\ xs \in [Int -> Nat] /\ gs[slot] = h /\ xs[slot] = expdepth
         /\ \A b \in -1 .. slot - 1 : gs[b] = hs[b] /\ xs[b] = es[b]
  <2> DEFINE ga == [hs EXCEPT ![slot] = h]
             xa == [es EXCEPT ![slot] = expdepth]
  <2>1. /\ ga \in [Int -> Nat] /\ xa \in [Int -> Nat] /\ ga[slot] = h /\ xa[slot] = expdepth
        /\ \A b \in -1 .. slot - 1 : ga[b] = hs[b] /\ xa[b] = es[b]
    BY <1>9, <1>11
  <2> HIDE DEF ga, xa
  <2> QED
    BY <2>1
<1>18. ChainIn(d, next) \subseteq ChainIn(d, i) /\ ChainIn(d, i) \subseteq L
  BY DEF d, i, L, Lives
<1>19. slot \in DOMAIN e
  BY <1>12 DEF Extends
\* The new frame.
<1>20. Frame(code, notes, e, gs, xs, slot)
  <2>1. Ids(e, slot) = {Arg.id} \cup Ids(d, outer)
    <3>1. Ids(e, slot) = {e[slot].id} \cup Ids(e, e[slot].outer)
      BY <1>15, <1>19, IdsNew
    <3>2. Ids(e, outer) = Ids(d, outer)
      BY <1>14, <1>16 DEF Grows
    <3> QED
      BY <1>5, <1>12, <3>1, <3>2
  <2>2. notes[pc].sees \subseteq Ids(e, slot)
    BY <2>1 DEF d
  <2>3. Starts(code, notes, pc) /\ code[pc].v.id = e[slot].id
    BY <1>5, <1>6, <1>12
  <2>4. ChainIn(e, next) = ChainIn(d, next)
    BY <1>12, <1>13 DEF Extends
  <2>5. e[slot].outer \in ChainIn(e, e[slot].next) \cup {-1}
    BY <1>5, <1>12, <2>4 DEF d
  <2>6. Back(code, notes, d, hs, es, returnTo, next, h, expdepth)
    BY DEF d
  <2>7. Back(code, notes, e, gs, xs, returnTo, next, h, expdepth)
    BY <1>13, <1>16, <1>17, <2>6, BackGrown
  <2>8. Back(code, notes, e, gs, xs, e[slot].pc, e[slot].next, gs[slot], xs[slot])
    BY <1>5, <1>12, <1>17, <2>7
  <2> QED
    BY <2>2, <2>3, <2>5, <2>8 DEF Frame
\* Those below it.
<1>21. ASSUME NEW b \in L, b \in DOMAIN d, b < slot
       PROVE  Frame(code, notes, e, gs, xs, b)
  <2>1. Frame(code, notes, d, hs, es, b)
    BY <1>9 DEF Settled, L
  <2> QED
    BY <1>16, <1>17, <1>21, <2>1, FrameGrown
<1>22. ASSUME NEW k \in 1 .. Len(forks)
       PROVE  /\ forks[k].index \in DOMAIN d \cup {-1} /\ forks[k].index < slot
              /\ ChainIn(d, forks[k].index) \subseteq L
              /\ ChainIn(e, forks[k].index) = ChainIn(d, forks[k].index)
  <2> DEFINE j == forks[k].index
  <2>1. j \in -1 .. limit /\ Mark(code, d, forks, DOMAIN values, forks[k], k - 1)
    BY <1>4 DEF Frames, d, limit
  <2>2. j \in DOMAIN d \cup {-1}
    BY <2>1 DEF Mark
  <2>3. limit \in Int
    BY <1>4, <1>11
  <2>4. j < slot /\ j \in -1 .. slot - 1
    BY <1>11, <1>12, <2>1, <2>3
  <2>5. ChainIn(e, j) = ChainIn(d, j)
    BY <1>12, <2>4 DEF Extends
  <2>6. ChainIn(d, j) \subseteq L
    BY DEF L, Lives
  <2> QED
    BY <2>2, <2>4, <2>5, <2>6
<1>23. ASSUME NEW b \in Lives(e, slot, forks)
       PROVE  Frame(code, notes, e, gs, xs, b)
  <2>1. CASE b = slot
    BY <1>20, <2>1
  <2>2. CASE b \in ChainIn(d, next)
    <3>1. b \in DOMAIN d /\ b <= next
      BY <1>4, <1>13, <2>2, ChainsWithin
    <3>2. b < slot
      BY <1>11, <1>13, <3>1
    <3> QED
      BY <1>18, <1>21, <2>2, <3>1, <3>2
  <2>3. CASE \E k \in 1 .. Len(forks) : b \in ChainIn(e, forks[k].index)
    <3>1. PICK k \in 1 .. Len(forks) : b \in ChainIn(e, forks[k].index)
      BY <2>3
    <3> DEFINE j == forks[k].index
    <3>2. j \in DOMAIN d \cup {-1} /\ j < slot /\ b \in ChainIn(d, j) /\ b \in L
      BY <1>22, <3>1
    <3> HIDE DEF j
    <3>3. b \in DOMAIN d /\ b <= j
      BY <1>4, <3>2, ChainsWithin
    <3>4. b < slot
      BY <1>11, <3>2, <3>3
    <3> QED
      BY <1>21, <3>2, <3>3, <3>4
  <2> QED
    BY <1>12, <2>1, <2>2, <2>3 DEF Lives
<1>24. ASSUME NEW k \in 1 .. Len(forks)
       PROVE  Saved(code, notes, e, ws, gs, xs, forks[k])
  <2>1. Saved(code, notes, d, vs, hs, es, forks[k])
    BY <1>9 DEF Settled
  <2> QED
    BY <1>10, <1>16, <1>17, <1>22, <2>1, SavedGrown
<1>25. Steady(gs, xs)'
  <2>1. Settled(code, notes, e, ws, gs, xs, slot, forks)
    BY <1>23, <1>24 DEF Settled
  <2>2. /\ gs \in [Int -> Nat] /\ xs \in [Int -> Nat] /\ Descending(Outs(scopes'.data))
        /\ Settled(code', notes', scopes'.data, values', gs, xs, scopes'.index, forks')
    BY <1>1, <1>2, <1>3, <1>15, <1>17, <2>1 DEF ws, e, slot
  <2> QED
    BY <2>2 DEF Steady
<1>26. Standing(code, notes, e, ws, gs, xs, pc + 1, slot, stack, expdepth)
  <2>1. /\ pc + 1 \in DOMAIN code /\ code[pc + 1].op # "scope" /\ notes[pc + 1] # Unreached
        /\ notes[pc + 1] = notes[pc]
    BY <1>6 DEF Leads
  <2>2. Inside(code, notes, e, slot, pc + 1)
    BY <1>5, <1>6, <1>12, <1>19, <2>1 DEF Inside
  <2>3. Fits(code, notes, e, slot, h, notes[pc].shape, stack)
    <3>1. ChainIn(d, next) \subseteq ChainIn(e, slot)
      BY <1>12
    <3>2. Fits(code, notes, d, next, h, notes[pc].shape, stack)
      BY DEF d
    <3> QED
      BY <1>13, <1>16, <3>1, <3>2, FitsGrown
  <2>4. At(code, notes, e, gs, xs, pc + 1, slot, stack, expdepth)
    BY <1>6, <1>17, <2>1, <2>2, <2>3 DEF At
  <2>5. Params(code, notes, e, ws, e[slot].next)
    <3>1. Params(code, notes, d, vs, next)
      BY <1>18 DEF Params, d, vs, i
    <3>2. ChainIn(d, next) \subseteq L
      BY <1>18
    <3>3. Params(code, notes, e, ws, next)
      BY <1>10, <1>13, <1>16, <3>1, <3>2, ParamsGrown
    <3> QED
      BY <1>5, <1>12, <3>3
  <2>6. Ready(code, notes, e, ws, slot, notes[pc + 1].set)
    BY <1>6, <2>1 DEF Ready
  <2> QED
    BY <2>4, <2>5, <2>6 DEF Standing
<1>27. Stands(gs, xs)'
  <2>1. Standing(code', notes', scopes'.data, values', gs, xs, pc', scopes'.index, stack', expdepth')
    BY <1>1, <1>2, <1>3, <1>26 DEF ws, e, slot
  <2> QED
    BY <2>1 DEF Stands
<1>28. pc' \in DOMAIN code' /\ expdepth' \in Nat /\ IsSeq(stack')
  BY <1>1, <1>3, <1>6 DEF Leads, Fits
<1> QED
  BY <1>25, <1>27, <1>28 DEF InOrder

\* A function starts: its frame goes on top, or takes the place of its caller's.
LEMMA OrderEnter ==
    ASSUME Flow, Frames, InOrder, WellCoded, Scope
    PROVE  InOrder'
<1>1. PICK hs, es : Steady(hs, es) /\ (Passing \/ Stands(hs, es) \/ Called(hs, es))
  BY DEF InOrder
<1> DEFINE d == scopes.data
           i == scopes.index
           c == call.index
           id == Arg.id
           outer == OuterFrame(id)
           top == d[i]
<1>2. code[pc].op = "scope"
  BY DEF Scope, Doing
<1>3. Pending(code, notes, d, values, hs, es, pc, i, stack, expdepth, call) /\ Sound(code, notes)
  BY <1>1, <1>2, CalledAt, ProgramSound DEF Called
<1>4. PICK h \in Nat :
        /\ Fits(code, notes, d, i, h, notes[pc].shape, stack)
        /\ \/ call.pc # NoCaller /\ Back(code, notes, d, hs, es, call.pc, i, h, expdepth)
           \/ /\ call.pc = NoCaller /\ c = i /\ i \in DOMAIN d
              /\ d[i].id = code[pc].v.id /\ code[pc].v.argc = 0
              /\ h = hs[i] /\ expdepth = es[i]
  BY <1>3 DEF Pending
<1>5. /\ Starts(code, notes, pc) /\ notes[pc].sees \ {id} \subseteq Ids(d, c)
      /\ c \in ChainIn(d, i) \cup {-1} /\ Params(code, notes, d, values, i)
  BY <1>3 DEF Pending, MayRun, Arg
<1>6. /\ Blocks(code, d) /\ Descending(d) /\ Descending(Outs(d)) /\ i \in DOMAIN d \cup {-1} /\ offset \in Nat
      /\ Mark(code, d, forks, DOMAIN values, Now, Len(forks)) /\ Now.index = i /\ Now.limit = scopes.limit
      /\ Now.offset = offset
  BY <1>1 DEF Frames, Blocks, Mark, Now, Steady
<1>7. \A b \in ChainIn(d, i) : Frame(code, notes, d, hs, es, b) /\ b \in DOMAIN d /\ b \in Nat
  BY <1>1, <1>6, ChainsWithin, BlocksAre DEF Steady, Settled, Lives
<1>8. expdepth \in Nat
  BY DEF InOrder
\* The outer frame is one that was there, and what the function sees is found from it.
<1>9. /\ outer = c \/ (c \in ChainIn(d, i) /\ outer = d[c].outer /\ d[c].id = id)
      /\ c \in ChainIn(d, i) /\ d[c].id = id => outer = d[c].outer
  <2>1. c = -1 \/ c \in ChainIn(d, i)
    BY <1>5
  <2>2. c \in ChainIn(d, i) => c >= 0
    BY <1>7
  <2>3. outer = IF c >= 0 /\ d[c].id = id THEN d[c].outer ELSE c
    BY DEF OuterFrame
  <2> HIDE DEF outer, c, id, d, i
  <2> QED
    BY <2>1, <2>2, <2>3
<1>10. notes[pc].sees \ {id} \subseteq Ids(d, outer)
  <2>1. CASE outer = c
    BY <1>5, <2>1
  <2>2. CASE c \in ChainIn(d, i) /\ outer = d[c].outer /\ d[c].id = id
    <3>1. Ids(d, c) = {d[c].id} \cup Ids(d, d[c].outer)
      BY <1>6, <1>7, <2>2, IdsNew
    <3> QED
      BY <1>5, <2>2, <3>1
  <2> QED
    BY <1>9, <2>1, <2>2
<1>11. CASE ~Replacing
  <2>1. PushScope(call.pc, i, i, offset)
    BY <1>11 DEF Scope
  <2>2. Back(code, notes, d, hs, es, call.pc, i, h, expdepth)
    BY <1>4, <1>11 DEF Replacing
  <2>3. outer \in ChainIn(d, i) \cup {-1}
    <3>1. CASE outer = c
      BY <1>5, <3>1
    <3>2. CASE c \in ChainIn(d, i) /\ outer = d[c].outer
      <4>1. d[c].outer \in ChainIn(d, d[c].next) \cup {-1}
        BY <1>7, <3>2 DEF Frame
      <4>2. ChainIn(d, c) \subseteq ChainIn(d, i) /\ c \in DOMAIN d
        BY <1>6, <3>2, ChainWithin
      <4>3. ChainIn(d, d[c].next) \subseteq ChainIn(d, c)
        BY <1>6, <4>2, ChainsNext
      <4> QED
        BY <3>2, <4>1, <4>2, <4>3
    <3> QED
      BY <1>9, <3>1, <3>2
  <2> QED
    BY <1>1, <1>2, <1>4, <1>5, <1>6, <1>8, <1>10, <2>1, <2>2, <2>3, OrderPlaced
<1>12. CASE Replacing
  <2>1. call.pc = NoCaller /\ c = i
    BY <1>12 DEF Replacing
  <2>2. /\ i \in DOMAIN d /\ d[i].id = id /\ code[pc].v.argc = 0
        /\ h = hs[i] /\ expdepth = es[i]
    BY <1>4, <2>1 DEF Arg
  <2>3. /\ top.saveindex = top.next /\ top.next \in DOMAIN d \cup {-1}
        /\ ChainIn(d, i) = {i} \cup ChainIn(d, top.next)
    <3>1. top.next \in DOMAIN d \cup {-1} /\ ChainIn(d, i) = {i} \cup ChainIn(d, top.next)
      BY <1>6, <2>2, ChainsNext
    <3>2. top.saveindex = top.next
      BY <1>6, <2>2 DEF Blocks
    <3> QED
      BY <3>1, <3>2
  <2>4. PushScope(top.pc, top.next, top.next, Freed(i))
    BY <1>12, <2>3 DEF Scope
  <2>5. Freed(i) \in Nat
    BY <1>6, <2>2 DEF Freed, Blocks
  <2>6. Frame(code, notes, d, hs, es, i)
    BY <1>7, <2>3
  <2>7. Back(code, notes, d, hs, es, top.pc, top.next, h, expdepth)
    BY <2>2, <2>6 DEF Frame
  <2>8. outer = top.outer /\ outer \in ChainIn(d, top.next) \cup {-1}
    BY <1>9, <2>1, <2>2, <2>3, <2>6 DEF Frame
  <2>9. Fits(code, notes, d, top.next, h, notes[pc].shape, stack)
    <3> DEFINE a == code[pc].v.argc
    <3>1. /\ Len(notes[pc].shape) = a + 1
          /\ \A q \in 1 .. a + 1 : notes[pc].shape[q] = "closure" => q \in 1 .. a
      BY <1>3, <1>5, Entered
    <3>2. a = 0
      BY <2>2
    <3> HIDE DEF a
    <3>3. \A q \in 1 .. Len(notes[pc].shape) : notes[pc].shape[q] # "closure"
      BY <3>1, <3>2
    <3> QED
      BY <1>4, <3>3 DEF Fits
  <2>10. ChainIn(d, top.next) \subseteq ChainIn(d, i)
    BY <2>3
  <2> QED
    BY <1>1, <1>2, <1>5, <1>8, <1>10, <2>3, <2>4, <2>5, <2>7, <2>8, <2>9, <2>10, OrderPlaced
<1> QED
  BY <1>11, <1>12

-------------------------------------------------------------------------------
(* Returns.                                                                *)

\* Where a function returns, only its value is left of what it put on the stack.
LEMMA AtReturn ==
    ASSUME Flow, Frames, NEW hs, NEW es, Steady(hs, es), Stands(hs, es), code[pc].op = "ret", expdepth \in Nat
    PROVE  /\ scopes.index \in DOMAIN scopes.data /\ scopes.index \in Nat
           /\ scopes.data[scopes.index].saveindex = scopes.data[scopes.index].next
           /\ IsSeq(stack) /\ Len(stack) = hs[scopes.index] + 1
           /\ hs[scopes.index] \in Nat /\ expdepth = es[scopes.index]
           /\ Params(code, notes, scopes.data, values, scopes.data[scopes.index].next)
           /\ Back(code, notes, scopes.data, hs, es, scopes.data[scopes.index].pc, scopes.data[scopes.index].next,
                   hs[scopes.index], es[scopes.index])
           /\ ChainIn(scopes.data, scopes.data[scopes.index].next) \subseteq ChainIn(scopes.data, scopes.index)
           /\ scopes.data[scopes.index].next \in DOMAIN scopes.data \cup {-1}
<1> DEFINE d == scopes.data
           i == scopes.index
<1>1. Standing(code, notes, d, values, hs, es, pc, i, stack, expdepth) /\ Sound(code, notes) /\ Blocks(code, d)
  BY ProgramSound DEF Stands, Frames
<1>2. /\ Permitted(code, notes, pc)
      /\ Fits(code, notes, d, i, hs[i], notes[pc].shape, stack) /\ expdepth = es[i] + notes[pc].depth
  BY <1>1, StandsKnown
<1>3. notes[pc].shape = <<"value">> /\ notes[pc].depth = 0
  BY <1>2 DEF Permitted
<1>4. i \in DOMAIN d /\ i \in Nat /\ Params(code, notes, d, values, d[i].next)
  BY <1>1, BlocksAre DEF Standing, At, Inside
<1>5. /\ ChainIn(d, i) = {i} \cup ChainIn(d, d[i].next) /\ d[i].saveindex = d[i].next
      /\ d[i].next \in DOMAIN d \cup {-1}
  BY <1>1, <1>4, ChainsNext DEF Blocks
<1>6. Frame(code, notes, d, hs, es, i)
  BY <1>5 DEF Steady, Settled, Lives
<1>7. es[i] \in Nat /\ hs[i] \in Nat
  BY <1>4 DEF Steady
<1>8. Len(stack) = hs[i] + 1 /\ IsSeq(stack)
  BY <1>2, <1>3 DEF Fits
<1>9. expdepth = es[i]
  BY <1>2, <1>3, <1>7
<1> QED
  BY <1>4, <1>5, <1>6, <1>7, <1>8, <1>9 DEF Frame

\* The frames and forks are still settled when a frame is left.
LEMMA SteadyLeft ==
    ASSUME Frames, NEW hs, NEW es, Steady(hs, es), UNCHANGED <<prog, values, forks>>,
           NEW j, scopes' = [scopes EXCEPT !.index = j],
           ChainIn(scopes.data, j) \subseteq ChainIn(scopes.data, scopes.index)
    PROVE  Steady(hs, es)' /\ scopes'.data = scopes.data /\ scopes'.index = j
<1>1. scopes'.data = scopes.data /\ scopes'.index = j
  BY Parts
<1>2. code' = code /\ notes' = notes
  BY SameNotes
<1>3. Lives(scopes.data, j, forks) \subseteq Lives(scopes.data, scopes.index, forks)
  BY DEF Lives
<1>4. Settled(code, notes, scopes.data, values, hs, es, j, forks)
  BY <1>3 DEF Steady, Settled
<1> QED
  BY <1>1, <1>2, <1>4 DEF Steady

LEMMA OrderReturn ==
    ASSUME Flow, Frames, InOrder, Return
    PROVE  InOrder'
<1>1. PICK hs, es : Steady(hs, es) /\ (Passing \/ Stands(hs, es) \/ Called(hs, es))
  BY DEF InOrder
<1> DEFINE d == scopes.data
           i == scopes.index
           j == d[i].next
           p == d[i].pc + 1
<1>2. /\ code[pc].op = "ret" /\ ~backtrack /\ d[i].saveindex >= 0
      /\ scopes' = [scopes EXCEPT !.index = d[i].saveindex]
      /\ UNCHANGED <<prog, values, forks>> /\ stack' = stack /\ pc' = p /\ expdepth' = expdepth
  BY DEF Return, Doing, Continue, control
<1>3. Stands(hs, es) /\ expdepth \in Nat
  BY <1>1, <1>2, StandsAt DEF InOrder
<1>4. /\ i \in DOMAIN d /\ d[i].saveindex = j
      /\ IsSeq(stack) /\ Len(stack) = hs[i] + 1 /\ hs[i] \in Nat /\ expdepth = es[i]
      /\ Params(code, notes, d, values, j)
      /\ Back(code, notes, d, hs, es, d[i].pc, j, hs[i], es[i])
      /\ ChainIn(d, j) \subseteq ChainIn(d, i)
  BY <1>1, <1>2, <1>3, AtReturn
<1>5. j # -1
  BY <1>2, <1>4
<1>6. /\ Inside(code, notes, d, j, p) /\ notes[p].set = ArgsOf(code, notes[p].home)
      /\ ClosuresAt(notes[p].shape, {})
      /\ hs[i] + 1 = hs[j] + Len(notes[p].shape) /\ es[i] = es[j] + notes[p].depth
  BY <1>4, <1>5 DEF Back
<1>7. Steady(hs, es)' /\ scopes'.data = d /\ scopes'.index = j
  BY <1>1, <1>2, <1>4, SteadyLeft
<1> HIDE DEF d, i, j, p
<1>8. j \in DOMAIN d /\ d[j].id = notes[p].home /\ p \in DOMAIN code
  BY <1>6 DEF Inside
<1>9. Blocks(code, d) /\ j \in Nat
  BY <1>8, BlocksAre DEF Frames, d
<1>10. ChainIn(d, j) = {j} \cup ChainIn(d, d[j].next)
  BY <1>8, <1>9, ChainsNext
<1>11. hs[j] \in Nat
  BY <1>1, <1>9 DEF Steady
<1>12. Fits(code, notes, d, j, hs[j], notes[p].shape, stack)
  BY <1>4, <1>6, <1>11 DEF Fits, ClosuresAt
<1>13. Standing(code, notes, d, values, hs, es, p, j, stack, expdepth)
  BY <1>4, <1>6, <1>8, <1>10, <1>12 DEF Standing, At, Params
<1>14. Stands(hs, es)'
  <2>1. code' = code /\ notes' = notes
    BY <1>2, SameNotes
  <2>2. Standing(code', notes', scopes'.data, values', hs, es, pc', scopes'.index, stack', expdepth')
    BY <1>2, <1>7, <1>13, <2>1
  <2> QED
    BY <2>2 DEF Stands
<1> QED
  BY <1>2, <1>3, <1>4, <1>7, <1>8, <1>14, SameNotes DEF InOrder

\* At the end of the program nothing is left.
LEMMA OrderOutput ==
    ASSUME Flow, Frames, InOrder, Output
    PROVE  InOrder' /\ stack' = <<>> /\ scopes'.index = -1 /\ expdepth' = 0
<1>1. PICK hs, es : Steady(hs, es) /\ (Passing \/ Stands(hs, es) \/ Called(hs, es))
  BY DEF InOrder
<1> DEFINE d == scopes.data
           i == scopes.index
           j == d[i].next
<1>2. /\ code[pc].op = "ret" /\ ~backtrack /\ d[i].saveindex < 0
      /\ scopes' = [scopes EXCEPT !.index = d[i].saveindex]
      /\ UNCHANGED <<prog, values, forks>> /\ stack' = Rest /\ pc' = d[i].pc /\ expdepth' = expdepth
      /\ backtrack' = TRUE
  BY DEF Output, Doing
<1>3. Stands(hs, es) /\ expdepth \in Nat
  BY <1>1, <1>2, StandsAt DEF InOrder
<1>4. /\ i \in DOMAIN d /\ d[i].saveindex = j
      /\ IsSeq(stack) /\ Len(stack) = hs[i] + 1 /\ hs[i] \in Nat /\ expdepth = es[i]
      /\ Back(code, notes, d, hs, es, d[i].pc, j, hs[i], es[i])
      /\ ChainIn(d, j) \subseteq ChainIn(d, i) /\ j \in DOMAIN d \cup {-1}
  BY <1>1, <1>2, <1>3, AtReturn
<1>5. DOMAIN d \subseteq Nat
  BY BlocksAre DEF Frames
<1>6. j = -1
  <2> HIDE DEF d, i, j
  <2> QED
    BY <1>2, <1>4, <1>5
<1>7. d[i].pc = Len(code) /\ hs[i] = 0 /\ es[i] = 0
  BY <1>4, <1>5, <1>6 DEF Back, Inside
<1>8. Steady(hs, es)' /\ scopes'.index = -1
  BY <1>1, <1>2, <1>4, <1>6, SteadyLeft
<1>9. stack' = <<>>
  <2>1. PICK S : stack \in Seq(S)
    BY <1>4 DEF IsSeq
  <2>2. Len(stack) = 1
    BY <1>4, <1>7
  <2>3. SubSeq(stack, 1, 0) = <<>>
    BY <2>1
  <2>4. Len(stack) - 1 = 0
    BY <2>2
  <2> QED
    BY <1>2, <2>3, <2>4 DEF Rest
<1>10. Passing' /\ pc' \in DOMAIN code'
  <2>1. Sound(code, notes) /\ code' = code
    BY <1>2, ProgramSound, SameNotes
  <2>2. code[Len(code)].op = "ret" /\ 1 \in DOMAIN code /\ DOMAIN code = 1 .. Len(code)
    BY <2>1 DEF Sound, Agree, Starts, IsScope
  <2>3. Len(code) \in DOMAIN code
    BY <2>2
  <2> QED
    BY <1>2, <1>7, <2>1, <2>2, <2>3 DEF Passing
<1>11. IsSeq(stack')
  BY <1>9 DEF IsSeq
<1> QED
  BY <1>2, <1>3, <1>4, <1>7, <1>8, <1>9, <1>10, <1>11 DEF InOrder

-------------------------------------------------------------------------------
(* InOrder is an invariant, and what it says of Machine's own words.       *)

LEMMA OrderInit ==
    ASSUME Init, Flow, Frames
    PROVE  InOrder
<1> DEFINE zero == [b \in Int |-> 0]
           d == scopes.data
<1>1. /\ pc = 1 /\ stack = <<prog.input>> /\ d = <<>> /\ scopes.index = -1 /\ forks = <<>>
      /\ expdepth = 0 /\ call.pc = Len(code) /\ call.index = -1
  BY DEF Init, Caller
<1>2. Sound(code, notes)
  BY ProgramSound
<1>3. Starts(code, notes, 1) /\ code[1].v.argc = 0 /\ notes[1].sees = {code[1].v.id} /\ DOMAIN code = 1 .. Len(code)
  BY <1>2 DEF Sound, Agree
<1>4. 1 \in DOMAIN code /\ Len(code) # NoCaller
  BY <1>3 DEF Starts, IsScope, NoCaller
<1>5. Descending(d) /\ Descending(Outs(d))
  <2>1. DOMAIN d = 0 .. 0 - 1 /\ DOMAIN Outs(d) = 0 .. 0 - 1
    BY <1>1, OutsAre
  <2> QED
    BY <2>1 DEF Descending
<1>6. ChainIn(d, -1) = {}
  BY <1>5, ChainInFacts
<1>7. Lives(d, -1, forks) = {} /\ \A k \in 1 .. Len(forks) : FALSE
  BY <1>1, <1>6 DEF Lives
<1>8. Settled(code, notes, d, values, zero, zero, -1, forks)
  BY <1>7 DEF Settled
<1>9. Steady(zero, zero)
  BY <1>1, <1>5, <1>8 DEF Steady
<1>10. Len(notes[1].shape) = 1 /\ notes[1].shape[1] # "closure"
  <2> DEFINE a == code[1].v.argc
  <2>0. Starts(code, notes, 1)
    BY <1>3
  <2>1. /\ Len(notes[1].shape) = a + 1
        /\ \A q \in 1 .. a + 1 : notes[1].shape[q] = "closure" => q \in 1 .. a
    BY <1>2, <2>0, Entered
  <2>2. a = 0
    BY <1>3
  <2> HIDE DEF a
  <2> QED
    BY <2>1, <2>2
<1>11. IsSeq(stack) /\ Len(stack) = 1
  <2>1. stack \in Seq({prog.input})
    BY <1>1
  <2> QED
    BY <1>1, <2>1 DEF IsSeq
<1>12. Fits(code, notes, d, -1, 0, notes[1].shape, stack)
  BY <1>10, <1>11 DEF Fits
<1>13. MayRun(code, notes, d, 1, -1) /\ Params(code, notes, d, values, -1)
  BY <1>3, <1>6 DEF MayRun, Params
<1>14. Back(code, notes, d, zero, zero, Len(code), -1, 0, 0)
  BY DEF Back
<1>15. Called(zero, zero)
  BY <1>1, <1>4, <1>12, <1>13, <1>14 DEF Called, Pending
<1> HIDE DEF zero
<1> QED
  BY <1>1, <1>4, <1>9, <1>11, <1>15 DEF InOrder

\* An interpreter that is in order has its code in order.
LEMMA OrderGood ==
    ASSUME Flow, Frames, InOrder
    PROVE  WellCoded
<1>1. PICK hs, es : Steady(hs, es) /\ (Passing \/ Stands(hs, es) \/ Called(hs, es))
  BY DEF InOrder
<1>2. pc \in DOMAIN code /\ expdepth \in Nat
  BY DEF InOrder
<1>3. ASSUME code[pc].op = "callrec" \/ (code[pc].op = "ret" /\ ~backtrack)
      PROVE  scopes.index # -1
  <2>1. Stands(hs, es)
    BY <1>1, <1>3, StandsAt DEF Raising
  <2>2. scopes.index \in DOMAIN scopes.data
    BY <2>1 DEF Stands, Standing, At, Inside
  <2>3. DOMAIN scopes.data \subseteq Nat
    BY BlocksAre DEF Frames
  <2> QED
    BY <2>2, <2>3
<1> QED
  BY <1>2, <1>3 DEF WellCoded

LEMMA OrderNext ==
    ASSUME Flow, Frames, InOrder, [Next]_vars
    PROVE  InOrder'
<1>1. CASE UNCHANGED vars
  BY <1>1, SameNotes DEF vars, control, frames, InOrder, Steady, Passing, Stands, Called
<1>2. CASE Nop \/ Push \/ Pop \/ Dup \/ Replace \/ Load \/ PushClosure
  BY <1>2, OrderValues
<1>3. CASE Store \/ AppendTo \/ PlaceLabel
  BY <1>3, OrderWrites
<1>4. CASE IndexAt \/ IndexArray \/ CallNative
  BY <1>4, OrderResults
<1>5. CASE ExpBegin \/ ExpEnd
  BY <1>5, OrderExpressions
<1>6. CASE Jump \/ JumpIfNot \/ BackAtFork \/ BackAtTryBegin \/ BackAtAlternative
  BY <1>6, OrderBranches
<1>7. CASE Backtrack \/ BackAtTryEnd \/ BackAtLabel \/ BackAtReturn
  BY <1>7, OrderErrors
<1>8. CASE PlaceFork \/ Each
  BY <1>8, OrderForks
<1>9. CASE CallFunction \/ CallAsLast \/ CallClosure
  BY <1>9, OrderCalls
<1>10. CASE Scope
  BY <1>10, OrderGood, OrderEnter
<1>11. CASE Return
  BY <1>11, OrderReturn
<1>12. CASE Output
  BY <1>12, OrderOutput
<1> QED
  BY <1>1, <1>2, <1>3, <1>4, <1>5, <1>6, <1>7, <1>8, <1>9, <1>10, <1>11, <1>12 DEF Next

\* Only the end of the program gives a value.
LEMMA OutputOnly ==
    ASSUME [Next]_vars, out' # out
    PROVE  Output
<1>1. CASE UNCHANGED vars
  BY <1>1 DEF vars, control
<1>2. \A e : Raise(e) => out' = out
  BY DEF Raise, Unwind, End, control
<1>3. \A s, i : Step(s, i) \/ Resume(s, i) \/ Continue(s, i) => out' = out
  BY DEF Step, Resume, Continue, control
<1>4. \A r, s : Deliver(r, s) => out' = out
  BY <1>2, <1>3 DEF Deliver
<1>5. CASE Nop \/ Push \/ Pop \/ Dup \/ Replace \/ Load \/ Store \/ AppendTo
  BY <1>3, <1>5 DEF Nop, Push, Pop, Dup, Replace, Load, Store, AppendTo, Assign
<1>6. CASE IndexAt \/ IndexArray \/ CallNative \/ ExpBegin \/ ExpEnd
  BY <1>3, <1>4, <1>6 DEF IndexAt, IndexArray, CallNative, ExpBegin, ExpEnd, Expression
<1>7. CASE Jump \/ JumpIfNot \/ Backtrack \/ PlaceFork \/ BackAtFork
  BY <1>2, <1>3, <1>7 DEF Jump, JumpIfNot, Backtrack, PlaceFork, BackAtFork
<1>8. CASE BackAtTryBegin \/ BackAtTryEnd \/ BackAtAlternative \/ PlaceLabel \/ BackAtLabel \/ Each
  BY <1>2, <1>3, <1>8 DEF BackAtTryBegin, BackAtTryEnd, BackAtAlternative, PlaceLabel, BackAtLabel, Each, Iterate
<1>9. CASE CallFunction \/ CallAsLast \/ PushClosure \/ CallClosure
  BY <1>3, <1>9 DEF CallFunction, CallAsLast, PushClosure, CallClosure, Enter, control
<1>10. CASE Scope \/ Return \/ BackAtReturn
  BY <1>2, <1>3, <1>10 DEF Scope, PushScope, Return, BackAtReturn
<1> QED
  BY <1>1, <1>5, <1>6, <1>7, <1>8, <1>9, <1>10 DEF Next

Inv == Flow /\ Frames /\ InOrder

LEMMA InvInit == Init => Inv
BY FlowInit, FramesInit, OrderInit DEF Inv

LEMMA InvNext == Inv /\ [Next]_vars => Inv'
BY OrderGood, FlowStep, FramesStep, OrderNext DEF Inv

LEMMA InvHolds == Spec => []Inv
BY InvInit, InvNext, PTL DEF Spec

-------------------------------------------------------------------------------
\* That frames share no variable takes less: that the interpreter finds its code in order at each step.
LEMMA ApartWhenWellCoded == Spec /\ []WellCoded => []FramesApart
<1>1. Init => Flow /\ Frames
  BY FlowInit, FramesInit
<1>2. Flow /\ Frames /\ WellCoded /\ [Next]_vars => (Flow /\ Frames)'
  BY FlowStep, FramesStep
<1>3. Flow /\ Frames /\ WellCoded => FramesApart
  BY FramesKeepApart
<1> QED
  BY <1>1, <1>2, <1>3, PTL DEF Spec

(* Frames that can still be run in share no variable, for every program    *)
(* that is laid out as the compiler does it: in whatever order calls,      *)
(* returns, tail calls and forks follow one another, popscope frees no     *)
(* variable that is still in use.                                          *)
THEOREM FramesApartHolds == Spec => []FramesApart
<1>1. Inv => WellCoded
  BY OrderGood DEF Inv
<1> QED
  BY <1>1, InvHolds, ApartWhenWellCoded, PTL

(* The frame in which a function finds the variables around it is never    *)
(* one that was returned from: the outer index that opscope of execute.go  *)
(* works out leads to a frame below the function's own.                    *)
THEOREM OuterFramesLiveHolds == Spec => []OuterFramesLive
<1>1. ASSUME Inv PROVE OuterFramesLive
  <2> SUFFICES ASSUME NEW b \in Live
               PROVE  scopes.data[b].outer \in Chain(scopes.data[b].next) \cup {-1}
    BY DEF OuterFramesLive
  <2>1. PICK hs, es : Steady(hs, es)
    BY <1>1 DEF Inv, InOrder
  <2>2. Frame(code, notes, scopes.data, hs, es, b)
    BY <1>1, <2>1, LiveIs DEF Inv, Steady, Settled
  <2> QED
    BY <2>2, ChainIs DEF Frame
<1>2. Inv => OuterFramesLive
  BY <1>1
<1> QED
  BY <1>2, InvHolds, PTL

(* When Next returns a value, the program has taken from the stack all it  *)
(* has put there, left every frame and ended every expression: whatever    *)
(* forks were taken and errors handled on the way.                         *)
THEOREM NothingLeftBehindHolds == Spec => NothingLeftBehind
<1>1. Inv /\ [Next]_vars => [out' # out => stack' = <<>> /\ scopes'.index = -1 /\ expdepth' = 0]_vars
  BY OutputOnly, OrderOutput DEF Inv
<1> QED
  BY <1>1, InvHolds, PTL DEF Spec, NothingLeftBehind
===============================================================================
