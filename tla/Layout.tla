-------------------------------- MODULE Layout --------------------------------
(***************************************************************************)
(* What the compiler owes the interpreter, stated of the instructions      *)
(* alone: whoever is at an instruction, by whatever way, knows the frame   *)
(* the program is in, what the function has on the stack, how many         *)
(* expressions it is in, and how many of its parameters it has stored.     *)
(* This is what a verifier of the code would find out by going through it  *)
(* once; the interpreter asks none of it while it runs.                    *)
(***************************************************************************)
EXTENDS Machine

\* What is known at an instruction: home is the number of the scope around it, sees those of
\* the functions around it, that one included; shape tells the closures from the values that
\* the function has put on the stack, depth counts its expressions and set the parameters.
Note(home, sees, shape, depth, set) ==
    [home |-> home, sees |-> sees, shape |-> shape, depth |-> depth, set |-> set]

\* Of an instruction that no way leads to.
Unreached == Note(-1, {}, <<>>, 0, 0)

IsScope(cs, i)  == i \in DOMAIN cs /\ cs[i].op = "scope"
ScopeOf(cs, id) == CHOOSE i \in DOMAIN cs : cs[i].op = "scope" /\ cs[i].v.id = id
ArgsOf(cs, id)  == cs[ScopeOf(cs, id)].v.argc
VarsOf(cs, id)  == cs[ScopeOf(cs, id)].v.vars

\* A variable is a parameter: the first of a function with parameters is its input.
Passed(cs, v) == v[2] \in 1 .. ArgsOf(cs, v[1])

-------------------------------------------------------------------------------
(* What an instruction does to what is known.                              *)

Shaped(n, shape) == Note(n.home, n.sees, shape, n.depth, n.set)
Pushed(n, tag)   == Shaped(n, Append(n.shape, tag))
Popped(n, k)     == Shaped(n, SubSeq(n.shape, 1, Len(n.shape) - k))
Put1(n, k)       == Pushed(Popped(n, k), "value")
Deeper(n, d)     == Note(n.home, n.sees, n.shape, n.depth + d, n.set)
Stored(n, set)   == Note(n.home, n.sees, n.shape, n.depth, set)

\* At the scope instruction i of a function: its arguments are closures, its input is on top.
Entry(cs, ns, i) ==
    LET v == cs[i].v
    IN  Note(v.id, {v.id} \cup (IF i = 1 THEN {} ELSE ns[i - 1].sees),
             [q \in 1 .. v.argc + 1 |-> IF q <= v.argc THEN "closure" ELSE "value"], 0, 0)

Ends     == {"jump", "callrec", "ret", "backtrack"}
Branches == {"jump", "jumpifnot", "fork", "forktrybegin", "forkalt"}

\* How many elements the instruction takes from the stack, or looks at.
Takes(cs, i) ==
    CASE cs[i].op \in {"dup", "pop", "store", "append", "jumpifnot", "const", "index", "indexarray", "iter",
                       "forktrybegin"} -> 1
      [] cs[i].op = "native" -> cs[i].v[2] + 1
      [] cs[i].op = "call" -> cs[cs[i].v].v.argc + 1
      [] cs[i].op = "callpc" -> 2
      [] OTHER -> 0

\* What is known at the next instruction, when n is at i.
Following(cs, i, n) ==
    LET v == cs[i].v
    IN  CASE cs[i].op \in {"push", "dup"} -> Pushed(n, "value")
          [] cs[i].op = "load" -> Pushed(n, IF Passed(cs, v) THEN "closure" ELSE "value")
          [] cs[i].op = "pushpc" -> Pushed(n, "closure")
          [] cs[i].op \in {"pop", "append", "jumpifnot"} -> Popped(n, 1)
          [] cs[i].op = "store" -> Stored(Popped(n, 1), IF Passed(cs, v) THEN v[2] ELSE n.set)
          [] cs[i].op \in {"const", "index", "indexarray", "iter", "native", "call", "callpc"} ->
                Put1(n, Takes(cs, i))
          [] cs[i].op = "expbegin" -> Deeper(n, 1)
          [] cs[i].op = "expend" -> Deeper(n, -1)
          [] OTHER -> n

\* And where it branches to.
Branching(cs, i, n) == IF cs[i].op = "jumpifnot" THEN Popped(n, 1) ELSE n

\* Instruction i is reached from the one before it, or else from one that branches to it.
Inferred(cs, ns, i) ==
    LET before == i > 1 /\ ns[i - 1] # Unreached
        from   == {k \in 1 .. i - 1 : cs[k].op \in Branches /\ cs[k].v = i /\ ns[k] # Unreached}
        source == CHOOSE k \in from : TRUE
    IN  CASE cs[i].op = "scope" /\ (i = 1 \/ before) -> Entry(cs, ns, i)
          [] cs[i].op # "scope" /\ before /\ cs[i - 1].op \notin Ends -> Following(cs, i - 1, ns[i - 1])
          [] cs[i].op # "scope" /\ ~(before /\ cs[i - 1].op \notin Ends) /\ from # {} ->
                Branching(cs, source, ns[source])
          [] OTHER -> Unreached

\* From the first instruction to the last.
Notes(cs) ==
    LET notes[i \in 0 .. Len(cs)] ==
            IF i = 0 THEN <<>> ELSE LET ns == notes[i - 1] IN Append(ns, Inferred(cs, ns, i))
    IN  notes[Len(cs)]

-------------------------------------------------------------------------------
(* What an instruction may rely on.                                        *)

Saves     == {"fork", "forktrybegin", "forktryend", "forkalt", "forklabel", "iter"}
Variables == {"load", "store", "append", "forklabel"}

\* Of the elements of shape, those with a place in P are closures.
ClosuresAt(shape, P) == \A q \in 1 .. Len(shape) : (shape[q] = "closure") <=> (q \in P)

\* A function starts at p.
Starts(cs, ns, p) == IsScope(cs, p) /\ ns[p] # Unreached

\* The function at p may be called, or made a closure of, where n is known.
Callable(cs, ns, n, p) == Starts(cs, ns, p) /\ ns[p].sees \ {cs[p].v.id} \subseteq n.sees

Permitted(cs, ns, i) ==
    LET n   == ns[i]
        op  == cs[i].op
        v   == cs[i].v
        top == Len(n.shape)
    IN  /\ Takes(cs, i) \in 0 .. top
        /\ op \notin {"scope", "store"} => n.set = ArgsOf(cs, n.home)
        /\ op = "scope" => n = Entry(cs, ns, i)
        /\ op = "native" => v[2] \in Nat
        /\ op \in Saves => ClosuresAt(n.shape, {})
        /\ op \in Variables => v[1] \in n.sees /\ v[2] \in 0 .. VarsOf(cs, v[1]) - 1
        /\ op \in Variables \ {"load"} /\ Passed(cs, v) =>
              op = "store" /\ v[1] = n.home /\ v[2] = n.set + 1 /\ n.shape[top] = "closure"
        /\ op \in {"call", "callrec", "pushpc"} => Callable(cs, ns, n, v)
        /\ op \in {"callrec", "pushpc"} => cs[v].v.argc = 0
        /\ op = "call" => ClosuresAt(n.shape, top - cs[v].v.argc .. top - 1)
        /\ op = "callpc" => ClosuresAt(n.shape, {top})
        /\ op \in {"callrec", "ret"} => n.shape = <<"value">> /\ n.depth = 0
        /\ op = "callrec" => cs[v].v.id = n.home
        /\ op = "expend" => n.depth > 0

\* One may go on at instruction j, knowing n.
Leads(cs, ns, j, n) == j \in DOMAIN cs /\ cs[j].op # "scope" /\ ns[j] # Unreached /\ ns[j] = n

\* What the notes say of the instructions, and of each other.
Agree(cs, ns) ==
    /\ Starts(cs, ns, 1) /\ cs[1].v.argc = 0 /\ ns[1].sees = {cs[1].v.id}
    /\ cs[Len(cs)].op = "ret"
    /\ \A i \in DOMAIN cs : cs[i].op = "scope" =>
          cs[i].v.argc \in Nat /\ (cs[i].v.argc = 0 \/ cs[i].v.argc < cs[i].v.vars)
    /\ \A i \in DOMAIN cs : ns[i] # Unreached =>
          /\ LET scope == ScopeOf(cs, ns[i].home)
             IN  Starts(cs, ns, scope) /\ cs[scope].v.id = ns[i].home /\ ns[i].sees = ns[scope].sees
          /\ ns[i].shape \in Seq({"value", "closure"})
          /\ ns[i].depth \in Nat
          /\ ns[i].set \in 0 .. ArgsOf(cs, ns[i].home)
          /\ Permitted(cs, ns, i)
          /\ cs[i].op \notin Ends => Leads(cs, ns, i + 1, Following(cs, i, ns[i]))
          /\ cs[i].op \in Branches => Leads(cs, ns, cs[i].v, Branching(cs, i, ns[i]))

LaidOut(cs) == Agree(cs, Notes(cs))

\* The compiler lays out programs like this (newScope, compileFuncDef and compileCall in compiler.go), as long as its
\* last optimization fuses no instruction that a jump goes to with the one before it.
ASSUME LayoutAssumption == \A p \in Programs : LaidOut(p.codes)
===============================================================================
