------------------------------- MODULE Compiler -------------------------------
(***************************************************************************)
(* The compiler of queries to instructions (compiler.go), with its         *)
(* optimizations.  The state of a compilation is threaded through the      *)
(* operators as a record:                                                  *)
(*   codes    - the instructions so far, [op, v];                          *)
(*   scopes   - the scopes open at this point, the innermost last, each    *)
(*              [id, depth, vars, funcs, cnt];                             *)
(*   scopecnt - the scopes created so far.                                 *)
(* Instructions are numbered from 1.  A variable is <<id of its scope, its *)
(* index there>>.  Native functions are instructions of their own, native, *)
(* where the code tells them from a call by the type of v.                 *)
(***************************************************************************)
EXTENDS Terms, SequencesExt

Here(c) == Len(c.codes) + 1

\* An instruction, and one whose operand does not matter.
Code(op, v) == [op |-> op, v |-> v]
Do(op)      == Code(op, 0)

EmitAll(c, is) == [c EXCEPT !.codes = @ \o is]
Emit(c, op, v) == EmitAll(c, <<Code(op, v)>>)

\* lazy: leave room for an instruction, and write it when its target is known.
Reserve(c)          == Emit(c, "nop", 0)
Patch(c, i, op, v)  == [c EXCEPT !.codes[i] = Code(op, v)]
PatchHere(c, i, op) == Patch(c, i, op, Here(c))

\* Drop the instructions from i on.
Truncate(c, i) == [c EXCEPT !.codes = SubSeq(@, 1, i - 1)]

Op(c, i) == IF i \in DOMAIN c.codes THEN c.codes[i].op ELSE "none"

-------------------------------------------------------------------------------
(* Scopes.                                                                 *)

Innermost(c) == c.scopes[Len(c.scopes)]

NewScope(c) ==
    [c EXCEPT !.scopes = Append(@, [id |-> c.scopecnt, depth |-> 0, vars |-> <<>>,
                                    funcs |-> <<>>, cnt |-> 0]),
              !.scopecnt = @ + 1]

\* newScopeDepth: names declared in between are forgotten, slots are not.
Open(c) == [c EXCEPT !.scopes[Len(c.scopes)].depth = @ + 1]

Close(c, before) ==
    LET n == Len(c.scopes)
    IN  [c EXCEPT !.scopes[n].depth = @ - 1,
                  !.scopes[n].vars = SubSeq(@, 1, Len(before.scopes[n].vars)),
                  !.scopes[n].funcs = SubSeq(@, 1, Len(before.scopes[n].funcs))]

\* The variable that is created next.
Fresh(c) == <<Innermost(c).id, Innermost(c).cnt>>

Create(c, name) ==
    LET n == Len(c.scopes)
    IN  [c EXCEPT !.scopes[n].cnt = @ + 1,
                  !.scopes[n].vars =
                      Append(@, [name |-> name, var |-> Fresh(c), depth |-> Innermost(c).depth])]

NoName == ""

\* pushVariable reuses the variable of that name at the same depth.
SameDepth(c, name) ==
    {k \in DOMAIN Innermost(c).vars :
        /\ Innermost(c).vars[k].name = name
        /\ Innermost(c).vars[k].depth = Innermost(c).depth}

Declared(c, name) ==
    IF SameDepth(c, name) = {} THEN Fresh(c) ELSE Innermost(c).vars[Min(SameDepth(c, name))].var

Declare(c, name) == IF SameDepth(c, name) = {} THEN Create(c, name) ELSE c

\* Declare a variable and store the top of the stack there.
StoreNamed(c, name) == Emit(Declare(c, name), "store", Declared(c, name))
StoreNew(c)         == Emit(Create(c, NoName), "store", Fresh(c))

\* The last entry of a list of declarations that has that name and arity.
Matching(entries, name, argc) ==
    {k \in DOMAIN entries : entries[k].name = name /\ entries[k].argc = argc}

FuncScopes(c, name, argc) ==
    {s \in DOMAIN c.scopes : Matching(c.scopes[s].funcs, name, argc) # {}}
VarScopes(c, name) ==
    {s \in DOMAIN c.scopes : \E v \in Range(c.scopes[s].vars) : v.name = name}

FuncPc(c, name, argc) ==
    LET funcs == c.scopes[Max(FuncScopes(c, name, argc))].funcs
    IN  funcs[Max(Matching(funcs, name, argc))].pc

\* lookupVariable.
Lookup(c, name) ==
    LET vars == c.scopes[Max(VarScopes(c, name))].vars
    IN  vars[Max({k \in DOMAIN vars : vars[k].name = name})].var

\* lookupFuncOrVariable: from the innermost scope out, functions before variables.
IsParameter(c, name) ==
    /\ VarScopes(c, name) # {}
    /\ \A s \in FuncScopes(c, name, 0) : s < Max(VarScopes(c, name))

-------------------------------------------------------------------------------
(* Optimizations of what was just compiled.                                *)

\* compileArray: fork * l, const, (jump, const) * (l - 1), append, backtrack, pop, load
\* from pc on, after push and store, is a constant array.
ConstantArray(c, pc) ==
    LET n == Here(c) - pc
        l == (n - 3) \div 3
    IN  /\ n % 3 = 0
        /\ \A i \in 0 .. l - 1 :
              /\ Op(c, pc + i) = "fork"
              /\ Op(c, pc + 2*i + l) = "const"
              /\ i < l - 1 => Op(c, pc + 2*i + l + 1) = "jump"

OptimizeArray(c, pc) ==
    LET l == (Here(c) - pc - 3) \div 3
        v == Arr([i \in 1..l |-> c.codes[pc + 2*(i-1) + l].v])
    IN  IF ConstantArray(c, pc) THEN Emit(Truncate(c, pc - 2), "const", v) ELSE c

\* compileIf: both branches, from the conditional jump at pcc on, are constants.
ConstantBranches(c, pcc) ==
    /\ Here(c) = pcc + 4
    /\ Op(c, pcc + 1) = "const"
    /\ Op(c, pcc + 3) = "const"

OptimizeBranches(c, dup, pcc) ==
    IF ~ConstantBranches(c, pcc) THEN c
    ELSE [c EXCEPT !.codes[dup].op = "nop", !.codes[pcc + 1].op = "push", !.codes[pcc + 3].op = "push"]

\* compileCallInternal: the argument of a native function, compiled as a function
\* from pc on (after a jump), needs no call when it is one instruction or none.
InlineArgument(c, pc, v) ==
    LET n == Here(c) - pc
    IN  CASE n = 2 -> Emit(Truncate(c, pc - 1), "load", v)
          [] n = 3 /\ Op(c, pc + 1) = "const" ->
                 Emit(Truncate(c, pc - 1), "push", c.codes[pc + 1].v)
          [] n = 3 /\ Op(c, pc + 1) # "const" ->
                 Emit(Emit(Truncate(c, pc - 1), "load", v), Op(c, pc + 1), c.codes[pc + 1].v)
          [] OTHER -> EmitAll(c, <<Code("load", v), Code("pushpc", pc), Do("callpc")>>)

-------------------------------------------------------------------------------
RECURSIVE CompileQuery(_, _), CompilePattern(_, _, _), CompilePatterns(_, _, _, _), CompileArgs(_, _, _, _)

\* A query within a scope depth of its own.
Scoped(c, q) == Close(CompileQuery(Open(c), q), c)

CompileComma(c, l, r) ==
    LET left == CompileQuery(Reserve(c), l)
    IN  PatchHere(CompileQuery(PatchHere(Reserve(left), Here(c), "fork"), r), Here(left), "jump")

\* Values of the left operand that are null or false are dropped; found tells whether
\* there was another one.
KeepTruthy(c, found) ==
    EmitAll(c, <<Do("dup"), Code("jumpifnot", Here(c) + 5), Code("push", Bool(TRUE)), Code("store", found),
                 Do("nop"), Do("pop"), Do("backtrack")>>)

UnlessFound(c, found) ==
    EmitAll(c, <<Code("load", found), Code("jumpifnot", Here(c) + 4), Do("backtrack"), Do("pop")>>)

CompileAlt(c, l, r) ==
    LET found == Fresh(c)
        start == StoreNew(Emit(c, "push", Bool(FALSE)))
        left  == CompileQuery(Reserve(start), l)
        none  == PatchHere(KeepTruthy(left, found), Here(start), "fork")
    IN  PatchHere(CompileQuery(UnlessFound(none, found), r), Here(left) + 4, "jump")

\* What began at pc compiled to nothing: its expbegin goes too.
EndCondition(c, pc) == IF Here(c) = pc THEN Truncate(c, pc - 1) ELSE Emit(c, "expend", 0)

CompileIf(c, q) ==
    LET begin == EmitAll(c, <<Do("dup"), Do("expbegin")>>)
        test  == EndCondition(Scoped(begin, q.cond), Here(c) + 2)
        then  == Scoped(Reserve(test), q.then)
        else  == Scoped(PatchHere(Reserve(then), Here(test), "jumpifnot"), q.else)
    IN  PatchHere(OptimizeBranches(else, Here(c), Here(test)), Here(then), "jump")

\* Without a catch, the handler is a backtrack: that of catch empty.
CompileTry(c, q) ==
    LET body == Emit(Scoped(Reserve(c), q.body), "forktryend", 0)
    IN  PatchHere(Scoped(PatchHere(Reserve(body), Here(c), "forktrybegin"), q.catch), Here(body), "jump")

\* A loop over the values of what was compiled after the fork at instruction i: each
\* ends with the instruction do and backtracks, then the result is in v.
Loop(c, i, do, v) ==
    EmitAll(PatchHere(EmitAll(c, <<Code(do, v), Do("backtrack")>>), i, "fork"), <<Do("pop"), Code("load", v)>>)

CompileArray(c, q) ==
    LET start == StoreNew(Emit(c, "push", Arr(<<>>)))
        all   == Loop(CompileQuery(Open(Reserve(start)), q.query), Here(c) + 2, "append", Fresh(c))
    IN  Close(IF q.query.type \in {"pipe", "bind"} THEN all ELSE OptimizeArray(all, Here(c) + 2), start)

EndPatterns(c, single) ==
    IF single /\ Op(c, Here(c) - 2) = "expbegin" THEN Patch(c, Here(c) - 2, "nop", 0) ELSE Emit(c, "expend", 0)

CompileBind(c, q) ==
    LET left  == CompileQuery(EmitAll(Open(c), <<Do("dup"), Do("expbegin")>>), q.left)
        bound == EndPatterns(CompilePatterns(left, q.patterns, 1, <<>>), Len(q.patterns) = 1)
    IN  Close(CompileQuery(bound, q.right), c)

\* reduce and foreach: the state in a new variable v, then an update of it.
CompileStart(c, q, v)  == Emit(Scoped(Create(Emit(Open(c), "dup", 0), NoName), q.start), "store", v)
CompileUpdate(c, q, v) ==
    Scoped(Emit(CompilePattern(CompileQuery(c, q.query), q.pattern, <<>>).c, "load", v), q.update)

CompileReduce(c, q) ==
    LET v     == Fresh(c)
        start == CompileStart(c, q, v)
    IN  Close(Loop(CompileUpdate(Reserve(start), q, v), Here(start), "store", v), c)

CompileForeach(c, q) ==
    LET v      == Fresh(c)
        update == CompileUpdate(CompileStart(c, q, v), q, v)
    IN  Close(Scoped(EmitAll(update, <<Do("dup"), Code("store", v)>>), q.extract), c)

\* compileFuncDef: a jump over the function, its scope, its parameters, its body.
EnterFunction(c, name, argc) ==
    LET entry == [name |-> name, argc |-> argc, pc |-> Here(c) + 1]
    IN  Reserve(NewScope([Reserve(c) EXCEPT !.scopes[Len(c.scopes)].funcs = Append(@, entry)]))

Parameters(c, params) ==
    LET all == FoldLeft(LAMBDA d, p : Emit(Create(d, p), "store", Fresh(d)), StoreNew(c), params)
    IN  IF params = <<>> THEN c ELSE Emit(all, "load", Fresh(c))

\* Instruction i opens the scope, which is done.
LeaveFunction(c, i, argc) ==
    [Patch(c, i, "scope", [id |-> Innermost(c).id, vars |-> Innermost(c).cnt, argc |-> argc])
        EXCEPT !.scopes = Front(@)]

CompileFuncDef(c, name, params, body) ==
    LET inner == Parameters(EnterFunction(c, name, Len(params)), params)
        done  == Emit(CompileQuery(inner, body), "ret", 0)
    IN  PatchHere(LeaveFunction(done, Here(c) + 1, Len(params)), Here(c), "jump")

\* compileCallInternal: op and fn are the call that ends it.
CompileCall(c, op, fn, args) ==
    LET v == Fresh(c)
    IN  IF args = <<>> THEN Emit(c, op, fn)
        ELSE Emit(Emit(CompileArgs(StoreNew(c), args, op = "native", v), "load", v), op, fn)

PassArgument(c, native, pc, v) == IF native THEN InlineArgument(c, pc, v) ELSE Emit(c, "pushpc", pc)

\* The arguments, the last one first; v holds the input.
CompileArgs(c, args, native, v) ==
    IF args = <<>> THEN c
    ELSE LET pc == Here(c) + 1
             fn == CompileFuncDef(c, NoName, <<>>, Last(args))
         IN  CompileArgs(PassArgument(fn, native, pc, v), Front(args), native, v)

CompileName(c, q) ==
    IF q.args = <<>> /\ IsParameter(c, q.name)
    THEN Emit(Emit(c, "load", Lookup(c, q.name)), "callpc", 0)
    ELSE CompileCall(c, "call", FuncPc(c, q.name, Len(q.args)), q.args)

\* A pattern, with the variables of the names in it appended to vs.
CompilePattern(c, p, vs) ==
    IF p.type = "name"
    THEN [c |-> StoreNamed(c, p.name), vs |-> Append(vs, Declared(c, p.name))]
    ELSE FoldLeft(LAMBDA d, k : CompilePattern(Emit(Emit(d.c, "load", Fresh(c)), "indexarray", k - 1),
                                               p.elems[k], d.vs),
                  [c |-> StoreNew(c), vs |-> vs],
                  [k \in DOMAIN p.elems |-> k])

\* The i-th of several patterns and the ones after it; vs are the variables of the
\* pattern before, which are null in this one.
CompilePatterns(c, ps, i, vs) ==
    LET last  == i = Len(ps)
        nulls == FoldLeft(LAMBDA d, v : EmitAll(d, <<Code("push", Null), Code("store", v)>>),
                          IF last THEN c ELSE Reserve(c), vs)
        bound == CompilePattern(nulls, ps[i], <<>>)
        next  == CompilePatterns(Reserve(bound.c), ps, i + 1, bound.vs)
    IN  IF last THEN bound.c
        ELSE PatchHere(Patch(next, Here(c), "forkalt", Here(bound.c) + 1), Here(bound.c), "jump")

CompileQuery(c, q) ==
    CASE q.type = "identity" -> c
      [] q.type = "empty"    -> Emit(c, "backtrack", 0)
      [] q.type = "const"    -> Emit(c, "const", q.val)
      [] q.type = "paren"    -> Scoped(c, q.query)
      [] q.type = "pipe"     -> CompileQuery(CompileQuery(c, q.left), q.right)
      [] q.type = "comma"    -> CompileComma(c, q.left, q.right)
      [] q.type = "alt"      -> CompileAlt(c, q.left, q.right)
      [] q.type = "if"       -> CompileIf(c, q)
      [] q.type = "try"      -> CompileTry(c, q)
      [] q.type = "array"    -> CompileArray(c, q)
      [] q.type = "index"    -> Emit(CompileQuery(c, q.query), "index", q.at)
      [] q.type = "iter"     -> Emit(CompileQuery(c, q.query), "iter", 0)
      [] q.type = "bind"     -> CompileBind(c, q)
      [] q.type = "var"      -> Emit(Emit(c, "pop", 0), "load", Lookup(c, q.name))
      [] q.type = "reduce"   -> CompileReduce(c, q)
      [] q.type = "foreach"  -> CompileForeach(c, q)
      [] q.type = "label"    -> CompileQuery(Emit(Declare(c, q.name), "forklabel", Declared(c, q.name)), q.body)
      [] q.type = "break"    -> Emit(Emit(Emit(c, "pop", 0), "load", Lookup(c, q.name)), "native", <<"_break", 0>>)
      [] q.type = "def"      -> CompileQuery(CompileFuncDef(c, q.name, q.params, q.body), q.rest)
      [] q.type = "call"     -> CompileName(c, q)
      [] q.type = "native"   -> CompileCall(c, "native", <<q.name, Len(q.args)>>, q.args)

-------------------------------------------------------------------------------
(* Optimizations of the whole program.                                     *)

Count(codes, op, i, j) == Cardinality({k \in i..j : codes[k].op = op})

\* The instruction that opens the function instruction i is in.
Opening(codes, i) ==
    Max({j \in 1 .. i - 1 : /\ codes[j].op = "scope"
                            /\ Count(codes, "scope", j + 1, i - 1) = Count(codes, "ret", j + 1, i - 1)})

\* After instruction i only jumps are left before the function returns.
Returning(codes, i) ==
    LET returns[j \in DOMAIN codes] ==
            \/ codes[j].op = "ret"
            \/ codes[j].op = "jump" /\ returns[codes[j].v]
    IN  returns[i + 1]

\* A function without parameters that calls itself last.
TailCall(codes, i) ==
    /\ codes[i].op = "call"
    /\ codes[i].v = Opening(codes, i)
    /\ codes[codes[i].v].v.argc = 0
    /\ Returning(codes, i)

OptimizeTailRec(codes) ==
    [i \in DOMAIN codes |->
        IF ~TailCall(codes, i) THEN codes[i]
        ELSE IF codes[codes[i].v].v.vars = 0 THEN [op |-> "jump", v |-> codes[i].v + 1]
        ELSE [codes[i] EXCEPT !.op = "callrec"]]

\* Instruction i and the next do nothing but replace the top of the stack.
Peephole(i, codes) ==
    LET this == codes[i].op
        next == codes[i + 1].op
    IN  CASE this \in {"push", "dup", "load"} /\ next = "pop" ->
                [codes EXCEPT ![i].op = "nop", ![i + 1].op = "nop"]
          [] this \in {"push", "dup", "load"} /\ next = "const" ->
                [codes EXCEPT ![i].op = "nop", ![i + 1].op = "push"]
          [] this \in {"jump", "jumpifnot"} /\ codes[i].v = i + 1 ->
                [codes EXCEPT ![i].op = "nop"]
          [] this \in {"jump", "jumpifnot"} /\ codes[i].v # i + 1 /\ codes[codes[i].v].op = "jump" ->
                [codes EXCEPT ![i].v = codes[codes[i].v].v]
          [] OTHER -> codes

\* From the last instruction to the first.
OptimizeCodeOps(codes) == FoldRight(Peephole, [i \in 1 .. Len(codes) - 1 |-> i], codes)

\* The program before the last optimization; scope 0 is that of the builtins.
Unoptimized(q) ==
    LET begin == Reserve(NewScope([codes |-> <<>>, scopes |-> <<>>, scopecnt |-> 1]))
    IN  OptimizeTailRec(LeaveFunction(Emit(CompileQuery(begin, q), "ret", 0), 1, 0).codes)

Compile(q) == OptimizeCodeOps(Unoptimized(q))
===============================================================================
