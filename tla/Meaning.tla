-------------------------------- MODULE Meaning --------------------------------
(***************************************************************************)
(* What a query means: the values it yields for an input, and the error    *)
(* that ends them.  There are no instructions, stacks or slots here: names *)
(* are bound in an environment, a sequence of bindings with the latest     *)
(* last, and a query yields all of its values at once.                     *)
(***************************************************************************)
EXTENDS Terms, SequencesExt

Yields(vs) == [out |-> vs, err |-> NoError]
Throws(e)  == [out |-> <<>>, err |-> e]

\* a, then b unless a ended with an error.
After(a, b) == IF a.err # NoError THEN a ELSE [out |-> a.out \o b.out, err |-> b.err]

\* F of each value of r in turn.
Each2(r, F(_)) ==
    After(FoldLeft(LAMBDA a, v : IF a.err # NoError THEN a ELSE After(a, F(v)), Yields(<<>>), r.out),
          Throws(r.err))

AsResult(f) == IF f.err = NoError THEN Yields(<<f.val>>) ELSE Throws(f.err)

Binding(name, val)  == [kind |-> "value", name |-> name, argc |-> -1, val |-> val]
Closure(name, q, e) == [kind |-> "closure", name |-> name, argc |-> 0, query |-> q, env |-> e]
Function(q)         == [kind |-> "function", name |-> q.name, argc |-> Len(q.params),
                        params |-> q.params, query |-> q.body]

\* The place of the latest binding of a name.
Latest(env, name, argc) == Max({k \in DOMAIN env : env[k].name = name /\ env[k].argc = argc})
ValueOf(env, name) == env[Latest(env, name, -1)].val

RECURSIVE Names(_), Bindings(_, _, _)

\* The variables of a pattern.
Names(p) == IF p.type = "name" THEN <<p.name>>
            ELSE FoldLeft(LAMBDA ns, e : ns \o Names(e), <<>>, p.elems)

\* r: an environment in place of its values, extended with the variables of p at v.
Bindings(p, v, r) ==
    IF r.err # NoError THEN r
    ELSE IF p.type = "name" THEN [r EXCEPT !.out = Append(@, Binding(p.name, v))]
    ELSE FoldLeft(LAMBDA s, k : IF v # Null /\ ~IsArray(v) THEN Throws(TypeError("expected an array"))
                                ELSE Bindings(p.elems[k], ElementAt(v, k - 1).val, s),
                  r, [k \in DOMAIN p.elems |-> k])

RECURSIVE Eval(_, _, _, _), Patterns(_, _, _, _, _), Args(_, _, _, _, _)

\* The body of a binding, with the patterns from the i-th on: an error tries the next.
\* The variables the pattern does not have are null.
Patterns(q, i, v, env, d) ==
    LET input == env.input
        unset == IF Len(q.patterns) = 1 THEN <<>>
                 ELSE FoldLeft(LAMBDA ns, p : ns \o Names(p), <<>>, q.patterns)
        null  == env.env \o [k \in DOMAIN unset |-> Binding(unset[k], Null)]
        bound == Bindings(q.patterns[i], v, Yields(null))
        this  == IF bound.err # NoError THEN Throws(bound.err) ELSE Eval(q.right, input, bound.out, d)
        next  == Patterns(q, i + 1, v, env, d)
    IN  IF Uncatchable(this.err) \/ i = Len(q.patterns) THEN this
        ELSE [out |-> this.out \o next.out, err |-> next.err]

\* A native function for all values of its arguments, the last one outermost; vals
\* are the arguments that are known.
Args(q, vals, v, env, d) ==
    IF Len(vals) = Len(q.args) THEN AsResult(Native(q.name, v, vals))
    ELSE Each2(Eval(q.args[Len(q.args) - Len(vals)], v, env, d),
               LAMBDA x : Args(q, <<x>> \o vals, v, env, d))

\* The last value of a sequence of them, or v.
LastOr(vs, v) == IF vs = <<>> THEN v ELSE Last(vs)

\* d: the labels around the query.
Eval(q, v, env, d) ==
    CASE q.type = "identity" -> Yields(<<v>>)
      [] q.type = "empty"    -> Yields(<<>>)
      [] q.type = "const"    -> Yields(<<q.val>>)
      [] q.type = "paren"    -> Eval(q.query, v, env, d)
      [] q.type = "pipe"     -> Each2(Eval(q.left, v, env, d), LAMBDA x : Eval(q.right, x, env, d))
      [] q.type = "comma"    -> LET l == Eval(q.left, v, env, d)
                                IN  IF l.err # NoError THEN l ELSE After(l, Eval(q.right, v, env, d))
      [] q.type = "alt"      -> LET l == Eval(q.left, v, env, d)
                                    found == SelectSeq(l.out, Truthy)
                                IN  IF found # <<>> \/ l.err # NoError THEN [l EXCEPT !.out = found]
                                    ELSE Eval(q.right, v, env, d)
      [] q.type = "if"       -> Each2(Eval(q.cond, v, env, d),
                                      LAMBDA c : Eval(IF Truthy(c) THEN q.then ELSE q.else, v, env, d))
      [] q.type = "try"      -> LET b == Eval(q.body, v, env, d)
                                IN  IF Uncatchable(b.err) THEN b
                                    ELSE After(Yields(b.out), Eval(q.catch, Caught(b.err), env, d))
      [] q.type = "array"    -> LET e == Eval(q.query, v, env, d)
                                IN  IF e.err # NoError THEN Throws(e.err) ELSE Yields(<<Arr(e.out)>>)
      [] q.type = "index"    -> Each2(Eval(q.query, v, env, d), LAMBDA x : AsResult(ElementAt(x, q.at)))
      [] q.type = "iter"     -> Each2(Eval(q.query, v, env, d),
                                      LAMBDA x : IF IsArray(x) THEN Yields(Elems(x))
                                                 ELSE Throws(TypeError("cannot be iterated over")))
      [] q.type = "bind"     -> Each2(Eval(q.left, v, env, d),
                                      LAMBDA x : Patterns(q, 1, x, [input |-> v, env |-> env], d))
      [] q.type = "var"      -> Yields(<<ValueOf(env, q.name)>>)
      [] q.type = "reduce"   ->
            Each2(Eval(q.start, v, env, d),
                  LAMBDA s :
                    LET xs == Eval(q.query, v, env, d)
                        end == FoldLeft(
                            LAMBDA a, x :
                                LET b == Bindings(q.pattern, x, Yields(env))
                                    u == Eval(q.update, a.out[1], b.out, d)
                                IN  IF a.err # NoError THEN a
                                    ELSE IF b.err # NoError THEN Throws(b.err)
                                    ELSE [out |-> <<LastOr(u.out, a.out[1])>>, err |-> u.err],
                            Yields(<<s>>), xs.out)
                    IN  IF end.err # NoError THEN Throws(end.err)
                        ELSE IF xs.err # NoError THEN Throws(xs.err) ELSE end)
      [] q.type = "foreach"  ->
            Each2(Eval(q.start, v, env, d),
                  LAMBDA s :
                    LET xs == Eval(q.query, v, env, d)
                        end == FoldLeft(
                            LAMBDA a, x :
                                LET b == Bindings(q.pattern, x, Yields(env))
                                    u == Eval(q.update, a.state, b.out, d)
                                    r == Each2(u, LAMBDA y : Eval(q.extract, y, b.out, d))
                                IN  IF a.r.err # NoError THEN a
                                    ELSE IF b.err # NoError THEN [a EXCEPT !.r.err = b.err]
                                    ELSE [state |-> LastOr(u.out, a.state), r |-> After(a.r, r)],
                            [state |-> s, r |-> Yields(<<>>)], xs.out)
                    IN  After(end.r, Throws(xs.err)))
      [] q.type = "label"    -> LET b == Eval(q.body, v, Append(env, Binding(q.name, Num(d))), d + 1)
                                IN  IF b.err = BreakError(Num(d)) THEN Yields(b.out) ELSE b
      [] q.type = "break"    -> Throws(BreakError(ValueOf(env, q.name)))
      [] q.type = "def"      -> Eval(q.rest, v, Append(env, Function(q)), d)
      [] q.type = "call"     ->
            LET k == Latest(env, q.name, Len(q.args))
                f == env[k]
                args == [i \in DOMAIN q.args |-> Closure(f.params[i], q.args[i], env)]
            IN  IF f.kind = "closure" THEN Eval(f.query, v, f.env, d)
                ELSE Eval(f.query, v, SubSeq(env, 1, k) \o args, d)
      [] q.type = "native"   -> Args(q, <<>>, v, env, d)

MeaningOf(q, v) == Eval(q, v, <<>>, 0)
===============================================================================
