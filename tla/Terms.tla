-------------------------------- MODULE Terms --------------------------------
(***************************************************************************)
(* The values, errors and queries that the compiler, the interpreter and   *)
(* the meaning of queries share.                                           *)
(*                                                                         *)
(* Values are tagged, so that values of two types are never equal.  A      *)
(* string stands for the message of an error, which a query cannot tell    *)
(* from another one; objects are left out.                                 *)
(***************************************************************************)
EXTENDS Integers, Sequences

Null      == <<"null">>
Bool(b)   == <<"bool", b>>
Num(n)    == <<"num", n>>
Arr(s)    == <<"arr", s>>
Message(m) == <<"string", m>>

Truthy(v)  == v # Null /\ v # Bool(FALSE)
IsArray(v) == v[1] = "arr"
IsString(v) == v[1] = "string"
Elems(v)   == v[2]

(* Errors.                                                                 *)

NoError       == <<"none">>
ValueError(v) == <<"value", v>>      \* error(v)
TypeError(m)  == <<"type", m>>       \* an error with message m
BreakError(l) == <<"break", l>>      \* break to label l
HaltError     == <<"halt">>
TryEndError(e) == <<"tryend", e>>    \* e, raised after a try had ended

IsBreak(e)  == e[1] = "break"
IsTryEnd(e) == e[1] = "tryend"

\* What a handler never sees.
Uncatchable(e) == e = NoError \/ IsBreak(e) \/ e = HaltError

\* What a handler is given.
Caught(e) == IF e[1] = "value" THEN e[2] ELSE Message(e[2])

\* Functions written in Go: their value, or the error they return.
Returns(v) == [val |-> v, err |-> NoError]
Fails(e)   == [val |-> Null, err |-> e]

\* .[n] for n >= 0; every message has a character there.
ElementAt(v, n) ==
    CASE v = Null -> Returns(Null)
      [] IsArray(v) -> Returns(IF n < Len(Elems(v)) THEN Elems(v)[n + 1] ELSE Null)
      [] IsString(v) -> Returns(Message("character"))
      [] OTHER -> Fails(TypeError("expected an array"))

Sum2(l, r) ==
    CASE l = Null -> Returns(r)
      [] r = Null -> Returns(l)
      [] l[1] = "num" /\ r[1] = "num" -> Returns(Num(l[2] + r[2]))
      [] IsArray(l) /\ IsArray(r) -> Returns(Arr(Elems(l) \o Elems(r)))
      [] IsString(l) /\ IsString(r) -> Returns(Message(l[2] \o r[2]))
      [] OTHER -> Fails(TypeError("cannot be added"))

\* A native function applied to its input and arguments.
Native(name, input, args) ==
    CASE name = "error" -> Fails(ValueError(input))
      [] name = "halt" -> Fails(HaltError)
      [] name = "_break" -> Fails(BreakError(input))
      [] name = "_add" -> Sum2(args[1], args[2])

-------------------------------------------------------------------------------
(* Queries, as the parser builds them.                                     *)

Identity         == [type |-> "identity"]
Empty            == [type |-> "empty"]
Const(v)         == [type |-> "const", val |-> v]
Paren(q)         == [type |-> "paren", query |-> q]
Pipe(l, r)       == [type |-> "pipe", left |-> l, right |-> r]
Comma(l, r)      == [type |-> "comma", left |-> l, right |-> r]
Alt(l, r)        == [type |-> "alt", left |-> l, right |-> r]
If(c, t, e)      == [type |-> "if", cond |-> c, then |-> t, else |-> e]
Try(b, h)        == [type |-> "try", body |-> b, catch |-> h]
Array(q)         == [type |-> "array", query |-> q]
Index(q, n)      == [type |-> "index", query |-> q, at |-> n]
Iter(q)          == [type |-> "iter", query |-> q]
Bind(l, ps, r)   == [type |-> "bind", left |-> l, patterns |-> ps, right |-> r]
Var(x)           == [type |-> "var", name |-> x]
Reduce(q, p, i, u)     == [type |-> "reduce", query |-> q, pattern |-> p, start |-> i, update |-> u]
Foreach(q, p, i, u, x) == [type |-> "foreach", query |-> q, pattern |-> p, start |-> i,
                           update |-> u, extract |-> x]
Label(l, b)      == [type |-> "label", name |-> l, body |-> b]
Break(l)         == [type |-> "break", name |-> l]
Def(f, ps, b, r) == [type |-> "def", name |-> f, params |-> ps, body |-> b, rest |-> r]
Call(f, args)    == [type |-> "call", name |-> f, args |-> args]
CallGo(f, args)  == [type |-> "native", name |-> f, args |-> args]

\* l and r, l or r: the parser keeps an operator, which compiles as nested ifs.
And(l, r) == If(l, If(r, Const(Bool(TRUE)), Const(Bool(FALSE))), Const(Bool(FALSE)))
Or(l, r)  == If(l, Const(Bool(TRUE)), If(r, Const(Bool(TRUE)), Const(Bool(FALSE))))

\* Patterns: $x, and [p, ...].
Name(x)    == [type |-> "name", name |-> x]
Nested(ps) == [type |-> "elems", elems |-> ps]
===============================================================================
