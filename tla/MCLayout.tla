------------------------------- MODULE MCLayout -------------------------------
(* MCMachine for programs that are laid out as Layout says: those in which no *)
(* target of a jump is fused.                                                 *)
EXTENDS MCMachine, Layout

\* Every operator, the queries chosen in MCMachine, and operators in the places of others.
Operands == {Identity, Each1, Fail, X, Break("%out")}
Queries == UNION {Operators(Leaves, Leaves), Recursive, Closures, Handlers, Destructured,
                  Around({Pipe(Paren(a), b) : a \in Operators(Operands, Operands), b \in {X, F}})}
MCPrograms == OnInput({q \in Queries : Unfused(Within(q))})
===============================================================================
