------------------------------ MODULE MCParallel ------------------------------
(* Parallel on short inputs of every kind, for TLC. *)
EXTENDS Parallel

CONSTANTS MaxInputs,  \* the longest sequence of inputs
          Kinds       \* the names of the inputs it is made of

\* One input of each kind the properties tell apart.
Kind == [
    plain  |-> [readError |-> FALSE, result |-> [vals |-> <<"truthy">>, err |-> "none"]],
    empty  |-> [readError |-> FALSE, result |-> [vals |-> <<>>, err |-> "none"]],
    fails  |-> [readError |-> FALSE, result |-> [vals |-> <<"truthy", "falsy">>, err |-> "error"]],
    halts  |-> [readError |-> FALSE, result |-> [vals |-> <<"falsy">>, err |-> "halt_error"]],
    silent |-> [readError |-> FALSE, result |-> [vals |-> <<>>, err |-> "halt"]],
    nul    |-> [readError |-> FALSE, result |-> [vals |-> <<"truthy", "nul">>, err |-> "none"]],
    read   |-> [readError |-> TRUE, result |-> [vals |-> <<>>, err |-> "read"]],
    \* a query that ignores its input, such as `1`, run on the iterator's error
    masked |-> [readError |-> TRUE, result |-> [vals |-> <<"truthy">>, err |-> "none"]]]

MCWorlds == UNION {[1..n -> {Kind[k] : k \in Kinds}] : n \in 0..MaxInputs}
===============================================================================
