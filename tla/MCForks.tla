------------------------------- MODULE MCForks -------------------------------
(* Forks with a short stack, for TLC.  One stack is enough for it: the stacks *)
(* of an env meet in the forks only, which treat each of them alike.          *)
EXTENDS Forks
===============================================================================
