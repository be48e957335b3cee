------------------------------ MODULE MCDeciders ------------------------------
(* Deciders with a few concurrent calls, for TLC. *)
EXTENDS Deciders

CONSTANT Selected  \* the names of the tasks below that the calls are given

MCMessages == WarnText

Task(builtin, input, chunks) == [builtin |-> builtin, input |-> input, chunks |-> chunks]

\* Each of the builtins' tasks that the checks before the first request treat
\* in a way of its own.
TaskOf == [
    llm       |-> Task("llm", "ok", 1),
    llmArgs   |-> Task("llm", "badArgs", 1),
    llmLarge  |-> Task("llm", "tooLarge", 1),
    select    |-> Task("select", "ok", 1),
    selectCut |-> Task("select", "ok", 2),
    selectDoc |-> Task("select", "noDocument", 1),
    classArgs |-> Task("classify", "badArgs", 1),
    classCut  |-> Task("classify", "ok", 2)]

MCTasks == {TaskOf[t] : t \in Selected}

\* Any one of the two services may be missing.
MCConfigurations == {{"llm", "jev"}, {"llm"}}

Flag(exitStatus, failClosed, markFailed) ==
    [exitStatus |-> exitStatus, failClosed |-> failClosed, markFailed |-> markFailed]
WithoutExitStatus == {Flag(FALSE, TRUE, TRUE)}
WithExitStatus    == {Flag(FALSE, TRUE, FALSE), Flag(TRUE, TRUE, FALSE)}
===============================================================================
