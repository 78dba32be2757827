-------------------------- MODULE MCExecutionSystem --------------------------
(* Small instances of ExecutionSystem for TLC. *)
EXTENDS ExecutionSystem, TLC

\* A failure that is retried once and then dead-lettered, and one that is
\* escalated at once.
MCErrorClasses ==
    {[max_retries |-> 1, terminal |-> FALSE, escalates |-> FALSE],
     [max_retries |-> 0, terminal |-> TRUE, escalates |-> TRUE]}

MCIdentityOf ==
    [p \in Publishers \cup Sweeps |-> IF p \in Sweeps THEN "sweep" ELSE "dispatch"]

Interchangeable == Permutations(Runs) \cup Permutations(Tasks)
=============================================================================
