------------------------ MODULE MCExecutionAuthority ------------------------
(* Small instances of ExecutionAuthority for TLC. *)
EXTENDS ExecutionAuthority, TLC

\* One class of each kind of retry_policy.py, with smaller budgets: retried and
\* then dead-lettered, retried once and then escalated, escalated at once.
MCErrorClasses ==
    {[max_retries |-> 2, terminal |-> FALSE, escalates |-> FALSE],
     [max_retries |-> 1, terminal |-> FALSE, escalates |-> TRUE],
     [max_retries |-> 0, terminal |-> TRUE, escalates |-> TRUE]}

Interchangeable == Permutations(Runs) \cup Permutations(Tasks)

=============================================================================
