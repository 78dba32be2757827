-------------------------- MODULE MCExecutionOutbox --------------------------
(* Small instances of ExecutionOutbox for TLC. *)
EXTENDS ExecutionOutbox, TLC

\* Two ingress workers share the publisher_id "api:dispatch"; the sweeps share
\* "execution_outbox_stuck_pending_reconciler".
MCIdentityOf ==
    [p \in Publishers \cup Sweeps |-> IF p \in Sweeps THEN "sweep" ELSE "dispatch"]

Interchangeable == Permutations(Publishers) \cup Permutations(Sweeps)
=============================================================================
