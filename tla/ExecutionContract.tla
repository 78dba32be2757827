-------------------------- MODULE ExecutionContract --------------------------
(***************************************************************************)
(* What the execution authority promises, without its rows: an execution   *)
(* is granted to one holder at a time under a fencing token, a grant can   *)
(* be taken back, and only the holder of the current token may conclude    *)
(* the execution, once and with its effects.                               *)
(***************************************************************************)
EXTENDS Naturals

CONSTANTS
    Executions,   \* execution ids
    Holders,      \* those that an execution can be granted to
    NoToken       \* the token of a holder that has none

VARIABLES
    status,    \* status[e] \in {"absent", "open", "held", "completed", "abandoned"}
    grants,    \* grants[e]: how often e has been granted
    token,     \* token[h]: the execution and grant that h was given, or NoToken
    effects    \* effects[e]: how often the effects of e have been committed

vars == <<status, grants, token, effects>>

Init ==
    /\ status = [e \in Executions |-> "absent"]
    /\ grants = [e \in Executions |-> 0]
    /\ token = [h \in Holders |-> NoToken]
    /\ effects = [e \in Executions |-> 0]

\* h was given e and nobody has been given it since.
IsCurrent(h, e) == status[e] = "held" /\ token[h] = <<e, grants[e]>>

Request(e) ==
    /\ status[e] = "absent"
    /\ status' = [status EXCEPT ![e] = "open"]
    /\ UNCHANGED <<grants, token, effects>>

Grant(h, e) ==
    /\ status[e] = "open"
    /\ token[h] = NoToken
    /\ status' = [status EXCEPT ![e] = "held"]
    /\ grants' = [grants EXCEPT ![e] = @ + 1]
    /\ token' = [token EXCEPT ![h] = <<e, grants[e] + 1>>]
    /\ UNCHANGED effects

\* The grant is taken back; its holder is not told.
Revoke(e) ==
    /\ status[e] = "held"
    /\ status' = [status EXCEPT ![e] = "open"]
    /\ UNCHANGED <<grants, token, effects>>

\* The holder gives it back, to be granted again.
Return(h, e) ==
    /\ IsCurrent(h, e)
    /\ status' = [status EXCEPT ![e] = "open"]
    /\ UNCHANGED <<grants, token, effects>>

Complete(h, e) ==
    /\ IsCurrent(h, e)
    /\ status' = [status EXCEPT ![e] = "completed"]
    /\ effects' = [effects EXCEPT ![e] = @ + 1]
    /\ UNCHANGED <<grants, token>>

Abandon(h, e) ==
    /\ IsCurrent(h, e)
    /\ status' = [status EXCEPT ![e] = "abandoned"]
    /\ UNCHANGED <<grants, token, effects>>

\* A holder is done with its token, current or not.
Drop(h) ==
    /\ token[h] # NoToken
    /\ token' = [token EXCEPT ![h] = NoToken]
    /\ UNCHANGED <<status, grants, effects>>

Next ==
    \/ \E e \in Executions : Request(e) \/ Revoke(e)
    \/ \E h \in Holders, e \in Executions :
           Grant(h, e) \/ Return(h, e) \/ Complete(h, e) \/ Abandon(h, e)
    \/ \E h \in Holders : Drop(h)

Spec == Init /\ [][Next]_vars

=============================================================================
