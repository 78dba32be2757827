--------------------------- MODULE ExecutionOutbox ---------------------------
(***************************************************************************)
(* The transactional outbox of execution dispatch: one execution_outbox    *)
(* row per execution (app/execution/persistence/postgres.py), the request  *)
(* scoped publisher that claims it, commits and then hands the execution   *)
(* to Celery (_DeferredExecutionPublisher, app/dependencies/services.py),  *)
(* and the three periodic reconcilers (app/execution/runtime.py).          *)
(*                                                                         *)
(* A publisher's step is one database transaction or one broker call.  A   *)
(* stuck-pending sweep is a single transaction that also calls the broker: *)
(* while it is open its row is locked and its writes are not visible.      *)
(***************************************************************************)
EXTENDS Naturals, FiniteSets

CONSTANTS
    Executions,          \* execution ids
    Ingress,             \* those dispatched by the ingress worker, which may try again
    Publishers,          \* processes that request and dispatch executions
    Sweeps,              \* processes that run the stuck-pending reconciler
    Identities,          \* publisher_id values, several processes may share one
    IdentityOf,          \* IdentityOf[p]: the publisher_id of a process
    None,                \* SQL NULL, and the absent fields of an idle process
    MaxPublishAttempts,  \* max_publish_attempts of the reconcilers
    PublishBound,        \* bound on the claims that dispatch makes of one row
    RollbackBound,       \* bound on the sweep transactions lost per row
    RequestBound         \* bound on the executions requested

ASSUME OutboxAssumption ==
    /\ Ingress \subseteq Executions
    /\ IdentityOf \in [Publishers \cup Sweeps -> Identities]
    /\ None \notin Executions
    /\ MaxPublishAttempts \in Nat \ {0}
    /\ PublishBound \in Nat /\ PublishBound >= MaxPublishAttempts
    /\ RollbackBound \in Nat
    /\ RequestBound \in Nat

VARIABLES
    outbox,      \* outbox[e]: the execution_outbox row of e
    publisher,   \* publisher[p]: where a dispatching process stands
    sweep,       \* sweep[s]: where a stuck-pending sweep stands
    sent,        \* sent[e]: messages the broker accepted for e (history)
    rolledBack,  \* rolledBack[e]: sweep transactions on e that were lost (history)
    settled      \* executions that have reached a terminal state

vars == <<outbox, publisher, sweep, sent, rolledBack, settled>>

-----------------------------------------------------------------------------
(* Types *)

\* derive_outbox_claim_id hashes the publisher_id and the attempt it starts.
ClaimIds == Identities \X (1..(PublishBound + 1))

OutboxRow ==
    [state : {"ABSENT", "PENDING", "PUBLISHING", "PUBLISHED", "FAILED"},
     claim : ClaimIds \cup {<<>>},
     count : 0..(PublishBound + 1),
     lease : {"null", "running", "expired"},
     cooled : BOOLEAN,                \* FAILED longer ago than the cooldown
     recovered : BOOLEAN]             \* has failed_recovery.retry_attempt_count

PublisherState ==
    [stage : {"idle", "reading", "publishing", "sent", "raised"},
     execution : Executions \cup {None},
     claim : ClaimIds \cup {<<>>}]

SweepState ==
    [stage : {"idle", "listed", "holding", "sent", "raised"},
     execution : Executions \cup {None},
     count : 0..(PublishBound + 1)]

AbsentRow ==
    [state |-> "ABSENT", claim |-> <<>>, count |-> 0, lease |-> "null",
     cooled |-> FALSE, recovered |-> FALSE]

IdlePublisher == [stage |-> "idle", execution |-> None, claim |-> <<>>]
IdleSweep == [stage |-> "idle", execution |-> None, count |-> 0]

TypeOK ==
    /\ outbox \in [Executions -> OutboxRow]
    /\ publisher \in [Publishers -> PublisherState]
    /\ sweep \in [Sweeps -> SweepState]
    /\ sent \in [Executions -> Nat]
    /\ rolledBack \in [Executions -> 0..RollbackBound]
    /\ settled \subseteq Executions

Init ==
    /\ outbox = [e \in Executions |-> AbsentRow]
    /\ publisher = [p \in Publishers |-> IdlePublisher]
    /\ sweep = [s \in Sweeps |-> IdleSweep]
    /\ sent = [e \in Executions |-> 0]
    /\ rolledBack = [e \in Executions |-> 0]
    /\ settled = {}

-----------------------------------------------------------------------------
(* Helpers *)

\* A sweep's transaction has written e's row and not yet committed.
Locked(e) ==
    \E s \in Sweeps :
        sweep[s].execution = e /\ sweep[s].stage \in {"holding", "sent", "raised"}

\* The claim id a publisher derives from the count that it read.
ClaimId(p, count) == <<IdentityOf[p], count + 1>>

\* The guard of both marks: the row is PUBLISHING under this publisher's claim.
Holds(p) ==
    LET row == outbox[publisher[p].execution]
    IN  row.state = "PUBLISHING" /\ row.claim = publisher[p].claim

\* claim_outbox_for_execution in the transaction of publisher p, committed
\* either by flush, before the broker call, or by the backpressure check, which
\* fails the row at once.
CommitClaim(p, e, claim) ==
    \/ /\ outbox' = [outbox EXCEPT ![e].state = "PUBLISHING", ![e].claim = claim,
                                   ![e].count = @ + 1, ![e].lease = "running"]
       /\ publisher' = [publisher EXCEPT ![p] =
              [stage |-> "publishing", execution |-> e, claim |-> claim]]
    \/ /\ outbox' = [outbox EXCEPT ![e].state = "FAILED", ![e].claim = claim,
                                   ![e].count = @ + 1, ![e].lease = "running",
                                   ![e].cooled = FALSE]
       /\ publisher' = [publisher EXCEPT ![p] = IdlePublisher]

\* The broker call: it is accepted, it is refused, or the answer is lost.
BrokerCall(e, accepted, raised) ==
    \/ accepted /\ sent' = [sent EXCEPT ![e] = @ + 1]
    \/ raised /\ sent' \in {sent, [sent EXCEPT ![e] = @ + 1]}

-----------------------------------------------------------------------------
(* Dispatch: the request's transaction, then the broker, then the mark *)

\* Request and claim commit together.
RequestExecution(p, e) ==
    /\ publisher[p].stage = "idle"
    /\ outbox[e].state = "ABSENT"
    /\ Cardinality({x \in Executions : outbox[x].state # "ABSENT"}) < RequestBound
    /\ CommitClaim(p, e, ClaimId(p, 0))
    /\ UNCHANGED <<sweep, sent, rolledBack, settled>>

\* The ingress worker dispatches the same ingress again: publish_execution reads
\* the row and derives its claim id before the UPDATE that claims it.
ReadPending(p, e) ==
    /\ publisher[p].stage = "idle"
    /\ e \in Ingress
    /\ outbox[e].state = "PENDING"
    /\ outbox[e].count < PublishBound
    /\ publisher' = [publisher EXCEPT ![p] =
           [stage |-> "reading", execution |-> e, claim |-> ClaimId(p, outbox[e].count)]]
    /\ UNCHANGED <<outbox, sweep, sent, rolledBack, settled>>

ClaimPending(p) ==
    LET e == publisher[p].execution
    IN  /\ publisher[p].stage = "reading"
        /\ ~Locked(e)
        /\ IF outbox[e].state = "PENDING" /\ outbox[e].count < PublishBound
           THEN CommitClaim(p, e, publisher[p].claim)
           ELSE /\ publisher' = [publisher EXCEPT ![p] = IdlePublisher]
                /\ UNCHANGED outbox
        /\ UNCHANGED <<sweep, sent, rolledBack, settled>>

\* A publisher that marks the row before it knows the outcome (faulty).
PublishOptimistically(p) ==
    /\ publisher[p].stage = "publishing"
    /\ publisher' = [publisher EXCEPT ![p].stage = "sent"]
    /\ UNCHANGED <<outbox, sweep, sent, rolledBack, settled>>

\* The outcome of the broker call decides which mark follows (flush).
PublishExecution(p) ==
    /\ publisher[p].stage = "publishing"
    /\ \E stage \in {"sent", "raised"} :
           /\ publisher' = [publisher EXCEPT ![p].stage = stage]
           /\ BrokerCall(publisher[p].execution, stage = "sent", stage = "raised")
    /\ UNCHANGED <<outbox, sweep, rolledBack, settled>>

\* mark_outbox_published, which refuses a lost claim.
MarkPublished(p) ==
    /\ publisher[p].stage = "sent"
    /\ ~Locked(publisher[p].execution)
    /\ IF Holds(p)
       THEN outbox' = [outbox EXCEPT ![publisher[p].execution].state = "PUBLISHED"]
       ELSE UNCHANGED outbox
    /\ publisher' = [publisher EXCEPT ![p] = IdlePublisher]
    /\ UNCHANGED <<sweep, sent, rolledBack, settled>>

\* mark_outbox_failed, which refuses a lost claim.
MarkFailed(p) ==
    /\ publisher[p].stage = "raised"
    /\ ~Locked(publisher[p].execution)
    /\ IF Holds(p)
       THEN outbox' = [outbox EXCEPT ![publisher[p].execution].state = "FAILED",
                                     ![publisher[p].execution].cooled = FALSE]
       ELSE UNCHANGED outbox
    /\ publisher' = [publisher EXCEPT ![p] = IdlePublisher]
    /\ UNCHANGED <<sweep, sent, rolledBack, settled>>

CrashPublisher(p) ==
    /\ publisher[p].stage # "idle"
    /\ publisher' = [publisher EXCEPT ![p] = IdlePublisher]
    /\ UNCHANGED <<outbox, sweep, sent, rolledBack, settled>>

-----------------------------------------------------------------------------
(* The reconcilers *)

LeaseExpires(e) ==
    /\ outbox[e].state = "PUBLISHING"
    /\ outbox[e].lease = "running"
    /\ outbox' = [outbox EXCEPT ![e].lease = "expired"]
    /\ UNCHANGED <<publisher, sweep, sent, rolledBack, settled>>

CooldownEnds(e) ==
    /\ outbox[e].state = "FAILED"
    /\ ~outbox[e].cooled
    /\ outbox' = [outbox EXCEPT ![e].cooled = TRUE]
    /\ UNCHANGED <<publisher, sweep, sent, rolledBack, settled>>

\* A reconciler that looks at the lease and not at the state (faulty).
StaleByLease(e) == outbox[e].lease = "expired"

\* A reconciler that skips settled executions, as the other two do (faulty).
StaleUnlessSettled(e) ==
    outbox[e].state = "PUBLISHING" /\ outbox[e].lease = "expired" /\ e \notin settled

Stale(e) == outbox[e].state = "PUBLISHING" /\ outbox[e].lease = "expired"

\* A release that forgets the attempts made (faulty).
RequeueStaleAfresh(e) ==
    /\ Stale(e)
    /\ ~Locked(e)
    /\ outbox' = [outbox EXCEPT ![e] = [AbsentRow EXCEPT !.state = "PENDING"]]
    /\ UNCHANGED <<publisher, sweep, sent, rolledBack, settled>>

\* requeue_stale_outbox
RequeueStale(e) ==
    /\ Stale(e)
    /\ ~Locked(e)
    /\ outbox' = [outbox EXCEPT ![e].state = "PENDING", ![e].claim = <<>>,
                                ![e].lease = "null"]
    /\ UNCHANGED <<publisher, sweep, sent, rolledBack, settled>>

\* A retry budget that is not compared (a faulty variant).
RetryableWithoutBudget(e) == outbox[e].state = "FAILED" /\ e \notin settled

\* reconcile_failed_execution_outbox up to the requeue
Retryable(e) ==
    /\ outbox[e].state = "FAILED"
    /\ outbox[e].cooled
    /\ outbox[e].count < MaxPublishAttempts
    /\ e \notin settled

\* A requeue that leaves no trace for the stuck-pending sweep (faulty).
RequeueFailedSilently(e) ==
    /\ Retryable(e)
    /\ ~Locked(e)
    /\ outbox' = [outbox EXCEPT ![e].state = "PENDING", ![e].claim = <<>>,
                                ![e].lease = "null"]
    /\ UNCHANGED <<publisher, sweep, sent, rolledBack, settled>>

\* requeue_failed_outbox
RequeueFailed(e) ==
    /\ Retryable(e)
    /\ ~Locked(e)
    /\ outbox' = [outbox EXCEPT ![e].state = "PENDING", ![e].claim = <<>>,
                                ![e].lease = "null", ![e].recovered = TRUE]
    /\ UNCHANGED <<publisher, sweep, sent, rolledBack, settled>>

-----------------------------------------------------------------------------
(* The stuck-pending sweep: one transaction per run of the task *)

\* list_stuck_pending_outbox_records: the budget is checked on this reading.
ListStuckPending(s, e) ==
    /\ sweep[s].stage = "idle"
    /\ outbox[e].state = "PENDING"
    /\ outbox[e].recovered
    /\ e \notin settled
    /\ sweep' = [sweep EXCEPT ![s] =
           [stage |-> "listed", execution |-> e, count |-> outbox[e].count]]
    /\ UNCHANGED <<outbox, publisher, sent, rolledBack, settled>>

\* _reclaim_stuck_pending_outbox up to its claim, which locks the row.
ClaimStuckPending(s) ==
    LET e == sweep[s].execution
    IN  /\ sweep[s].stage = "listed"
        /\ ~Locked(e)
        /\ sweep' = IF outbox[e].state = "PENDING" /\ e \notin settled
                    THEN [sweep EXCEPT ![s].stage = "holding"]
                    ELSE [sweep EXCEPT ![s] = IdleSweep]
        /\ UNCHANGED <<outbox, publisher, sent, rolledBack, settled>>

\* The broker call inside the transaction, or no call once the budget is spent.
PublishStuckPending(s) ==
    /\ sweep[s].stage = "holding"
    /\ \E stage \in {"sent", "raised"} :
           /\ sweep' = [sweep EXCEPT ![s].stage = stage]
           /\ IF sweep[s].count < MaxPublishAttempts
              THEN BrokerCall(sweep[s].execution, stage = "sent", stage = "raised")
              ELSE stage = "raised" /\ UNCHANGED sent
    /\ UNCHANGED <<outbox, publisher, rolledBack, settled>>

\* The claim, the mark and the end of the transaction become visible together.
CommitStuckPending(s) ==
    LET e == sweep[s].execution
    IN  /\ sweep[s].stage \in {"sent", "raised"}
        /\ outbox' = [outbox EXCEPT
               ![e].state = IF sweep[s].stage = "sent" THEN "PUBLISHED" ELSE "FAILED",
               ![e].claim = ClaimId(s, outbox[e].count), ![e].count = @ + 1,
               ![e].lease = "running", ![e].cooled = FALSE]
        /\ sweep' = [sweep EXCEPT ![s] = IdleSweep]
        /\ UNCHANGED <<publisher, sent, rolledBack, settled>>

\* The sweep dies or its transaction fails: the broker keeps what it accepted.
RollBackSweep(s) ==
    LET e == sweep[s].execution
    IN  /\ sweep[s].stage # "idle"
        /\ rolledBack[e] < RollbackBound
        /\ rolledBack' = [rolledBack EXCEPT ![e] = @ + 1]
        /\ sweep' = [sweep EXCEPT ![s] = IdleSweep]
        /\ UNCHANGED <<outbox, publisher, sent, settled>>

-----------------------------------------------------------------------------
(* The execution, as far as the outbox can tell: a message got it settled *)

SettleExecution(e) ==
    /\ e \notin settled
    /\ sent[e] > 0
    /\ settled' = settled \cup {e}
    /\ UNCHANGED <<outbox, publisher, sweep, sent, rolledBack>>

-----------------------------------------------------------------------------
(* The specification *)

Dispatch(p) ==
    \/ \E e \in Executions : RequestExecution(p, e) \/ ReadPending(p, e)
    \/ ClaimPending(p)
    \/ PublishExecution(p)
    \/ MarkPublished(p)
    \/ MarkFailed(p)
    \/ CrashPublisher(p)

Reconcile(e) ==
    \/ LeaseExpires(e)
    \/ CooldownEnds(e)
    \/ RequeueStale(e)
    \/ RequeueFailed(e)

SweepStep(s) ==
    \/ ClaimStuckPending(s)
    \/ PublishStuckPending(s)
    \/ CommitStuckPending(s)

Next ==
    \/ \E p \in Publishers : Dispatch(p)
    \/ \E e \in Executions : Reconcile(e) \/ SettleExecution(e)
    \/ \E s \in Sweeps :
           \/ \E e \in Executions : ListStuckPending(s, e)
           \/ SweepStep(s)
           \/ RollBackSweep(s)

Spec == Init /\ [][Next]_vars

\* Time passes, the beat scheduler keeps starting the three reconcilers, and a
\* sweep that has started ends.  Nothing is assumed of dispatch: a request may
\* never be repeated and a publisher may stop anywhere.
Fairness ==
    /\ \A e \in Executions :
           /\ WF_vars(Reconcile(e))
           /\ WF_vars(\E s \in Sweeps : ListStuckPending(s, e))
    /\ \A s \in Sweeps : WF_vars(SweepStep(s))

FairSpec == Spec /\ Fairness

-----------------------------------------------------------------------------
(* Properties *)

\* A row is marked PUBLISHED only after the broker has accepted a message for
\* its execution, whoever marks it and whichever claim it marks.
PublishedWasSent ==
    \A e \in Executions : outbox[e].state = "PUBLISHED" => sent[e] > 0

\* publish_attempt_count accounts for every message in the broker, except for
\* those of sweeps whose transaction was lost after the broker call.
SendsAreCounted ==
    \A e \in Executions :
        LET uncommitted == {s \in Sweeps : /\ sweep[s].execution = e
                                           /\ sweep[s].stage \in {"sent", "raised"}}
        IN  sent[e] <= outbox[e].count + rolledBack[e] + Cardinality(uncommitted)

\* At most one publisher holds a row's claim, if that claim was derived from the
\* row's own publish_attempt_count.  Processes share publisher_ids and the UPDATE
\* does not compare the count that the claim id was derived from, so a claim id
\* derived from an older count can be held twice.
FreshClaimIsExclusive ==
    \A p, q \in Publishers :
        LET e == publisher[p].execution
        IN  /\ p # q
            /\ publisher[p].stage \in {"publishing", "sent", "raised"}
            /\ publisher[q].stage \in {"publishing", "sent", "raised"}
            /\ publisher[q].execution = e
            /\ outbox[e].claim # <<>> /\ outbox[e].claim[2] = outbox[e].count
            => ~(Holds(p) /\ Holds(q))

\* A published row is never claimed, failed or requeued again.
PublishedIsFinal ==
    [][\A e \in Executions : outbox[e].state = "PUBLISHED" => outbox'[e] = outbox[e]]_vars

\* Where only the sweeps publish again, overlapping sweeps never send a row whose
\* committed attempts have spent the budget, although each checks the budget on
\* the count that it listed, not on the row it claims.
SweepsKeepBudget ==
    [][\A s \in Sweeps :
           /\ sweep[s].stage = "holding"
           /\ sweep[s].execution \notin Ingress
           /\ sweep' # sweep /\ sent' # sent
           => outbox[sweep[s].execution].count < MaxPublishAttempts]_vars

\* A claim never sticks: the lease runs out and the row is released.
ClaimsAreReleased ==
    \A e \in Executions : outbox[e].state = "PUBLISHING" ~> outbox[e].state # "PUBLISHING"

\* A publication that was confirmed to have failed is tried again until it
\* succeeds, spends its budget, or the execution is settled some other way.
FailedPublicationIsResolved ==
    \A e \in Executions :
        outbox[e].state = "FAILED" ~>
            \/ outbox[e].state = "PUBLISHED"
            \/ outbox[e].state = "FAILED" /\ outbox[e].count >= MaxPublishAttempts
            \/ e \in settled

\* "Requeue execution outboxes left in PUBLISHING after a publisher crash so the
\* durable execution intent is not orphaned" (celery_app.py): a claimed intent
\* reaches the broker, or its publication is at least confirmed to have failed.
IntentIsNotOrphaned ==
    \A e \in Executions :
        outbox[e].state = "PUBLISHING" ~> sent[e] > 0 \/ outbox[e].state = "FAILED"

=============================================================================
