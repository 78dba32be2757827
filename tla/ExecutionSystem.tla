--------------------------- MODULE ExecutionSystem ---------------------------
(***************************************************************************)
(* Execution dispatch from end to end: the outbox and its reconcilers      *)
(* publish an execution (ExecutionOutbox), Celery carries it, the workers  *)
(* claim and settle it (ExecutionAuthority).                               *)
(*                                                                         *)
(* The broker is modelled as the code configures it (app/workers/          *)
(* celery_app.py): a message is acknowledged when its task ends, however   *)
(* it ends (task_acks_late), an unacknowledged message is delivered again  *)
(* after the visibility timeout, and neither a redelivery nor self.retry   *)
(* changes the task id, hence the worker_id.                               *)
(***************************************************************************)
EXTENDS Naturals, FiniteSets

CONSTANTS
    Executions, Tasks, Runs, None, ErrorClasses, MaxRetries, AttemptBound,
    Ingress, Publishers, Sweeps, Identities, IdentityOf,
    MaxPublishAttempts, PublishBound, RollbackBound

VARIABLES
    execution, attempt, run, failure, commits, handoff, dlq,    \* ExecutionAuthority
    outbox, publisher, sweep, sent, rolledBack,                 \* ExecutionOutbox
    ready,      \* messages in the queue
    unacked,    \* messages delivered and not acknowledged
    used,       \* task ids of the messages published so far
    faulted     \* executions that met one of the faults named below (history)

Authority == INSTANCE ExecutionAuthority

Outbox == INSTANCE ExecutionOutbox WITH
    settled <- {e \in Executions : Authority!Terminal(e)},
    RequestBound <- Cardinality(Executions)

\* The constants are as the two parts assume.
ASSUME SystemAssumption ==
    /\ Authority!NoneAssumption
    /\ Authority!PolicyAssumption
    /\ Authority!BoundAssumption
    /\ Outbox!OutboxAssumption

authorityVars == <<execution, attempt, run, failure, commits, handoff, dlq>>
outboxVars == <<outbox, publisher, sweep, sent, rolledBack>>
brokerVars == <<ready, unacked, used>>
vars == <<authorityVars, outboxVars, brokerVars, faulted>>

Message == [execution : Executions, task : Tasks, retries : 0..MaxRetries]

TypeOK ==
    /\ Authority!TypeOK
    /\ Outbox!TypeOK
    /\ ready \subseteq Message
    /\ unacked \subseteq Message
    /\ used \subseteq Tasks
    /\ faulted \subseteq Executions

Init ==
    /\ Authority!Init
    /\ Outbox!Init
    /\ ready = {}
    /\ unacked = {}
    /\ used = {}
    /\ faulted = {}

-----------------------------------------------------------------------------
(* Helpers *)

\* The message that run r is working on.
Carried(r) ==
    [execution |-> run[r].execution, task |-> run[r].task, retries |-> run[r].retries]

\* A retry counted by the task and again by Celery (a faulty variant).
ResentTwice(r) == [Carried(r) EXCEPT !.retries = @ + 2]

\* The same task, sent again by self.retry.
Resent(r) == [Carried(r) EXCEPT !.retries = @ + 1]

\* The queue takes the message of an outbox step that reached the broker.
Accept ==
    IF sent' = sent
    THEN UNCHANGED <<ready, used>>
    ELSE \E e \in Executions, t \in Tasks \ used :
             /\ sent'[e] # sent[e]
             /\ ready' = ready \cup {[execution |-> e, task |-> t, retries |-> 0]}
             /\ used' = used \cup {t}

\* Run r ends its work on an attempt it still owns without settling the rows: a
\* swallowed database error or an exception that escapes the task.
LetsGo(r) ==
    /\ Authority!Owns(r)
    /\ execution' = execution
    /\ run'[r].stage \in {"resending", "recording", "done"}

-----------------------------------------------------------------------------
(* Dispatch *)

\* A request that also sends its task itself, beside the outbox (a faulty variant).
RequestAndSend(p, e) ==
    /\ Authority!RequestExecution(e)
    /\ Outbox!RequestExecution(p, e)
    /\ \E t \in Tasks \ used :
           /\ ready' = ready \cup {[execution |-> e, task |-> t, retries |-> 0]}
           /\ used' = used \cup {t}
    /\ UNCHANGED <<unacked, faulted>>

\* One transaction requests the execution and writes its outbox row.
RequestExecution(p, e) ==
    /\ Authority!RequestExecution(e)
    /\ Outbox!RequestExecution(p, e)
    /\ UNCHANGED <<brokerVars, faulted>>

\* The publisher's further steps, without a crash.
Publish(p) ==
    /\ UNCHANGED <<authorityVars, unacked, faulted>>
    /\ \/ Outbox!ClaimPending(p)
       \/ Outbox!PublishExecution(p)
       \/ Outbox!MarkPublished(p)
       \/ Outbox!MarkFailed(p)
    /\ Accept

\* An ingress worker dispatches a message again, finds the row and may publish it.
\* Wider than the code: the second dispatch derives the coordination id of the first
\* and halts before it requests an execution.
Redispatch(p, e) ==
    /\ UNCHANGED <<authorityVars, brokerVars, faulted>>
    /\ Outbox!ReadPending(p, e)

CrashPublisher(p) ==
    /\ UNCHANGED <<authorityVars, brokerVars>>
    /\ Outbox!CrashPublisher(p)
    /\ faulted' = faulted \cup {publisher[p].execution}

\* Reconcilers without the one that requeues failed rows (a faulty variant).
ReconcileStaleOnly(e) ==
    /\ UNCHANGED <<authorityVars, brokerVars>>
    /\ \/ /\ Outbox!LeaseExpires(e) \/ Outbox!CooldownEnds(e)
          /\ UNCHANGED faulted
       \/ /\ Outbox!RequeueStale(e)
          /\ faulted' = faulted \cup {e}

\* Reconcilers whose requeue of a failed row leaves no trace (a faulty variant).
ReconcileSilently(e) ==
    /\ UNCHANGED <<authorityVars, brokerVars>>
    /\ \/ /\ \/ Outbox!LeaseExpires(e)
             \/ Outbox!CooldownEnds(e)
             \/ Outbox!RequeueFailedSilently(e)
          /\ UNCHANGED faulted
       \/ /\ Outbox!RequeueStale(e)
          /\ faulted' = faulted \cup {e}

\* A stale claim is released: whatever its publisher still learns is lost.
Reconcile(e) ==
    /\ UNCHANGED <<authorityVars, brokerVars>>
    /\ \/ /\ Outbox!LeaseExpires(e) \/ Outbox!CooldownEnds(e) \/ Outbox!RequeueFailed(e)
          /\ UNCHANGED faulted
       \/ /\ Outbox!RequeueStale(e)
          /\ faulted' = faulted \cup {e}

ListStuckPending(s, e) ==
    /\ UNCHANGED <<authorityVars, brokerVars, faulted>>
    /\ Outbox!ListStuckPending(s, e)

SweepStep(s) ==
    /\ UNCHANGED <<authorityVars, unacked, faulted>>
    /\ Outbox!SweepStep(s)
    /\ Accept

RollBackSweep(s) ==
    /\ UNCHANGED <<authorityVars, brokerVars, faulted>>
    /\ Outbox!RollBackSweep(s)

-----------------------------------------------------------------------------
(* Delivery *)

\* Slot r picks up m and claims its execution; a refused claim ends the task and
\* acknowledges m, and so does a claim transaction that fails.
Deliver(r, m) ==
    /\ m \in ready
    /\ run[r] = Authority!IdleRun
    /\ ready' = ready \ {m}
    /\ UNCHANGED <<outboxVars, used>>
    /\ \/ /\ Authority!ClaimExecution(r, m.execution, m.task, m.retries)
          /\ unacked' = unacked \cup {m}
          /\ UNCHANGED faulted
       \/ /\ ~Authority!Claimable(m.execution)
          /\ UNCHANGED <<authorityVars, unacked, faulted>>
       \/ /\ Authority!Claimable(m.execution)
          /\ UNCHANGED <<authorityVars, unacked>>
          /\ faulted' = faulted \cup {m.execution}

\* The visibility timeout of m runs out, whether or not a run still works on it.
VisibilityTimeout(m) ==
    /\ m \in unacked
    /\ ready' = ready \cup {m}
    /\ unacked' = unacked \ {m}
    /\ UNCHANGED <<authorityVars, outboxVars, used, faulted>>

\* A retry whose task is not sent again (a faulty variant).
WorkWithoutResend(r) ==
    /\ Authority!WorkStep(r)
    /\ UNCHANGED <<outboxVars, used, unacked, ready>>
    /\ faulted' = IF LetsGo(r) THEN faulted \cup {run[r].execution} ELSE faulted

\* A worker transaction; the resend of a retry may fail at the broker.
Work(r) ==
    /\ Authority!WorkStep(r)
    /\ UNCHANGED <<outboxVars, used, unacked>>
    /\ \/ /\ ready' = IF run[r].stage = "resending" THEN ready \cup {Resent(r)} ELSE ready
          /\ faulted' = IF LetsGo(r) THEN faulted \cup {run[r].execution} ELSE faulted
       \/ /\ run[r].stage = "resending"
          /\ UNCHANGED ready
          /\ faulted' = faulted \cup {run[r].execution}

Acknowledge(r) ==
    /\ Authority!Acknowledge(r)
    /\ unacked' = unacked \ {Carried(r)}
    /\ UNCHANGED <<outboxVars, ready, used, faulted>>

\* The worker is lost with its host, or only the child process is: Celery then
\* acknowledges the message (no task_reject_on_worker_lost).
Crash(r) ==
    /\ Authority!Crash(r)
    /\ unacked' \in {unacked, unacked \ {Carried(r)}}
    /\ faulted' = faulted \cup {run[r].execution}
    /\ UNCHANGED <<outboxVars, ready, used>>

LeaseExpires(e) ==
    /\ Authority!LeaseExpires(e)
    /\ UNCHANGED <<outboxVars, brokerVars, faulted>>

\* recover_stale_executions, which no schedule starts: an operator may.
RecoverStaleExecution(e) ==
    /\ Authority!RecoverStaleExecution(e)
    /\ faulted' = faulted \cup {e}
    /\ UNCHANGED <<outboxVars, brokerVars>>

-----------------------------------------------------------------------------
(* The specification *)

Next ==
    \/ \E p \in Publishers :
           \/ \E e \in Executions : RequestExecution(p, e) \/ Redispatch(p, e)
           \/ Publish(p)
           \/ CrashPublisher(p)
    \/ \E e \in Executions : Reconcile(e) \/ LeaseExpires(e) \/ RecoverStaleExecution(e)
    \/ \E s \in Sweeps :
           \/ \E e \in Executions : ListStuckPending(s, e)
           \/ SweepStep(s)
           \/ RollBackSweep(s)
    \/ \E r \in Runs :
           \/ \E m \in ready : Deliver(r, m)
           \/ Work(r)
           \/ Acknowledge(r)
           \/ Crash(r)
    \/ \E m \in unacked : VisibilityTimeout(m)

Spec == Init /\ [][Next]_vars

\* A process that does not crash goes on, queues are served, the visibility
\* timeout runs out, and the beat scheduler keeps starting the reconcilers of the
\* outbox.  Nothing starts recover_stale_executions, and nobody has to ask.
Fairness ==
    /\ \A p \in Publishers : WF_vars(Publish(p))
    /\ \A e \in Executions :
           /\ WF_vars(Reconcile(e))
           /\ WF_vars(\E s \in Sweeps : ListStuckPending(s, e))
    /\ \A s \in Sweeps : WF_vars(SweepStep(s))
    /\ \A m \in Message :
           /\ WF_vars(\E r \in Runs : Deliver(r, m))
           /\ WF_vars(VisibilityTimeout(m))
    /\ \A r \in Runs : WF_vars(Work(r)) /\ WF_vars(Acknowledge(r))

FairSpec == Spec /\ Fairness

-----------------------------------------------------------------------------
(* Properties *)

\* Some run holds the current attempt of e.
WorkedOn(e) ==
    \E r \in Runs :
        /\ run[r].stage # "idle"
        /\ run[r].execution = e
        /\ run[r].number = execution[e].attempt_count

\* Something will act on e: its claim has a holder, its message or a retry of it is
\* on the way, its row is held by a publisher, or it is one that a reconciler takes
\* up, which none does once the row has spent its budget.
Attended(e) ==
    \/ execution[e].state = "CLAIMED" /\ WorkedOn(e)
    \/ execution[e].state = "REQUESTED" /\
           \/ \E m \in ready : m.execution = e
           \/ \E r \in Runs : run[r].stage = "resending" /\ run[r].execution = e
           \/ outbox[e].state = "PUBLISHING"
           \/ outbox[e].state = "FAILED" /\ outbox[e].count < MaxPublishAttempts
           \/ /\ outbox[e].state = "PENDING"
              /\ outbox[e].recovered
              /\ outbox[e].count < MaxPublishAttempts

\* The budget of the reconcilers is spent: an operator has to act.
PublicationExhausted(e) ==
    outbox[e].state = "FAILED" /\ outbox[e].count >= MaxPublishAttempts

\* An execution that is neither settled nor attended has met a fault: a publisher
\* crashed or lost its claim, a claim or settling transaction failed, a worker
\* died, a retry could not be sent, or the claim was recovered under its holder.
\* Or its publication spent its budget before the broker took a single message; an
\* execution that was ever sent is not lost that way, whatever becomes of its row.
\* Refused redeliveries, late answers of the broker, overlapping sweeps and slow
\* workers never strand one.
StrandedOnlyByFault ==
    \A e \in Executions :
        execution[e].state \in {"REQUESTED", "CLAIMED"} /\ e \notin faulted =>
            \/ Attended(e)
            \/ PublicationExhausted(e) /\ sent[e] = 0

\* Celery and the reconcilers use the execution authority as it expects to be used:
\* every claim names a message's execution, task and retry count, the count within
\* the task's max_retries however often messages are redelivered and resent.  So
\* all that holds of the authority under any transport holds of this one.
ImplementsAuthority == Authority!Spec

\* The workers use the dispatch outbox as it expects to be used: executions settle
\* one at a time, for good, and only after a message was sent for them.  So all
\* that holds of the outbox whoever settles the executions holds here.
ImplementsOutbox == Outbox!Spec

\* Every requested execution is completed, handed to a human or dead-lettered,
\* unless it meets a fault or its publication spends its budget.
RequestsAreAnswered ==
    \A e \in Executions :
        execution[e].state = "REQUESTED" ~>
            Authority!Terminal(e) \/ PublicationExhausted(e) \/ e \in faulted

\* "Worker restart mid-task: visibility timeout expires, re-claimed idempotently"
\* (docs/architecture/operious-master-plan.md): a claimed execution whose worker
\* is gone and whose message is still with the broker is worked on again.
RestartIsReclaimed ==
    \A e \in Executions :
        /\ execution[e].state = "CLAIMED"
        /\ ~WorkedOn(e)
        /\ \E m \in ready \cup unacked : m.execution = e
        ~> WorkedOn(e) \/ Authority!Terminal(e)

=============================================================================
