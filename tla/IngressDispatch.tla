--------------------------- MODULE IngressDispatch ---------------------------
(***************************************************************************)
(* Turning a captured customer message into an execution: the              *)
(* ingress_dispatch_outbox row (app/boundary/ingress_dispatch_outbox.py),  *)
(* the task that claims and dispatches it, its wait for WhatsApp media,    *)
(* its retries and its dead letter, and the minutely reconciler            *)
(* (app/workers/ingress_dispatch_tasks.py).                                *)
(*                                                                         *)
(* A step is one committed transaction.  The dispatch itself is one: the   *)
(* write-once coordination envelope, and the execution if it is accepted.  *)
(* The transport is arbitrary: capture, reconciler and replays enqueue a   *)
(* row, so a task may name any row at any time, more than once.            *)
(***************************************************************************)
EXTENDS WhatsAppMediaFetch

CONSTANTS
    Ingresses,      \* captured messages
    MediaOf,        \* MediaOf[i]: the media placeholders that message i may have
    Workers,        \* slots that run dispatch_ingress
    WorkersOf,      \* WorkersOf[i]: the slots that serve the queue of i's channel
    Tasks,          \* Celery task ids; two slots may run one task after a redelivery
    NoIngress,      \* the absent message of an idle worker
    MaxAttempts,    \* max_attempts of the outbox runtime
    MediaWaitLimit, \* _MAX_WHATSAPP_MEDIA_WAIT_RESCHEDULES
    MediaCommits    \* whether the webhook's session is committed after it wrote media rows

ASSUME DispatchAssumption ==
    /\ NoIngress \notin Ingresses
    /\ MediaOf \in [Ingresses -> SUBSET Media]
    /\ \A i, j \in Ingresses : i # j => MediaOf[i] \cap MediaOf[j] = {}
    /\ IsFiniteSet(Workers)
    /\ WorkersOf \in [Ingresses -> SUBSET Workers]
    /\ MaxAttempts \in Nat \ {0}
    /\ MediaWaitLimit \in 0 .. MaxAttempts
    /\ MediaCommits \in BOOLEAN

VARIABLES
    placeholders,  \* placeholders[i]: the media that the captured payload of i names
    webhook,       \* webhook[i]: where the request that captures i stands
    outbox,        \* outbox[i]: the ingress_dispatch_outbox row of i
    aged,          \* messages older than max_age_seconds
    worker,        \* worker[p]: where a dispatching task stands
    coordination,  \* coordination[i]: the coordination envelope of i
    executions,    \* executions[i]: executions requested for i
    dlq,           \* dlq[i]: the dead-letter record of i and its dead-letter events
    lapse          \* lapse[i]: what happened to i on its way (history)

captureVars == <<placeholders, webhook>>

dispatchVars == <<outbox, aged, worker, coordination, executions, dlq, lapse>>

-----------------------------------------------------------------------------
(* Types *)

\* derive_ingress_dispatch_claim_id hashes the task and the attempt it starts.
ClaimIds == Tasks \X (Nat \ {0})

\* A claim does not look at the budget again: each worker that has read the row within
\* its budget may claim it once more, and so may the reconciler, to dead-letter it.
MaxCount == MaxAttempts + Cardinality(Workers)

OutboxRow ==
    [status : {"absent", "pending", "claimed", "dispatched", "dead_lettered"},
     claim : ClaimIds \cup {<<>>},   \* while it is claimed
     count : 0 .. MaxCount,
     due : BOOLEAN,     \* next_attempt_at has passed
     stale : BOOLEAN]   \* claimed_at is older than the lease

WorkerState ==
    [stage : {"idle", "reading", "claimed", "composing", "dispatching", "marking",
              "deferred", "settling"},   \* not admitted, or an exception
     ingress : Ingresses \cup {NoIngress},
     claim : ClaimIds \cup {<<>>},
     count : 0 .. MaxCount,
     missing : SUBSET Media]   \* media that were pending when the payload was composed

\* What the last effective dispatch came to.  "refused": no envelope was written;
\* "held": an envelope that topology, policy, governance or arbitration stopped.
Outcomes == {"none", "refused", "held", "accepted"}

Coordination == [outcome : Outcomes, missing : SUBSET Media]

\* A row has one dead-letter record, whatever the number of its dead letters (the record
\* is unique by task_name and task_id), and an event for each attempt count of one.
DeadLetter ==
    [state : {"absent", "none", "claimed", "published", "failed"},
     tries : Nat,                    \* replay_attempt_count
     events : SUBSET (1 .. MaxCount)]

\* "troubled": a dispatch was not admitted, or it or its mark raised, a lease expired,
\* or the age limit passed; "hurried": a worker went on although media were pending,
\* because its waits were used up or its claim was lost; "unregistered": a worker went
\* on where a placeholder had no row.
Lapses == {"troubled", "hurried", "unregistered"}

\* "running": the message is captured, its media rows are not written; "lost": the
\* request ended without them.
Webhook == {"none", "running", "ended", "lost"}

DispatchTypeOK ==
    /\ placeholders \in [Ingresses -> SUBSET Media]
    /\ webhook \in [Ingresses -> Webhook]
    /\ outbox \in [Ingresses -> OutboxRow]
    /\ aged \subseteq Ingresses
    /\ worker \in [Workers -> WorkerState]
    /\ coordination \in [Ingresses -> Coordination]
    /\ executions \in [Ingresses -> Nat]
    /\ dlq \in [Ingresses -> DeadLetter]
    /\ lapse \in [Ingresses -> SUBSET Lapses]

AbsentRow ==
    [status |-> "absent", claim |-> <<>>, count |-> 0, due |-> FALSE, stale |-> FALSE]

NoDeadLetter == [state |-> "absent", tries |-> 0, events |-> {}]

IdleWorker ==
    [stage |-> "idle", ingress |-> NoIngress, claim |-> <<>>, count |-> 0, missing |-> {}]

DispatchInit ==
    /\ placeholders = [i \in Ingresses |-> {}]
    /\ webhook = [i \in Ingresses |-> "none"]
    /\ outbox = [i \in Ingresses |-> AbsentRow]
    /\ aged = {}
    /\ worker = [p \in Workers |-> IdleWorker]
    /\ coordination = [i \in Ingresses |-> [outcome |-> "none", missing |-> {}]]
    /\ executions = [i \in Ingresses |-> 0]
    /\ dlq = [i \in Ingresses |-> NoDeadLetter]
    /\ lapse = [i \in Ingresses |-> {}]

-----------------------------------------------------------------------------
(* Helpers *)

Settled == {"dispatched", "dead_lettered"}

Advance(p, stage) == worker' = [worker EXCEPT ![p].stage = stage]

Finish(p) == worker' = [worker EXCEPT ![p] = IdleWorker]

Lapsed(i, names) == lapse' = [lapse EXCEPT ![i] = @ \cup names]

\* The guard of every mark: the row is CLAIMED under the worker's claim id.
Holds(p) ==
    LET row == outbox[worker[p].ingress]
    IN  row.status = "claimed" /\ row.claim = worker[p].claim

\* An exhaustion test without the age (a faulty variant).
ExhaustedByCount(i, count) == count >= MaxAttempts

\* And one without the budget (a faulty variant).
ExhaustedByAge(i, count) == i \in aged

\* should_dead_letter
Exhausted(i, count) == count >= MaxAttempts \/ i \in aged

\* A claimed or requeued row goes back to PENDING.
Reopened(row, due) ==
    [row EXCEPT !.status = "pending", !.claim = <<>>, !.due = due, !.stale = FALSE]

Ended(row, status) == [row EXCEPT !.status = status, !.claim = <<>>, !.stale = FALSE]

Rescheduled(i) == outbox' = [outbox EXCEPT ![i] = Reopened(@, FALSE)]

\* The id of a dead letter's event is derived from the row and the attempt count; an
\* event of that id with another time is an error.
Recordable(i, count) == count \notin dlq[i].events

\* The event is appended, and the record written unless the row has one: an earlier
\* record is left as its replays left it.
Recorded(i, count) ==
    [dlq[i] EXCEPT !.state = IF @ = "absent" THEN "none" ELSE @,
                   !.events = @ \cup {count}]

-----------------------------------------------------------------------------
(* Capture and claim *)

\* The message and its outbox row, in one transaction.
Capture(i, ms) ==
    /\ outbox[i].status = "absent"
    /\ outbox' = [outbox EXCEPT ![i] = [@ EXCEPT !.status = "pending", !.due = TRUE]]
    /\ placeholders' = [placeholders EXCEPT ![i] = ms]
    /\ webhook' = [webhook EXCEPT ![i] = IF ms = {} THEN "ended" ELSE "running"]
    /\ UNCHANGED <<aged, worker, coordination, executions, dlq, lapse>>

\* The media rows, in the transaction that follows, and the end of the request.  The
\* session closes with it: whether it is committed before is left to its owner, and
\* get_db_session does not.
CaptureMedia(i) ==
    /\ webhook[i] = "running"
    /\ CreatePending(IF MediaCommits THEN placeholders[i] ELSE {})
    /\ webhook' = [webhook EXCEPT ![i] = "ended"]
    /\ UNCHANGED placeholders

\* The request fails or its process dies in between; the provider's next delivery of
\* the message finds its nonce used.
LoseMedia(i) ==
    /\ webhook[i] = "running"
    /\ webhook' = [webhook EXCEPT ![i] = "lost"]
    /\ UNCHANGED <<mediaVars, placeholders>>

\* claim_due_outbox up to its claim id: a row that is not due or out of budget ends
\* the task.
ReadOutbox(p, i, t) ==
    /\ worker[p].stage = "idle"
    /\ outbox[i].status = "pending" /\ outbox[i].due
    /\ ~Exhausted(i, outbox[i].count)
    /\ worker' = [worker EXCEPT ![p] =
           [IdleWorker EXCEPT !.stage = "reading", !.ingress = i,
                              !.claim = <<t, outbox[i].count + 1>>]]
    /\ UNCHANGED <<outbox, aged, coordination, executions, dlq, lapse>>

\* The UPDATE that claims, and its commit: PENDING and due, whatever the count.
ClaimOutbox(p) ==
    LET i == worker[p].ingress
    IN  /\ worker[p].stage = "reading"
        /\ IF outbox[i].status = "pending" /\ outbox[i].due
           THEN /\ outbox' = [outbox EXCEPT ![i] =
                       [@ EXCEPT !.status = "claimed", !.claim = worker[p].claim,
                                 !.count = outbox[i].count + 1, !.stale = FALSE]]
                /\ worker' = [worker EXCEPT ![p] =
                       [@ EXCEPT !.stage = "claimed", !.count = outbox[i].count + 1]]
           ELSE Finish(p) /\ UNCHANGED outbox
        /\ UNCHANGED <<aged, coordination, executions, dlq, lapse>>

\* Admission defers the dispatch, or raises.
Defer(p) ==
    /\ worker[p].stage = "claimed"
    /\ \E stage \in {"deferred", "settling"} : Advance(p, stage)
    /\ Lapsed(worker[p].ingress, {"troubled"})
    /\ UNCHANGED <<outbox, aged, coordination, executions, dlq>>

-----------------------------------------------------------------------------
(* The dispatch *)

\* The media of a message whose rows are pending.
PendingMedia(i) == {m \in placeholders[i] : media[m] = "pending"}

\* Its placeholders for which there is no outcome: the row is pending, or not there.
Missing(i) == {m \in placeholders[i] : ~Terminal(m)}

\* A wait that looks at the media alone (a faulty variant).
AwaitsUnbounded(p) == PendingMedia(worker[p].ingress) # {}

\* A wait that ends one attempt early (a faulty variant).
AwaitsTooShort(p) ==
    worker[p].count + 1 < MediaWaitLimit /\ PendingMedia(worker[p].ingress) # {}

\* _wait_for_whatsapp_media_if_pending, up to its reschedule.
AwaitsMedia(p) ==
    worker[p].count < MediaWaitLimit /\ PendingMedia(worker[p].ingress) # {}

\* Why a worker goes on without media.
Excuses(p) ==
    LET i == worker[p].ingress
    IN  (IF PendingMedia(i) # {} /\ (worker[p].count >= MediaWaitLimit \/ ~Holds(p))
         THEN {"hurried"} ELSE {})
        \cup (IF PendingMedia(i) # Missing(i) THEN {"unregistered"} ELSE {})

\* The wait reschedules the row; with a lost claim it reports no wait, and the task
\* goes on to dispatch.
WaitForMedia(p) ==
    LET i == worker[p].ingress
    IN  /\ worker[p].stage = "claimed"
        /\ IF AwaitsMedia(p) /\ Holds(p)
           THEN Rescheduled(i) /\ Finish(p) /\ UNCHANGED lapse
           ELSE Advance(p, "composing") /\ Lapsed(i, Excuses(p)) /\ UNCHANGED outbox
        /\ UNCHANGED <<aged, coordination, executions, dlq>>

\* _resolved_canonical_payload: the state of the media is folded into the payload.
ComposePayload(p) ==
    /\ worker[p].stage = "composing"
    /\ worker' = [worker EXCEPT ![p] =
           [@ EXCEPT !.stage = "dispatching", !.missing = Missing(worker[p].ingress)]]
    /\ UNCHANGED <<outbox, aged, coordination, executions, dlq, lapse>>

\* An envelope that does not keep an accepted dispatch from another (a faulty variant).
EnvelopedIfHeld(i) == coordination[i].outcome = "held"

\* The envelope of the message exists; its id is derived from the message.
Enveloped(i) == coordination[i].outcome \in {"held", "accepted"}

\* The transaction of the dispatch.  Where the envelope exists its insert fails, and the
\* dispatch is halted without an error.  Otherwise it is accepted, with an execution,
\* or held, or refused before there is an envelope.  After the commit the publication
\* of the execution may raise.
Dispatch(p) ==
    LET i == worker[p].ingress
    IN  /\ worker[p].stage = "dispatching"
        /\ \/ /\ ~Enveloped(i)
              /\ \E outcome \in Outcomes \ {"none"} :
                     /\ coordination' = [coordination EXCEPT ![i] =
                            [outcome |-> outcome,
                             missing |-> IF outcome = "refused" THEN {} ELSE worker[p].missing]]
                     /\ executions' = [executions EXCEPT ![i] =
                            IF outcome = "accepted" THEN @ + 1 ELSE @]
           \/ Enveloped(i) /\ UNCHANGED <<coordination, executions>>
        /\ \/ Advance(p, "marking") /\ UNCHANGED lapse
           \/ Advance(p, "settling") /\ Lapsed(i, {"troubled"})
        /\ UNCHANGED <<outbox, aged, dlq>>

\* A dispatch whose exception is passed over (a faulty variant).
PassOver(p) ==
    /\ worker[p].stage = "dispatching"
    /\ Advance(p, "marking")
    /\ UNCHANGED <<outbox, aged, coordination, executions, dlq, lapse>>

\* The dispatch raises and is rolled back.
FailDispatch(p) ==
    /\ worker[p].stage = "dispatching"
    /\ Advance(p, "settling")
    /\ Lapsed(worker[p].ingress, {"troubled"})
    /\ UNCHANGED <<outbox, aged, coordination, executions, dlq>>

\* mark_dispatched: a lost claim ends the task, a database error is settled.
MarkDispatched(p) ==
    LET i == worker[p].ingress
    IN  /\ worker[p].stage = "marking"
        /\ \/ Holds(p) /\ outbox' = [outbox EXCEPT ![i] = Ended(@, "dispatched")]
              /\ Finish(p) /\ UNCHANGED lapse
           \/ ~Holds(p) /\ Finish(p) /\ UNCHANGED <<outbox, lapse>>
           \/ Advance(p, "settling") /\ Lapsed(i, {"troubled"}) /\ UNCHANGED outbox
        /\ UNCHANGED <<aged, coordination, executions, dlq>>

-----------------------------------------------------------------------------
(* Failure *)

\* _reschedule_or_dead_letter, on the count this worker claimed; its time is that of
\* the claim, when the row was not too old.  A lost claim or a database error leaves
\* the row as it is, and so does a dead letter whose event exists already: the error
\* leaves the task and the transaction is rolled back.  After a deferral the error is
\* caught in the task, which finds the row dead-lettered by the same transaction and
\* commits it, without an event.
SettleFailure(p) ==
    LET i == worker[p].ingress
        dead == worker[p].count >= MaxAttempts
    IN  /\ worker[p].stage \in {"deferred", "settling"}
        /\ \/ /\ Holds(p) /\ ~dead
              /\ Rescheduled(i)
              /\ UNCHANGED dlq
           \/ /\ Holds(p) /\ dead /\ Recordable(i, outbox[i].count)
              /\ outbox' = [outbox EXCEPT ![i] = Ended(@, "dead_lettered")]
              /\ dlq' = [dlq EXCEPT ![i] = Recorded(i, outbox[i].count)]
           \/ /\ Holds(p) /\ dead /\ ~Recordable(i, outbox[i].count)
              /\ worker[p].stage = "deferred"
              /\ outbox' = [outbox EXCEPT ![i] = Ended(@, "dead_lettered")]
              /\ UNCHANGED dlq
           \/ UNCHANGED <<outbox, dlq>>
        /\ Finish(p)
        /\ UNCHANGED <<aged, coordination, executions, lapse>>

\* The process dies.
Crash(p) ==
    /\ worker[p].stage # "idle"
    /\ Finish(p)
    /\ UNCHANGED <<outbox, aged, coordination, executions, dlq, lapse>>

-----------------------------------------------------------------------------
(* Time and the reconciler *)

BecomesDue(i) ==
    /\ outbox[i].status = "pending" /\ ~outbox[i].due
    /\ outbox' = [outbox EXCEPT ![i].due = TRUE]
    /\ UNCHANGED <<aged, worker, coordination, executions, dlq, lapse>>

LeaseExpires(i) ==
    /\ outbox[i].status = "claimed" /\ ~outbox[i].stale
    /\ outbox' = [outbox EXCEPT ![i].stale = TRUE]
    /\ Lapsed(i, {"troubled"})
    /\ UNCHANGED <<aged, worker, coordination, executions, dlq>>

GrowsOld(i) ==
    /\ outbox[i].status \in {"pending", "claimed"} /\ i \notin aged
    /\ aged' = aged \cup {i}
    /\ Lapsed(i, {"troubled"})
    /\ UNCHANGED <<outbox, worker, coordination, executions, dlq>>

\* requeue_stale_claimed
Requeued(i) ==
    IF outbox[i].status = "claimed" /\ outbox[i].stale
    THEN Reopened(outbox[i], outbox[i].due)
    ELSE outbox[i]

\* The rows that dead_letter_exhausted_pending finds after the requeue.
Exhaustion ==
    {i \in Ingresses :
        /\ Requeued(i).status = "pending" /\ Requeued(i).due
        /\ Exhausted(i, Requeued(i).count)}

\* One of them, claimed for the reconciler and dead-lettered.
Buried(i) == [Ended(outbox[i], "dead_lettered") EXCEPT !.count = outbox[i].count + 1]

\* One sweep is one transaction over all rows: if the dead letter of one of them cannot
\* be recorded, nothing is requeued, dead-lettered or enqueued.
Collides(i) == i \in Exhaustion /\ ~Recordable(i, outbox[i].count + 1)

Reconcile ==
    /\ \A i \in Ingresses : ~Collides(i)
    /\ outbox' = [i \in Ingresses |-> IF i \in Exhaustion THEN Buried(i) ELSE Requeued(i)]
    /\ dlq' = [i \in Ingresses |->
                  IF i \in Exhaustion THEN Recorded(i, outbox[i].count + 1) ELSE dlq[i]]
    /\ UNCHANGED <<aged, worker, coordination, executions, lapse>>

-----------------------------------------------------------------------------
(* What a process does without being started and without dying. *)

Step(p) ==
    \/ ClaimOutbox(p)
    \/ Defer(p)
    \/ WaitForMedia(p)
    \/ ComposePayload(p)
    \/ Dispatch(p)
    \/ FailDispatch(p)
    \/ MarkDispatched(p)
    \/ SettleFailure(p)

Receive(i) == \E p \in WorkersOf[i], t \in Tasks : ReadOutbox(p, i, t)

Pass(i) == BecomesDue(i) \/ LeaseExpires(i) \/ GrowsOld(i)

\* What leaves the media rows alone.
DispatchNext ==
    \/ \E i \in Ingresses : Receive(i) \/ Pass(i)
    \/ \E p \in Workers : Step(p) \/ Crash(p)
    \/ Reconcile

-----------------------------------------------------------------------------
(* Properties *)

\* A message is the cause of one execution at most, and of one exactly if its envelope
\* was accepted: neither a worker that lost its claim, nor a row dispatched again after
\* a lost mark or by a replay, requests another.
OneExecutionPerIngress ==
    \A i \in Ingresses :
        executions[i] = IF coordination[i].outcome = "accepted" THEN 1 ELSE 0

\* A row says DISPATCHED only when the dispatch has had an outcome: an envelope, or a
\* refusal.  The mark follows the commit of another transaction, and the claim under
\* which it is made may be another worker's with the same id.
DispatchedHasOutcome ==
    \A i \in Ingresses :
        outbox[i].status = "dispatched" => coordination[i].outcome # "none"

Excused(i) == lapse[i] \cap {"hurried", "unregistered"} # {}

\* "[...] the coordination envelope must not be written until media resolves": an
\* envelope lacks the outcome of an attachment only if its worker had used up the
\* waits, or had lost its claim, which ends the wait as well, or was there before the
\* attachment's row.
MediaIsWaitedFor ==
    \A i \in Ingresses : coordination[i].missing # {} => Excused(i)

\* "[...] durable -- a media id is never lost even if the fetch task fails to enqueue"
\* (boundary/whatsapp_media_fetch.py): when the webhook has answered, each placeholder
\* of the message has its row.
MediaIsKept ==
    \A i \in Ingresses :
        webhook[i] = "ended" => \A m \in placeholders[i] : media[m] # "absent"

\* Waiting for media alone never dead-letters a message ("the ticket is never dropped
\* over a slow/failed attachment"), although each wait uses up an attempt.
DeadLetterNeedsTrouble ==
    \A i \in Ingresses :
        dlq[i].state # "absent" => "troubled" \in lapse[i]
=============================================================================
