# A formal model of message and execution dispatch in the operious-ai backend

operious-ai turns customer messages into *executions*: units of automated reasoning that a
Celery worker runs and that end in a governed proposal, in an escalation to a human, or in a
dead letter. What the program promises about an execution does not rest on any one process. It
rests on compare-and-swap updates of a few PostgreSQL rows, on a transactional outbox in front of
Celery, on Celery's late acknowledgements and retries, and on periodic reconcilers that mend
what a crashed process left behind. A customer message enters through an outbox of its own, which
waits for the message's attachments and whose dead letters operators replay; the reply that comes out
of an execution leaves through a third outbox and a delivery ledger. This directory models that
machinery in TLA+, checks it with TLC on small instances and proves with TLAPS, for every value of the
constants, every safety property that the passing runs check.

Paths below are relative to `apps/backend/app/` of the repository unless they say otherwise.

| module | models |
|---|---|
| `ExecutionAuthority` | `execution_records` and `execution_attempts`, the diagnostic worker's transactions, the recovery of stale claims |
| `ExecutionContract` | what `ExecutionAuthority` promises: a grant with a fencing token, and effects that commit once |
| `ExecutionOutbox` | `execution_outbox`, its request-scoped publisher, its three periodic reconcilers |
| `ExecutionSystem` | the composition of both with Celery: delivery, acknowledgement, redelivery, retry, lost workers |
| `ExecutionAuthorityProofs` | the inductive invariant of `ExecutionAuthority` and the theorems drawn from it |
| `ExecutionAuthorityRefinement` | the proof that `ExecutionAuthority` implements `ExecutionContract` |
| `ExecutionOutboxProofs` | what is proved of `ExecutionOutbox` |
| `ExecutionSystemProofs` | the proof that the composition implements both of its parts and strands nothing without a fault |
| `OutboundSend` | `outbound_send_outbox`, the delivery ledger, the sending worker, the direct send of the API, the reconciler |
| `OutboundSendProofs`, `OutboundSendOnceProofs` | what is proved of `OutboundSend`; the second holds the argument against duplicates |
| `WhatsAppMediaFetch` | the rows of WhatsApp attachments, the task that fetches them, its retries |
| `IngressDispatch` | extends it: the webhook's capture, `ingress_dispatch_outbox`, the dispatching worker and its wait for attachments, the reconciler |
| `DeadLetterReplay` | extends it: operators who replay dead letters, the recovery of their claims; the specification of the three |
| `WhatsAppMediaFetchProofs`, `DeadLetterReplayProofs` | what is proved of them |
| `MCExecutionAuthority`, `MCExecutionOutbox`, `MCExecutionSystem`, `MCOutboundSend`, `MCDeadLetterReplay` | values of the constants for TLC |


## 1. Inventory

The backend is a FastAPI application plus Celery workers over one PostgreSQL database and one
Redis (broker and counters). Rows are the only state that survives a process; processes are
API requests, worker slots, and the jobs that the beat scheduler starts.

### Components that carry the execution

**Execution authority** (`execution/runtime.py`, `execution/persistence/postgres.py`,
`workers/agent_tasks.py`). *State:* one `execution_records` row per execution (REQUESTED,
CLAIMED, COMPLETED, FAILED, DEAD_LETTERED; attempt count, claim and lease, retry metadata) and
one `execution_attempts` row per claim. *Operations:* request, claim, authorize completion,
complete, fail, release for retry, dead-letter, expire a stale lease, recover a stale execution.
Each is one conditional UPDATE (or an INSERT) and its RETURNING row decides what the caller does.
*Hard:* two tasks or two deliveries of one task claim at once; a worker outlives its lease and
answers late; a retried task has the same task id, so the `worker_id` does not tell a stale
process from its successor; the failure path spans three transactions with a crash between any two
of them. *Correct when:* each claim has an attempt of its own, rows and attempts agree, the
effects of a completion commit once and only for the current attempt, a failed execution has been
handed to a human first, retries stay inside their budget, and a settled row never changes.

**Execution outbox** (`execution_outbox` in the same repository; `_DeferredExecutionPublisher` in
`dependencies/services.py`; `reconcile_*` and `_reclaim_stuck_pending_outbox` in
`execution/runtime.py`, run by `workers/execution_recovery_tasks.py`). *State:* one row per
execution: PENDING, PUBLISHING, PUBLISHED, FAILED; claim id, lease, attempt count, the
`failed_recovery` metadata. *Operations:* request-and-claim, publish, mark published, mark failed,
requeue stale, requeue failed, sweep stuck-pending. *Hard:* the publisher commits, calls the
broker and marks the row in three steps and may stop between any two; the broker may accept a
message and the call still raise; processes share publisher ids; the sweep calls the broker from
inside an open transaction. *Correct when:* PUBLISHED means sent, the count covers every message
sent, a claim does not stick, a failed publication is resolved.

**Celery transport** (`workers/celery_app.py`, `execution/celery_publisher.py`). *State:* queued
and unacknowledged messages in Redis. *Hard:* `task_acks_late` with a visibility timeout delivers a
message again while its first run is still working; a refused claim acknowledges the message; the
loss of a child process acknowledges it as well, since `task_reject_on_worker_lost` is not set.
*Correct when:* every requested execution is answered, or a nameable fault explains why not.

**Outbound send outbox** (`boundary/outbound/send_outbox.py`, `workers/outbound_send_tasks.py`,
`services/*_customer_reply_service.py`, `boundary/outbound/*_delivery.py`). *State:* an outbox row per
reply (PENDING, CLAIMED, SENT, DEAD_LETTERED, NEEDS_RECONCILIATION) with claim, attempt count, two
markers (`send_attempted_at`, `provider_message_id`); a delivery ledger row per draft (PENDING, SENT,
FAILED with an error code). *Operations:* create, claim, mark attempted, reserve the delivery, call the
provider, record the outcome, record the evidence, mark sent, reschedule, dead-letter; for stale claims
requeue, mark sent from evidence, hand over for reconciliation. *Hard:* a worker may die on either side
of the provider call; the markers are best effort; an operator sends the same draft without a claim; a
retry does not take the ledger row back. *Correct when:* SENT is true, a reply is not sent twice unless
something happens that the markers cannot see, a resolved row stays resolved, and every intent is
resolved.

**Ingress dispatch outbox** (`boundary/ingress_dispatch_outbox.py`, `workers/ingress_dispatch_tasks.py`;
`process_channel_webhook` in `services/ticket_ingress_service.py`). *State:* a row per captured message
(PENDING, CLAIMED, DISPATCHED, DEAD_LETTERED) with claim, attempt count, next attempt, creation time; the
write-once coordination envelope of the message. *Operations:* capture, claim, defer, wait for media,
dispatch, mark, reschedule or dead-letter; for the reconciler requeue, dead-letter, enqueue. *Hard:* the
claim UPDATE does not compare the count it was derived from; the dispatch commits before the mark; waits
and failures share one budget; one sweep is one transaction over all rows. *Correct when:* a message
causes one execution at most, DISPATCHED is true, the envelope waits for attachments, waiting alone
dead-letters nothing, and every message is dispatched or dead-lettered.

**WhatsApp media fetch** (`boundary/whatsapp_media_fetch.py`, `workers/whatsapp_media_fetch_tasks.py`).
*State:* a row per attachment (pending, stored, failed), the stored attachments. *Operations:* create,
fetch, count the attempt, mark stored or failed, retry. *Hard:* a task is one transaction as long as its
download; duplicates wait for its row lock and then go on; the dispatch reads the rows at its own
time. *Correct when:* rows and attachments agree, an outcome is final, no placeholder lacks its row.

**Dead-letter replay** (`services/queue_operations_service.py`, `workers/dead_letter_persistence.py`).
*State:* one record per dispatch row (`UNIQUE(task_name, task_id)`; a later dead letter of the row leaves it
as it is) with the state, claim and count of its replays. *Operations:* claim the record and reset its row,
publish, mark, recover a stale claim. *Hard:* the record can be replayed again after a replay that was
recovered or failed, or was published and ended in a dead letter; recovery takes claims from operators who
are still publishing; a reset row counts its attempts from zero. *Correct when:* claims of a replay are
exclusive and only a replay reopens a dead letter, never a dispatched message.

**Interactions.** A webhook commits a message with its dispatch row and enqueues the dispatch, then
creates the attachments' rows and enqueues their fetches. A dispatch worker reads these rows, writes
the envelope and requests the execution; a replay changes its row under it. From there, a request
(API, conversation, or the ingress worker) inserts the
execution row, its outbox row, and the publisher's claim in one transaction; the publisher then
hands `execution_id` to Celery and marks the outbox row. A worker receives the message, claims
the execution row, and settles it in later transactions; on a retryable failure it reopens the row
and calls `self.retry`, which sends the same task id again without going through the outbox. The
reconcilers of failed and of stuck-pending rows read the execution row to skip settled executions.
A governed draft, of a diagnosed execution or of an approved case, creates a send intent
(`services/outbound_auto_send_service.py`); the minutely reconciler of the send outbox enqueues it, and no process of the
execution path reads it again.

### Components around it

Each is listed in `PROJECT.json` with its sources; these are the ones with state that several
processes share, in the order in which the plan takes them.

| component | state | hard behaviour | correct when |
|---|---|---|---|
| Tenant queue admission (`core/queue_admission.py`) | a Redis counter per tenant | read-then-write release, an expiry set only by the first increment | the counter tracks the backlog |
| Escalation outbox and recovery (`escalation/`, `workers/escalation_*`) | escalation rows and their outbox | delivery with retries, recovery jobs | an escalation reaches a human |
| Case approvals (`approvals/`, `services/case_approval_service.py`) | approval rows and outbox | an approval raced by a stale-case reconciler | an approved case acts once |
| Provider circuit breaker (`runtime/provider_circuit_breaker.py`) | a shared breaker state | half-open probes of several workers | one probe decides |
| Configuration changes (`services/tenant_config_change_request_service.py`) | change requests and versions | approve against a newer version | a stale change is not applied |

The remaining components (governance evaluation, cognition, knowledge, sessions, telemetry, data
protection, routers, adapters, frontends) are sequential code, append-only records, calls of
language models, or I/O; `PROJECT.json` gives the reason for each.


## 2. Plan

1. `ExecutionAuthority` and its proofs: the core, since everything else only feeds it. **Done.**
2. `ExecutionOutbox`, an abstraction of `settled` standing for the authority, and its proofs. **Done.**
3. `ExecutionContract`, implemented by 1 (checked and proved); `ExecutionSystem`, which composes 1
   and 2 with the broker and is proved to implement both. **Done.**
4. `OutboundSend`: the send outbox with the delivery ledger, and its proofs. **Done.** Left of it: the
   abstract contract "sent at most once or in the hands of an operator" under the named mishaps.
5. `WhatsAppMediaFetch`, `IngressDispatch` and `DeadLetterReplay`, each extending the one before, and
   their proofs. **Done.** Left of it: a composition with 2, in which a replayed dispatch meets the
   execution row of the first one; today `OneExecutionPerIngress` is the interface between them.
6. Tenant admission composed with the publisher and the claim.
7. Escalation and case-approval outboxes with their recovery jobs.
8. The circuit breaker, configuration changes.

The safety properties of 1 to 5 are proved. Next among the proofs: that the sending of a reply without
mishaps implements "taken by the provider once", and the composition of 5 with 2.


## 3. The modules and the code

### ExecutionAuthority

| variable | code |
|---|---|
| `execution[e]` | the `execution_records` row: `execution_state`, `attempt_count`, whether the lease of the claim has expired, the attempt that completed, the Celery retries recorded |
| `attempt[e]` | the `execution_attempts` rows of `e`, in order of their numbers |
| `run[r]` | what a worker slot's process holds in local variables: task id, retries, the attempt it claimed, the stage of `_run_diagnostic_execution_async` it has reached |
| `failure[r]` | the error class of the failure that the run persists (`_classify_diagnostic_exception`), with its `max_retries`, `terminal` and whether it escalates; a history variable, no guard reads it |
| `commits[e]`, `handoff[e]`, `dlq[e]` | the durable effects of completions, the escalation rows of the failure path, the dead-letter records |

The actions are database transactions, because that is the grain at which processes see each
other: `RequestExecution`, `ClaimExecution`, `CompleteExecution` (the completion and every effect
persisted with it, or nothing), `FailForRetry`, `DeadLetterExecution`, `RecordDeadLetterTask`,
`PrepareHandoff` (the escalation's outbox row), `FailEscalated`, `RecoverStaleExecution`. Between
them stand the steps of one process: `PrepareWork`, `BeginCompletion` (the legitimacy check that
opens the completion transaction, long before its CAS), `BeginFailure` (which of the error classes
is met, and the decision taken for it), `ResendTask`, `FlushCompletion`, `Acknowledge`, `Crash`.
`Owns(r)` is the guard that `validate_worker_legitimacy` and the settling UPDATEs share. Where the
code swallows a database error and goes on (`SettleOrSwallow`), the action has a disjunct in which
the transaction did nothing; where an exception escapes the task, the run goes to `done` with its
rows untouched.

Abstracted: the reasoning (any outcome), the content of envelopes and metadata (only what a guard
reads is kept), time (a lease is running or expired; `LeaseExpires` may happen at any moment).

`AttemptBound` bounds the claims of one execution in the guard of `ClaimExecution`; the code has no
such bound. The transport is arbitrary in this module: any slot may receive any task id with any retry
count at any time. What is proved here therefore does not depend on how Celery behaves.

### ExecutionOutbox

`outbox[e]` is the row; `publisher[p]` is where a dispatching process stands (`reading`: the row is
read and the claim id derived; `publishing`: claim committed; `sent` / `raised`: the broker call
ended); `sweep[s]` is where a stuck-pending sweep stands, whose whole work on a row is one transaction
in the code, so its writes appear only in `CommitStuckPending` and others wait for its row lock
(`Locked`). The claim id is a pair of the publisher_id and the attempt it starts, which is what
`derive_outbox_claim_id` hashes; several processes may have one publisher_id. `recovered` is the
key `failed_recovery.retry_attempt_count` that `list_stuck_pending_outbox_records` selects on and
only `requeue_failed_outbox` writes. Two kinds of execution exist because they differ in who may
publish again: an *ingress* execution is dispatched again when its worker retries, a
*conversation* execution is not.

### ExecutionSystem

Takes both modules by INSTANCE; `settled` of the outbox becomes "the authority's row is terminal".
Each action is an action of one part together with what it does to the broker. A message is
(execution, task id, retries). `ready` and `unacked` are sets: a redelivered copy and the
original carry the same id, and an acknowledgement removes the one unacknowledged copy, which is what
Redis's unacked hash does. `faulted` remembers the executions that met one of the faults that the
property is about.

`Redispatch`, like `ReadPending` of the outbox, is wider than the code: it lets a repeated dispatch of an
ingress message reach the outbox row, whereas a second dispatch derives the coordination id of the first
(`services/dispatch_service.py:775`) and halts before it requests or publishes anything. Safety is proved
with these additional steps; liveness assumes nothing of them.

The parts of Celery that the code relies on and does not contain (redelivery after the visibility
timeout, an acknowledgement however the task ends, a retry with the same id) are modelled from the
settings in `workers/celery_app.py` and from how the tasks use them.

### OutboundSend

`outbox[d]` and `delivery[d]` are the two rows of a reply; of an error code is kept what
`_email_delivery_error_is_retryable` tells apart (`failed` is retryable, `rejected` is not).
`sender[p]` is where a worker or an operator's API request stands; both run `send_draft`, the worker inside `process_outbound_send_outbox_runtime` and with
`allow_failed_delivery_retry`. The steps are the commits of that code and the provider call between
them: `ReadIntent`, `ClaimIntent`, `MarkAttempted`, `ReserveDelivery`, `ProviderAccepts` or
`ProviderRefuses`, `RecordDelivery`, `RecordEvidence`, `MarkSent`, `SettleFailure`. `Holds(p)` is the
guard that all marks share: status and claim id. A best-effort write has a disjunct in which it did
not happen. `sweep[s]` is what a reconciler has listed and not yet resolved: `ListStale` reads the
markers and decides, `ResolveStale` is the UPDATE with the conditions that it checks again
(`StillStale`).

The email and the WhatsApp service have the same steps; the module is mapped to the email one. The
provider is external: it may take a message and answer with an id, with a 2xx without one, with an error,
or not at all.

`accepted` counts the messages that the provider took, `lapse` remembers what happened to a reply;
no guard reads either.

### WhatsAppMediaFetch, IngressDispatch, DeadLetterReplay

The three modules have one state and one `Next`, in `DeadLetterReplay`; each adds its variables and
actions to those of the module it extends.

| variable | code |
|---|---|
| `media[m]`, `attachments[m]` | the row of an attachment, the attachments stored for it |
| `retries[m]` | the highest retry of its fetch task that was issued; a message of the queue may carry any lower one |
| `fetcher[f]` | a fetch task: the row it has read, whether it holds the row's lock |
| `placeholders[i]`, `webhook[i]` | the attachments that the payload of message `i` names; how far its request is |
| `outbox[i]`, `aged` | the dispatch row; messages beyond `max_age_seconds` |
| `worker[p]` | a dispatch task, by the stage of `process_ingress_dispatch_outbox_runtime` it has reached |
| `coordination[i]`, `executions[i]` | the envelope, with the attachments whose outcome it lacks; the executions requested |
| `dlq[i]` | the dead-letter record of the row, with the state and count of its replays, and the attempt counts of its dead-letter events |
| `requests` | the replay requests between claim and mark |
| `raced`, `lapse[i]` | history; no guard reads them |

A step is one committed transaction, except for the fetch task, whose one transaction spans the download:
its steps are the read, the locking UPDATE and the commit. `ReadOutbox` and `ClaimOutbox` are the two
halves of `claim_due_outbox`, between which another worker, the reconciler or a replay may act.
`WaitForMedia` returns without a wait when its claim is lost, as the code does. `ComposePayload` and
`Dispatch` are the read of the attachments and the commit of the envelope that they went into. A
dispatch is refused, held or accepted; what decides that is left open. `Reconcile` is the whole sweep of
all rows. A failed enqueue needs no action: a worker may receive any due row at any time, or none.

`Capture` is the commit of the message with its dispatch row. The attachments' rows follow in the same
session, after the last commit (`CaptureMedia`). `MediaCommits` says whether whoever owns the session
commits it: with FALSE, which is the wiring at this commit (`get_db_session`), the rows vanish; with
TRUE the module describes the webhook as its documentation means it. The proofs hold for both values; run
`ingress` uses TRUE, since with FALSE no attachment is ever pending, and `ingress_media` uses FALSE.

Event ids are what makes a dead letter unrecordable: the record is written once per row and skipped
afterwards, while an event of the same row and attempt count is an error. `Recordable` says that none
exists; `Collides` is the case in which the sweep fails. In a worker the error leaves the task and undoes its
transaction, with one exception: after a deferral (worker stage `"deferred"`) it is caught inside the task,
the second try finds the row already dead-lettered by the same transaction, and the commit leaves it
dead-lettered without an event.

### ExecutionContract

The abstract specification: an execution is *open*, *granted* or *closed*; a grant carries a token
larger than every earlier one; only the holder of the current grant may return it, complete with
effects, or abandon it; effects happen at most once. The refinement maps a row's state to the status,
the attempt numbers of live runs to grants, `attempt_count` to the token and `commits` to the
effects.


## 4. Runs

| run | instance | shows |
|---|---|---|
| `authority` | 1 execution, 2 worker slots, 2 tasks, 3 claims, 2 retries, both kinds of error class | the six invariants, four action properties and `ImplementsContract` |
| `outbox` | 2 executions, one of ingress, which may or may not be dispatched again, and one of a conversation, of which 1 is requested; 2 publishers with one publisher_id, 2 sweeps of which one may be lost, 2 attempts, 4 claims by dispatch, `FairSpec` | the safety of publication; claims are released, failed publications resolved, overlapping sweeps keep the budget |
| `outbox_orphan` | 1 conversation execution, 3 attempts, up to 2 lost sweeps, otherwise the same | the counterexample of finding 1 |
| `system` | 1 ingress execution, 1 publisher, 1 sweep of which one may be lost, 2 slots, 2 published messages, 1 retry, 2 claims | nothing is stranded without a fault |
| `system_liveness` | 1 conversation execution, 1 sweep, otherwise the same, `FairSpec` | requests are answered; the system implements both of its parts |
| `system_restart` | the same | the counterexample of finding 2 |
| `send` | 1 reply, 2 workers, 2 tasks, 1 sweep, 2 attempts | duplicates only after a named mishap, the attempt budget, resolved rows |
| `send_direct` | 1 reply, 1 worker, 2 operators, 1 sweep, 2 attempts, `FairSpec` | SENT is true, the first send is unique, intents are resolved |
| `send_crash` | 1 reply, 1 worker, 1 operator | the counterexample of finding 3 |
| `ingress` | 1 message out of 3 kinds: an email (2 workers, 1 replay), a WhatsApp message (0 or 1 attachment, 2 fetch tasks, 1 retry), a Shopify message (2 replays); 2 attempts, `FairSpec` | the ten properties below |
| `ingress_wedge` | 1 email, 1 worker, 1 replay, `FairSpec` | the counterexample of finding 4 |
| `ingress_media` | 1 WhatsApp message with 0 or 1 attachment, `MediaCommits` = FALSE | the counterexample of finding 5 |

### Properties

*Authority.* `AttemptLineage`: execution and attempt rows agree: attempts 1 to `attempt_count`
exist and no others, all but the last were closed for retry, the last is RUNNING under the
execution's own worker exactly while the execution is CLAIMED, and otherwise carries its outcome.
`RunsOwnDistinctAttempts`: no two live runs hold one attempt, though they may share a worker_id.
`EffectsCommitOnce`: the effects of a diagnosis are committed exactly once if the row is COMPLETED and
never otherwise. `FailureIsHandedOff`: a FAILED execution has the escalation of its last attempt.
`RetriesWithinBudget`: a run about to resend its task met a failure (`failure`) of a class that is not
terminal and has retries left in its own `max_retries`, and its task has attempts left; between the decision
and the resend the claim may have been lost or the release may have failed. `FailureFollowsPolicy`: an
execution leaves CLAIMED for REQUESTED, FAILED or DEAD_LETTERED as the class of the failure of its *current*
attempt prescribes, by the run that met it, or by the recovery of an expired claim: no execution is given
up with retries left, nor on the verdict of a run that was superseded. `SettledIsFinal`, `OnlyTheHolderReleases`, `AttemptHistoryAppends`: what no step may
do to a settled row, to another run's claim, to past attempts.

*Outbox.* `PublishedWasSent`, `SendsAreCounted` (every message is accounted for by the count, the
open sweeps and the lost ones), `FreshClaimIsExclusive`, `PublishedIsFinal`, `SweepsKeepBudget`,
`ClaimsAreReleased`, `FailedPublicationIsResolved`.

`FreshClaimIsExclusive` is as strong as the code allows. Two processes can hold one claim id, when
both read the same count, the first claims, its lease expires and is requeued, and the second's
UPDATE, which compares the state and not the count, then succeeds with the id it derived before.
The property says that this takes a claim derived from a superseded count. The consequence is
mild: the first process's late mark applies to the second's claim, and `PublishedWasSent` still holds.

*System.* `StrandedOnlyByFault`: an execution that is open and that nothing will act on has met a
fault from a list: its publisher crashed or lost its claim, a claim or settling transaction failed,
its worker died, a retry could not be sent, or its claim was recovered under it. The one other way is named
in the property: its publications failed until the budget was spent, before the broker took a single
message (`PublicationExhausted`); a FAILED row counts as attended only while `reconcile_failed` may still
requeue it. Redeliveries, lost answers of the broker, overlapping sweeps and slow workers are not on the list.
`RequestsAreAnswered`: without those faults, and while the publication budget lasts, every request
ends in a settled execution. `ImplementsAuthority` and `ImplementsOutbox` say that each part meets in
the system only what its own module allows: no claim with more retries than `max_retries`, however often a
message comes back; no execution settled twice, reopened, or settled before a message was sent for it.
They are what entitles the system to the theorems of its parts; they are checked on the smaller of
the two instances, without lost sweeps and repeated ingress dispatches.

*Send.* `SentIsTrue`: a row that says SENT is backed by a message the provider took.
`DuplicateNeedsRetry`: whatever happens to the outbox, a reply is taken twice only if a recorded
retryable failure was tried again; this is the ledger's work alone. `DuplicateNeedsMishap`: with the
outbox, retried replies are unique as well, unless one of six things happened to them: the send was made
without the attempted marker, or by a worker that no longer held the row; the provider took the
message and its answer read as a failure; the ledger write after the call failed; a reconciler
requeued the row after the marker was set; a worker that had lost its claim reopened the row. The last
takes two claims with one id on a row, two workers, three attempts and an operator, more than run `send`
has: `reschedule_outbound_send_outbox` compares status and claim id, and a claim id names the count that
its worker read, not the one its UPDATE set. The proof found it: without this mishap the property is false on
such an instance. Crashes, redeliveries, lost answers without a status and operators are not on the list. `ResolvedIsFinal`, `IntentsAreResolved`. `TypeOK` contains the attempt
budget: each worker that waits with a row it has read may claim it once beyond `MaxAttempts`.

*Ingress.* `OneExecutionPerIngress`: a message causes one execution if its envelope was accepted and none
otherwise; workers that lost their claim, repeated dispatches and replays all end at the write-once
envelope. `DispatchedHasOutcome`: DISPATCHED is set in another transaction than the dispatch and
possibly under another worker's claim with the same id, and is true all the same.
`MediaIsWaitedFor`: an envelope lacks the outcome of an attachment only if its worker had used up the
waits, had lost its claim, or came before the attachment's row. `DeadLetterNeedsTrouble`: waits and
failures share a budget, and waiting alone does not exhaust it. `AttachmentsMatchMedia`,
`ResolvedMediaIsFinal`: duplicated fetches may store an attachment twice, if they overlap, but never
change an outcome. `ReplayClaimsAreExclusive`, `SettledIsFinal`: operators who replay one record, at
once or after one another, do not undo each other or a dispatch. `CapturedIsSettled`: unless a collision
blocks the reconciler, every message that was not dead-lettered is dispatched. `TypeOK` contains the
attempt budget, as for sends.

### Bounds, and why they are enough

Executions (and likewise replies) interact only through worker slots (no transaction touches the rows of two
executions, except that a batch of the recovery job fails together, which is listed as a hazard), so
one execution shows what several would. Two slots, two publishers and two sweeps are what an
interleaving needs. Two tasks arise when a lost answer makes the outbox publish again. `AttemptBound`
3 lets one claim be lost, its successor retried, and a stale run meet a later claim; 2 in the
system, where the message has to come back too. `MaxRetries` is above every class's `max_retries`
in the instance. `RequestBound` bounds the executions requested (in run `outbox` either kind is, and
the two differ in how a row comes to be published again), `PublishBound` the claims that dispatch makes of
one row, `RollbackBound` the lost sweeps, and `Tasks` the messages published for one execution; a sweep or publisher that would
exceed the last one stops at the broker call, in a state where its row is not PUBLISHED. In
`OutboundSend` nothing is bounded but by the code: `MaxAttempts` is its own budget, 2 where the code has
5, which leaves room for a failure, a retry and a claim beyond the budget.

In `DeadLetterReplay`, `CaptureBound` bounds the captured messages, `ReplayBound` the replays of each,
`RequestBound` the replay requests under way. Messages share only the sweep's transaction, so one
message at a time is checked, of three kinds that differ in what may happen to them: two workers
compete for the email, attachments come with WhatsApp, and the Shopify message is replayed after a
replay, which takes two requests under way at once. `MediaWaitLimit` and `MaxAttempts` are 2 where the
code has 3 and 5. There is one task id: two workers on one redelivered task is the case in which claim
ids coincide. What is proved has none of these bounds.

### Fairness

`ExecutionOutbox!Fairness`: time passes, the three reconcilers keep being started (beat entries in
`workers/celery_app.py`, every 60 s by default), and a sweep that has started ends, by commit or by
loss. Nothing is assumed of dispatch: a request may never be repeated and a publisher may stop
anywhere. `ExecutionSystem!Fairness` adds that a publisher and a worker that do not crash go on,
that a queued message is delivered to a free slot, and that the visibility timeout runs out. It
assumes nothing of `recover_stale_executions`, because no schedule starts it, nor of `LeaseExpires`.
`OutboundSend!Fairness`: time passes (leases, delays and the age limit run out), the reconciler is
started every minute (`workers/celery_app.py:220`), enqueues what is due and resolves what it lists, the
queue is served, and a process that does not die goes on. Crashes are never excluded: a worker may die at
every attempt.
`DeadLetterReplay!Fairness` assumes the same of leases, delays, the age limit, the minutely reconciler, the
queue and live workers, and nothing of operators or of the fetching of media: the periodic sweep of
stale attachments reads through a tenant-scoped session without a tenant, so row-level security
hides every row from it.
All assumptions are weak fairness: none asks for a lucky order.

Deadlock is not checked, because the system stops for good reasons: all rows settled, or out of
budget, or stranded by a fault.


## 5. Findings

1. *An intent orphaned by a publisher's crash* (`outbox_orphan`, `IntentIsNotOrphaned`). The stale
   reconciler is documented to keep an intent from being orphaned after a publisher crash. It
   returns the row to PENDING without `failed_recovery.retry_attempt_count`, and the sweep of
   stuck-pending rows selects on that key, so for a conversation execution no periodic job
   publishes the row again.
2. *A restart that is not reclaimed* (`system_restart`, `RestartIsReclaimed`). The master plan says
   that after a worker restart the visibility timeout expires and the task is re-claimed. The
   redelivered message finds the execution CLAIMED, the claim refuses it, the task returns and is
   acknowledged; `recover_stale_executions` would reopen the row but no schedule starts it, and it
   publishes nothing.
3. *A duplicate after a crash* (`send_crash`, `CrashCausesNoDuplicate`). The tests of the send
   reconciliation state that a crash between the provider send and `mark_sent` must not cause a
   duplicate message, and a log message calls the requeue after a lost marker safe. It is safe for a
   first send, whose ledger row is PENDING. A retried delivery stays FAILED while it is on its way;
   when its worker dies after the provider took it and the reconciler has not seen
   `send_attempted_at`, the next worker sends it again.
4. *A second dead letter that cannot be written* (`ingress_wedge`, `ExhaustedIsDeadLettered`). A replay
   counts attempts from zero, and the event of a dead letter has an id made of the row and the count.
   When the replayed message exhausts its attempts again the event exists with another time, and
   `append_event` raises. The worker's settlement is rolled back and the row stays CLAIMED; the
   sweep that would dead-letter it fails as a whole, every minute and for all tenants, so that
   nothing is requeued or enqueued any more.
5. *Attachments without a row* (`ingress_media`, `MediaIsKept`). The module that keeps the rows promises
   that a media id is never lost. The webhook writes the rows after its last commit, and the session is
   closed without one. The fetch task finds no row, the dispatch does not wait, and the envelope
   keeps the placeholder. Even with a commit there would be a gap: the dispatch is enqueued before the
   rows exist (`"unregistered"` in `MediaIsWaitedFor`).

The third finding has a further cause that the model shows. The comment in `requeue_stale_claimed` says
that a row with `send_attempted_at` is never requeued automatically; the case is decided on the listed
record, and the UPDATE that requeues, unlike the two others, does not look at the markers again. A
worker that sets one in between has its row requeued: mishap `"requeued"` of `DuplicateNeedsMishap`.

`PROJECT.json` quotes the lines.


## 6. Proofs

`ExecutionAuthorityProofs` proves for every number of executions, tasks, slots and claims:

| theorem | property |
|---|---|
| `TypeCorrect` | `TypeOK` |
| `LineageHolds` | `AttemptLineage` |
| `AttemptsAreExclusive` | `RunsOwnDistinctAttempts` |
| `EffectsAreCommittedOnce` | `EffectsCommitOnce` |
| `FailuresAreHandedOff` | `FailureIsHandedOff` |
| `RetriesAreBounded` | `RetriesWithinBudget` |
| `FailuresFollowPolicy` | `FailureFollowsPolicy` |
| `SettledStaysFinal` | `SettledIsFinal` |
| `OnlyHoldersRelease` | `OnlyTheHolderReleases` |
| `HistoryOnlyGrows` | `AttemptHistoryAppends` |
| `Refinement` (`ExecutionAuthorityRefinement`) | `ImplementsContract` |

**Assumptions.** `NoneAssumption` (NULL is not an execution, a task or an error class), `PolicyAssumption`
(each error class has a retry budget of at most `MaxRetries`) and `BoundAssumption` (`AttemptBound` is a
positive natural). TLC evaluates them in every run that extends the module.

**The inductive invariant.** `IInv == RowInv /\ HistoryInv /\ PolicyInv`, and no part is inductive without
its auxiliary conjuncts.

- `RowInv` is about the two tables and the runs: `TypeOK`, `AttemptLineage`,
  `RunsOwnDistinctAttempts`, and `RunsAreBound`: a busy run knows an execution, a task and an
  attempt number that has been given out. Exclusiveness is inductive only with it: a new claim
  takes number `attempt_count + 1`, and that no run holds that number follows from every run's
  number being at most `attempt_count`.
- `HistoryInv` is what must be remembered between transactions. `CompletionIsPending`: a run that
  may still complete its attempt has not completed it already, so the `replayed` branch of
  `complete_execution` never commits a second set of effects (`EffectsCommitOnce`).
  `ClosingIsHandedOff`: a run about to fail the row has already made its escalation durable, which
  gives `FailureIsHandedOff` when it does.
- `PolicyInv` is what a run has decided about its failure and carries from one transaction to the next: a run
  on its way to retry may retry by its class and the attempt limit, one on its way to give up may not, and
  takes the way that the class prescribes. It contains `RetriesWithinBudget`; `FailureFollowsPolicy` needs
  the other half as well, together with the claim's guard, by which the run that settles is the current one.

Worker transactions all have one shape (`WorkStepShape`: the run moves on, and the rows are left
alone or settled by the run that owns the attempt), which keeps the case analysis of the row
invariant small; the history invariant goes through the actions one by one. Requests and recovery,
claims, worker steps and releases have a lemma each, and `Invariance` joins them.
The action properties follow from `IInv` and from a case split over `Next`.

**The refinement** maps attempt numbers to tokens. A step of the authority either moves no mapped
variable (reasoning, hand-off, dead-letter records) or is one step of the contract: a claim is a
grant with the next token (`ClaimContract`), settling is the holder's (`WorkStepContract`, by
`OwnerIsCurrentHolder`: a run that passes the code's guard has the newest token), an expired lease that
is recovered is a revocation (`ReleaseContract`).

**The execution outbox.** `ExecutionOutboxProofs` proves, for every number of executions of either kind,
publishers and sweeps, every assignment of publisher ids and every budget, under `OutboxAssumption`:

| theorem | property |
|---|---|
| `TypesHold` | `TypeOK` |
| `PublishedIsSent` | `PublishedWasSent` |
| `SendsAreAccounted` | `SendsAreCounted` |
| `ClaimsAreExclusive` | `FreshClaimIsExclusive` |
| `PublishedStaysFinal` | `PublishedIsFinal` |
| `SweepsStayInBudget` | `SweepsKeepBudget` |

`IInv` has five parts. `Core` is the types, what a row's state says of its count and claim, what a busy
publisher has read, and the sweeps' locks: a locked row stays PENDING and has one sweep. On it rest:

- `EqualClaimsAreOld`: two publishers past their claim that have the same id have one derived from a count
  that the row has passed, whichever claim the row shows now. It is inductive with `ClaimInv`: a claim's number is
  at most the count once it is committed, and committing raises the count, so whoever commits the same
  claim again leaves both behind.
- `SentInv`: not only PUBLISHED rows but everybody who may still mark one knows of an accepted message.
- `SweptInv`: outside ingress a row is claimed once by its request; from then on only sweeps and the
  reconciler move it, which requeues it while attempts are left. So the row that a sweep locks has
  attempts left even if the one it listed is long past.
- `AccountInv`: messages sent, plus the publishers that have raised the count and not yet sent, are at most
  the count plus the lost sweeps plus the sweeps that have sent and not yet raised it. Both sets are
  finite, and a step adds or removes one process.

Again a lemma says what one step may do to one row (`RowMoves`: it is timed, marked, released, claimed
or swept), and the parts are kept by cases over that.

**The system.** `ExecutionSystemProofs` instantiates the two modules of proofs with the constants
and variables of the system and proves, for every instance, under `SystemAssumption` (the parts'
assumptions):

| theorem | property |
|---|---|
| `StrandingIsFault` | `StrandedOnlyByFault` |
| `AuthorityIsImplemented` | `ImplementsAuthority` |
| `OutboxIsImplemented` | `ImplementsOutbox` |
| `TypesHold` | `TypeOK` |
| `PromisesHoldEndToEnd` | five properties of the parts, in the system |

A step of the system is a step of the authority if what Celery carries is well formed
(`AuthorityMoves`), and a step of the outbox if executions settle one at a time, for good and after a
send (`SettledMoves`, `OutboxMoves`). Finality is the authority's own theorem; that something
was sent is `CarriedInv`: whatever is queued, unacknowledged or worked on was sent. So each part
supplies what the other assumes, and the inductive invariants of both hold in the system without being
proved again (`PartsStep`). `SameAuthority` and `SameOutbox` connect the operators as the system names them with
those the proofs are about.

Nothing of that says who attends to an execution. `AttendedInv` does, and it is stronger than the property in
two ways. A claim has a holder that passes the guard of the settling transactions and has not let go
(`Held`); a run that merely has the current number, as `Attended` asks, could be one that is
done. And an open execution of which a message was ever sent has a message in the queue or a run about
to send it again; the outbox counts only as long as nothing was sent (`Unpublished`). Otherwise a
publication after the first would have to be followed to its end. `WorkAttendsItsOwn` is the step that
needs both: a run that settles for retry goes on to `resending`, one that leaves the rows alone still
holds them, or it has let go, which is a fault. What remains, an unsent row whose budget of publications is
spent, is the case that the property names.

**OutboundSend.** `OutboundSendProofs` and `OutboundSendOnceProofs` prove, for every number of replies,
workers (finitely many), operators, reconcilers and tasks and every `MaxAttempts`, under `SendAssumption`:

| theorem | property |
|---|---|
| `SentImpliesAccepted` | `SentIsTrue` |
| `FirstSendIsUnique` | `DuplicateNeedsRetry` |
| `ResolvedStaysFinal` | `ResolvedIsFinal` |
| `DuplicateHasMishap` | `DuplicateNeedsMishap` |
| `TypesHold` (`OutboundSendOnceProofs`) | `TypeOK` |

The invariant of the first three is `Types /\ EvidenceInv /\ FirstSendInv`. `EvidenceInv` extends `SentIsTrue` to whoever
can still cause a SENT: a row with `provider_message_id`, a process past the provider's answer.
`FirstSendInv` says that before any retry at most one process is about to call the provider, that it
is the one which inserted the ledger row, and that nobody has called before. Neither uses the
outbox's claim, which is why operators, expired leases and equal claim ids do no harm here.
`ResolvedIsFinal` needs only that each UPDATE asks for the status it leaves (`ResolvedStep`).

`DuplicateNeedsMishap` needs outbox and ledger together. Claim ids may be equal, but each claim raises the
count, so the count tells its holders apart (`NumberInv`). A ledger row that is PENDING belongs to one
call (`CallerInv`). Without a mishap the worker with an answer is the last that claimed, and its row is marked
attempted (`AnsweredInv`); so is the row behind a ledger row that was FAILED, which the reconciler
then hands to an operator instead of requeueing it. `OnceInv` draws the conclusion: once a reply was
accepted without a mishap, whoever is about to call has lost its claim, which would be a mishap, and
a FAILED ledger row is behind an outbox row that nobody may claim.

`TypeOK` contains the attempt budget. The claim UPDATE does not compare the count, so a worker that read a row
before others claimed it raises the count all the same; what bounds it is how many workers have read and not
yet claimed (`Readers`). `CountInv`: the count plus the readers stays below `MaxAttempts` plus the number of
workers, and reaches it only with the dead letter, which counts once more. A worker becomes a reader
only while the count is below `MaxAttempts`. The same argument, in `CountsOfRows`, bounds the attempts of
`IngressDispatch`, where a replay sets the count back to zero; `MaxCount` is the bound in both modules,
which is why the set of workers is assumed to be finite.

**The ingress path.** `DeadLetterReplayProofs`, with the lemmas of `WhatsAppMediaFetchProofs`, proves for
every number of messages, attachments, workers, tasks, operators and replays, for every budget that
`DispatchAssumption` allows (`MediaWaitLimit` at most `MaxAttempts`) and both values of `MediaCommits`:

| theorem | property |
|---|---|
| `MessageRunsOnce` | `OneExecutionPerIngress` |
| `DispatchIsTrue` | `DispatchedHasOutcome` |
| `EnvelopeWaits` | `MediaIsWaitedFor` |
| `WaitingIsHarmless` | `DeadLetterNeedsTrouble` |
| `AttachmentsAgree` | `AttachmentsMatchMedia` |
| `ReplaysAreExclusive` | `ReplayClaimsAreExclusive` |
| `MediaResolvedOnce` | `ResolvedMediaIsFinal` |
| `SettledStaysFinal` | `SettledIsFinal` |
| `TypesHold` | `TypeOK` |

The invariant `Inv` joins the types with what each property leaves implicit:

- `CaptureIsFirst`: a busy worker's message has been captured, so its row exists.
- `MarkFollowsOutcome`: a worker about to mark has seen its dispatch come to an outcome, and outcomes are
  never taken back; with it a mark is true whoever holds the claim.
- `HurryIsKnown`: a worker that composes a payload while an outcome is missing, or carries such a
  payload, has its excuse recorded. Between wait and composition media only get resolved (`MediaStep`).
- `RequestsAreCounted`: the record of a request is at least at the request's count; a new claim counts one
  further, so it differs from every request under way.
- `UntroubledWaits`: a message that met no trouble keeps its claim with the one worker at work on it, has
  no dead letter, and while it is pending has attempts left, because a wait ends at
  `MediaWaitLimit`, before the budget does.
- `MediaInv`, proved in `WhatsAppMediaFetchProofs`: a pending row is fetched under its lock, which one task has
  (`FetchIsLocked`), so whoever is at work on a resolved row was there when it was resolved
  (`LateIsRaced`); this is what `AttachmentsMatchMedia` needs.

The step lemmas say first what a step may do to one row, one worker, one envelope (`RowStep`,
`WorkerStep` and their kin); each conjunct is then kept by a case split over that, not over the
actions.

**Only model-checked:** liveness (`ClaimsAreReleased`, `FailedPublicationIsResolved`,
`RequestsAreAnswered`, `IntentsAreResolved`, `CapturedIsSettled`), which the prover does not handle under
fairness: a rule for weak fairness needs ENABLED. The properties of the runs that expect a
violation are refuted, by TLC's counterexample, and have no theorem.


## 7. Not modelled

- Of sending: the checks of draft, governance and credentials before the reservation (one refusal), the
  fair listing across tenants, dead-letter records, the retry delay.
- Of ingress: verification and translation of webhooks, the nonce that drops a repeated delivery (a message
  is captured once), what admission, topology, policy, governance and arbitration decide, batch ingestion, page limits
  of the sweep, the dead-letter record of a failed attachment, which nothing reads back. The sweep's
  statements are one step; a row that another transaction changes between two of them is left to the next
  sweep by the same guards.
- Of replays: tasks other than `dispatch_ingress`, whose replay resets no row.
- The provider circuit breaker: a failure counter in Redis that changes when a language model is called, not
  what becomes of a row.
- The components of section 1 beyond the ingress path, the execution path and the send outbox; the
  plan says in which order they come.
- Inside the execution path: the tail of publications that follow a completion's commit
  (proposals, session events) and the admission counter, both listed as hazards without a property;
  tenant filters, page limits and batch boundaries of the reconcilers; Celery priorities,
  countdowns and time limits, which only delay.
- `SendsAreCounted` and the outbox bounds do not speak of retries by `self.retry`, which go to the
  broker without the outbox; `ExecutionSystem` counts them in the message.
