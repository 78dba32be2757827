---------------------------- MODULE OutboundSend ----------------------------
(***************************************************************************)
(* Sending a governed customer reply: the outbound_send_outbox row         *)
(* (app/boundary/outbound/send_outbox.py), the delivery ledger row of the  *)
(* same draft (email_delivery.py, whatsapp_delivery.py), the worker that   *)
(* claims the first and sends under the second (outbound_send_tasks.py,    *)
(* *_customer_reply_service.py), an operator who sends through the API,    *)
(* and the minutely reconciler.                                            *)
(*                                                                         *)
(* A step is one committed transaction or one provider call.  The          *)
(* transport is arbitrary: the reconciler enqueues every due row each      *)
(* minute, so a delivery may name any row at any time, more than once.     *)
(***************************************************************************)
EXTENDS Naturals, FiniteSets

CONSTANTS
    Replies,      \* drafts with a send intent
    Workers,      \* slots that run send_outbound_draft
    Operators,    \* API processes that send a draft directly
    Sweeps,       \* processes that run reconcile_outbound_send_outbox
    Tasks,        \* Celery task ids; two slots may run one task after a redelivery
    None,         \* the absent fields of an idle process
    MaxAttempts   \* max_attempts of the outbox runtime

ASSUME SendAssumption ==
    /\ None \notin Replies
    /\ IsFiniteSet(Workers)
    /\ Workers \cap Operators = {}
    /\ MaxAttempts \in Nat \ {0}

VARIABLES
    outbox,     \* outbox[d]: the outbound_send_outbox row of d
    delivery,   \* delivery[d]: the status of the delivery ledger row of d
    sender,     \* sender[p]: where a worker or an operator stands
    sweep,      \* sweep[s]: the stale row that a reconciler listed
    aged,       \* replies older than max_age_seconds
    accepted,   \* accepted[d]: messages that the provider accepted (history)
    lapse       \* lapse[d]: the mishaps that d has met (history)

vars == <<outbox, delivery, sender, sweep, aged, accepted, lapse>>

-----------------------------------------------------------------------------
(* Types *)

Senders == Workers \cup Operators

\* derive_outbound_send_claim_id hashes the task and the attempt it starts.
ClaimIds == Tasks \X (Nat \ {0})

\* A claim does not look at the budget again, so each worker that has read the row
\* can exceed it once.
MaxCount == MaxAttempts + Cardinality(Workers)

OutboxRow ==
    [status : {"absent", "pending", "claimed", "sent", "dead_lettered",
               "needs_reconciliation"},
     claim : ClaimIds \cup {<<>>},
     count : 0 .. MaxCount,
     due : BOOLEAN,          \* next_attempt_at has passed
     stale : BOOLEAN,        \* claimed_at is older than the lease
     attempted : BOOLEAN,    \* send_attempted_at is set
     evidence : BOOLEAN]     \* provider_message_id is set

\* "failed" and "rejected" are FAILED rows with a retryable and another error.
DeliveryStates == {"absent", "pending", "sent", "failed", "rejected"}

SenderState ==
    [stage : {"idle", "reading", "claimed", "preparing", "sending", "accepted",
              "failed", "rejected", "delivered", "marking", "settling"},
     reply : Replies \cup {None},
     claim : ClaimIds \cup {<<>>},
     count : Nat]

SweepState ==
    [reply : Replies \cup {None}, count : Nat,
     verdict : {"none", "sent", "pending", "needs_reconciliation"}]

AbsentRow ==
    [status |-> "absent", claim |-> <<>>, count |-> 0, due |-> FALSE,
     stale |-> FALSE, attempted |-> FALSE, evidence |-> FALSE]

IdleSender == [stage |-> "idle", reply |-> None, claim |-> <<>>, count |-> 0]
IdleSweep == [reply |-> None, count |-> 0, verdict |-> "none"]

\* "retried": sent again after a retryable failure; "unmarked": sent without
\* send_attempted_at; "overtaken": sent after the claim was lost; "unconfirmed":
\* accepted with an answer that has no message id; "unrecorded": the ledger write
\* after the call failed; "requeued": a reconciler reopened it after
\* send_attempted_at was set; "released": a worker that had lost its claim reopened
\* it, since the claim that followed had the same claim id; "crashed": the worker
\* died between acceptance and the end of mark_sent.
Lapses ==
    {"retried", "unmarked", "overtaken", "unconfirmed", "unrecorded", "requeued",
     "released", "crashed"}

TypeOK ==
    /\ outbox \in [Replies -> OutboxRow]
    /\ delivery \in [Replies -> DeliveryStates]
    /\ sender \in [Senders -> SenderState]
    /\ sweep \in [Sweeps -> SweepState]
    /\ aged \subseteq Replies
    /\ accepted \in [Replies -> Nat]
    /\ lapse \in [Replies -> SUBSET Lapses]

Init ==
    /\ outbox = [d \in Replies |-> AbsentRow]
    /\ delivery = [d \in Replies |-> "absent"]
    /\ sender = [p \in Senders |-> IdleSender]
    /\ sweep = [s \in Sweeps |-> IdleSweep]
    /\ aged = {}
    /\ accepted = [d \in Replies |-> 0]
    /\ lapse = [d \in Replies |-> {}]

-----------------------------------------------------------------------------
(* Helpers *)

Resolved == {"sent", "dead_lettered", "needs_reconciliation"}

Advance(p, stage) == sender' = [sender EXCEPT ![p].stage = stage]

Finish(p) == sender' = [sender EXCEPT ![p] = IdleSender]

\* An exception in send_draft: the API reports it, the worker settles its row.
Fail(p) == IF p \in Operators THEN Finish(p) ELSE Advance(p, "settling")

\* The guard of every mark of a worker: the row is CLAIMED under its claim id.
Holds(p) ==
    LET row == outbox[sender[p].reply]
    IN  row.status = "claimed" /\ row.claim = sender[p].claim

\* An exhaustion test without the attempt budget (a faulty variant).
ExhaustedByAge(d, count) == d \in aged

\* And one without the age (a faulty variant).
ExhaustedByCount(d, count) == count >= MaxAttempts

\* should_dead_letter
Exhausted(d, count) == count >= MaxAttempts \/ d \in aged

Lapsed(d, names) == lapse' = [lapse EXCEPT ![d] = @ \cup names]

-----------------------------------------------------------------------------
(* The send intent and its claim *)

\* create_outbound_send_outbox, for the governed draft of an execution or of an
\* approved case.
CreateIntent(d) ==
    /\ outbox[d].status = "absent"
    /\ outbox' = [outbox EXCEPT ![d] = [@ EXCEPT !.status = "pending", !.due = TRUE]]
    /\ UNCHANGED <<delivery, sender, sweep, aged, accepted, lapse>>

\* claim_due_outbox up to its claim id: a row that is not due or out of budget
\* ends the task.
ReadIntent(p, d, t) ==
    /\ sender[p].stage = "idle"
    /\ outbox[d].status = "pending" /\ outbox[d].due
    /\ ~Exhausted(d, outbox[d].count)
    /\ sender' = [sender EXCEPT ![p] =
           [stage |-> "reading", reply |-> d, claim |-> <<t, outbox[d].count + 1>>,
            count |-> 0]]
    /\ UNCHANGED <<outbox, delivery, sweep, aged, accepted, lapse>>

\* The UPDATE that claims, and its commit.
ClaimIntent(p) ==
    LET d == sender[p].reply
    IN  /\ sender[p].stage = "reading"
        /\ IF outbox[d].status = "pending" /\ outbox[d].due
           THEN /\ outbox' = [outbox EXCEPT ![d] =
                       [@ EXCEPT !.status = "claimed", !.claim = sender[p].claim,
                                 !.count = outbox[d].count + 1, !.stale = FALSE]]
                /\ sender' = [sender EXCEPT ![p] =
                       [@ EXCEPT !.stage = "claimed", !.count = outbox[d].count + 1]]
           ELSE Finish(p) /\ UNCHANGED outbox
        /\ UNCHANGED <<delivery, sweep, aged, accepted, lapse>>

\* _mark_send_attempted_best_effort: a lost claim and a database error are both
\* passed over, and the send goes on.
MarkAttempted(p) ==
    /\ sender[p].stage = "claimed"
    /\ \/ Holds(p) /\ outbox' = [outbox EXCEPT ![sender[p].reply].attempted = TRUE]
       \/ UNCHANGED outbox
    /\ Advance(p, "preparing")
    /\ UNCHANGED <<delivery, sweep, aged, accepted, lapse>>

\* An operator sends the draft through the API, without a claim.
SendDirectly(p, d) ==
    /\ p \in Operators
    /\ sender[p].stage = "idle"
    /\ sender' = [sender EXCEPT ![p] = [IdleSender EXCEPT !.stage = "preparing", !.reply = d]]
    /\ UNCHANGED <<outbox, delivery, sweep, aged, accepted, lapse>>

-----------------------------------------------------------------------------
(* send_draft: reserve the delivery, call the provider, record the outcome *)

\* The draft, its governance or the tenant's credentials do not allow the send, the
\* reservation fails, or the reserved delivery is another request's.
RefuseToSend(p) ==
    /\ sender[p].stage = "preparing"
    /\ Fail(p)
    /\ UNCHANGED <<outbox, delivery, sweep, aged, accepted, lapse>>

\* A ledger that lets an unfinished delivery be sent again (a faulty variant).
MayTransmitPending(p, d) == delivery[d] \in {"absent", "pending"}

\* A ledger that takes every failure for retryable (a faulty variant).
MayTransmitAnyFailure(p, d) ==
    delivery[d] = "absent" \/ (delivery[d] \in {"failed", "rejected"} /\ p \in Workers)

\* A delivery that this call created, or one that failed and may be retried,
\* which only the worker asks for (allow_failed_delivery_retry).
MayTransmit(p, d) ==
    \/ delivery[d] = "absent"
    \/ delivery[d] = "failed" /\ p \in Workers

\* A worker that takes a pending delivery for a sent one (a faulty variant).
SentOrPending(d) == delivery[d] \in {"sent", "pending"}

\* The result "already_sent", which the worker treats as a send.
AlreadySent(d) == delivery[d] = "sent"

\* reserve_delivery and the decision on what it found.  A retry leaves the ledger
\* row FAILED while it is on its way.
ReserveDelivery(p) ==
    LET d == sender[p].reply
    IN  /\ sender[p].stage = "preparing"
        /\ delivery' = [delivery EXCEPT ![d] = IF @ = "absent" THEN "pending" ELSE @]
        /\ IF MayTransmit(p, d)
           THEN /\ Advance(p, "sending")
                /\ Lapsed(d, IF delivery[d] = "failed" THEN {"retried"} ELSE {})
           ELSE /\ UNCHANGED lapse
                /\ IF AlreadySent(d) /\ p \in Workers
                   THEN Advance(p, "delivered")
                   ELSE Fail(p)
        /\ UNCHANGED <<outbox, sweep, aged, accepted>>

\* What is known of the claim when the provider is called.
CallLapses(p) ==
    IF p \in Operators THEN {}
    ELSE IF ~Holds(p) \/ outbox[sender[p].reply].count # sender[p].count THEN {"overtaken"}
    ELSE IF ~outbox[sender[p].reply].attempted THEN {"unmarked"}
    ELSE {}

\* The provider takes the message, and says so with a message id; or with an
\* answer that has none, which the sender reports as a 502, as retryable as any
\* 5xx; or its answer is lost or unreadable, which is not retryable.
ProviderAccepts(p) ==
    LET d == sender[p].reply
    IN  /\ sender[p].stage = "sending"
        /\ accepted' = [accepted EXCEPT ![d] = @ + 1]
        /\ \/ Advance(p, "accepted") /\ Lapsed(d, CallLapses(p))
           \/ Advance(p, "failed") /\ Lapsed(d, CallLapses(p) \cup {"unconfirmed"})
           \/ Advance(p, "rejected") /\ Lapsed(d, CallLapses(p))
        /\ UNCHANGED <<outbox, delivery, sweep, aged>>

\* It does not take it: a 429 or 5xx, another status, or no answer at all.
ProviderRefuses(p) ==
    /\ sender[p].stage = "sending"
    /\ \E stage \in {"failed", "rejected"} : Advance(p, stage)
    /\ Lapsed(sender[p].reply, CallLapses(p))
    /\ UNCHANGED <<outbox, delivery, sweep, aged, accepted>>

\* The ledger write after the call; if it fails the exception leaves send_draft.
RecordDelivery(p) ==
    LET d == sender[p].reply
    IN  /\ sender[p].stage \in {"accepted", "failed", "rejected"}
        /\ \/ /\ delivery' = [delivery EXCEPT ![d] =
                     IF sender[p].stage = "accepted" THEN "sent" ELSE sender[p].stage]
              /\ IF sender[p].stage = "accepted" /\ p \in Workers
                 THEN Advance(p, "delivered")
                 ELSE Fail(p)
              /\ UNCHANGED lapse
           \/ Fail(p) /\ Lapsed(d, {"unrecorded"}) /\ UNCHANGED delivery
        /\ UNCHANGED <<outbox, sweep, aged, accepted>>

-----------------------------------------------------------------------------
(* The worker settles its row *)

\* _record_provider_message_id_best_effort
RecordEvidence(p) ==
    /\ sender[p].stage = "delivered"
    /\ \/ Holds(p) /\ outbox' = [outbox EXCEPT ![sender[p].reply].evidence = TRUE]
       \/ UNCHANGED outbox
    /\ Advance(p, "marking")
    /\ UNCHANGED <<delivery, sweep, aged, accepted, lapse>>

\* mark_sent: a lost claim ends the task, a database error is settled as a
\* failure.
MarkSent(p) ==
    /\ sender[p].stage = "marking"
    /\ \/ /\ Holds(p)
          /\ outbox' = [outbox EXCEPT ![sender[p].reply] =
                 [@ EXCEPT !.status = "sent", !.evidence = TRUE]]
          /\ Finish(p)
       \/ ~Holds(p) /\ Finish(p) /\ UNCHANGED outbox
       \/ Advance(p, "settling") /\ UNCHANGED outbox
    /\ UNCHANGED <<delivery, sweep, aged, accepted, lapse>>

\* _reschedule_or_dead_letter, on the count that this worker claimed; its time is
\* the one at which the row was claimed, when it was not too old.  A lost claim or
\* a database error leaves the row as it is.
SettleFailure(p) ==
    LET d == sender[p].reply
    IN  /\ sender[p].stage = "settling"
        /\ \/ /\ Holds(p) /\ sender[p].count >= MaxAttempts
              /\ outbox' = [outbox EXCEPT ![d].status = "dead_lettered"]
              /\ UNCHANGED lapse
           \/ /\ Holds(p) /\ sender[p].count < MaxAttempts
              /\ outbox' = [outbox EXCEPT ![d] =
                     [@ EXCEPT !.status = "pending", !.claim = <<>>, !.due = FALSE,
                               !.stale = FALSE]]
              /\ Lapsed(d, IF outbox[d].count # sender[p].count THEN {"released"} ELSE {})
           \/ UNCHANGED <<outbox, lapse>>
        /\ Finish(p)
        /\ UNCHANGED <<delivery, sweep, aged, accepted>>

\* The process dies.
Crash(p) ==
    /\ sender[p].stage # "idle"
    /\ Finish(p)
    /\ Lapsed(sender[p].reply,
              IF p \in Workers /\ sender[p].stage \in {"accepted", "delivered", "marking"}
              THEN {"crashed"} ELSE {})
    /\ UNCHANGED <<outbox, delivery, sweep, aged, accepted>>

-----------------------------------------------------------------------------
(* Time and the reconciler *)

BecomesDue(d) ==
    /\ outbox[d].status = "pending" /\ ~outbox[d].due
    /\ outbox' = [outbox EXCEPT ![d].due = TRUE]
    /\ UNCHANGED <<delivery, sender, sweep, aged, accepted, lapse>>

LeaseExpires(d) ==
    /\ outbox[d].status = "claimed" /\ ~outbox[d].stale
    /\ outbox' = [outbox EXCEPT ![d].stale = TRUE]
    /\ UNCHANGED <<delivery, sender, sweep, aged, accepted, lapse>>

GrowsOld(d) ==
    /\ outbox[d].status # "absent"
    /\ d \notin aged
    /\ aged' = aged \cup {d}
    /\ UNCHANGED <<outbox, delivery, sender, sweep, accepted, lapse>>

\* requeue_stale_claimed: what the listed row's markers say of the send.
Verdict(row) ==
    IF row.evidence THEN "sent"
    ELSE IF ~row.attempted THEN "pending"
    ELSE "needs_reconciliation"

ListStale(s, d) ==
    /\ sweep[s] = IdleSweep
    /\ outbox[d].status = "claimed" /\ outbox[d].stale
    /\ sweep' = [sweep EXCEPT ![s] =
           [reply |-> d, count |-> outbox[d].count, verdict |-> Verdict(outbox[d])]]
    /\ UNCHANGED <<outbox, delivery, sender, aged, accepted, lapse>>

\* The conditions of the UPDATE that follows the verdict.  A claim made after the
\* listing is not stale; only the requeue does not look at the markers again.
StillStale(s) ==
    LET row == outbox[sweep[s].reply]
    IN  /\ row.status = "claimed"
        /\ row.count = sweep[s].count
        /\ sweep[s].verdict = "sent" => row.evidence
        /\ sweep[s].verdict = "needs_reconciliation" => row.attempted /\ ~row.evidence

\* A reconciler that goes by its reading alone (a faulty variant).
ResolveUnchecked(s) ==
    LET d == sweep[s].reply
    IN  /\ d # None
        /\ outbox' = [outbox EXCEPT ![d] =
               [@ EXCEPT !.status = sweep[s].verdict, !.claim = <<>>, !.stale = FALSE]]
        /\ sweep' = [sweep EXCEPT ![s] = IdleSweep]
        /\ UNCHANGED <<delivery, sender, aged, accepted, lapse>>

ResolveStale(s) ==
    LET d == sweep[s].reply
        verdict == sweep[s].verdict
    IN  /\ d # None
        /\ outbox' =
               IF ~StillStale(s) THEN outbox
               ELSE IF verdict = "pending"
               THEN [outbox EXCEPT ![d] =
                       [@ EXCEPT !.status = verdict, !.claim = <<>>, !.stale = FALSE]]
               ELSE [outbox EXCEPT ![d].status = verdict]
        /\ Lapsed(d, IF StillStale(s) /\ verdict = "pending" /\ outbox[d].attempted
                     THEN {"requeued"} ELSE {})
        /\ sweep' = [sweep EXCEPT ![s] = IdleSweep]
        /\ UNCHANGED <<delivery, sender, aged, accepted>>

\* dead_letter_exhausted_pending: claimed and dead-lettered in one transaction.
DeadLetterExhausted(d) ==
    /\ outbox[d].status = "pending" /\ outbox[d].due
    /\ Exhausted(d, outbox[d].count)
    /\ outbox' = [outbox EXCEPT ![d] =
           [@ EXCEPT !.status = "dead_lettered", !.count = outbox[d].count + 1]]
    /\ UNCHANGED <<delivery, sender, sweep, aged, accepted, lapse>>

-----------------------------------------------------------------------------
(* The specification *)

\* What a process does without being started and without dying.
Step(p) ==
    \/ ClaimIntent(p)
    \/ MarkAttempted(p)
    \/ RefuseToSend(p)
    \/ ReserveDelivery(p)
    \/ ProviderAccepts(p)
    \/ ProviderRefuses(p)
    \/ RecordDelivery(p)
    \/ RecordEvidence(p)
    \/ MarkSent(p)
    \/ SettleFailure(p)

Deliver(d) == \E p \in Workers, t \in Tasks : ReadIntent(p, d, t)

Pass(d) == BecomesDue(d) \/ LeaseExpires(d) \/ GrowsOld(d)

Next ==
    \/ \E d \in Replies :
           \/ CreateIntent(d)
           \/ Deliver(d)
           \/ Pass(d)
           \/ DeadLetterExhausted(d)
           \/ \E p \in Operators : SendDirectly(p, d)
           \/ \E s \in Sweeps : ListStale(s, d)
    \/ \E p \in Senders : Step(p) \/ Crash(p)
    \/ \E s \in Sweeps : ResolveStale(s)

Spec == Init /\ [][Next]_vars

\* Time passes, the reconciler is started every minute and ends, it enqueues what
\* is due and the queue is served, and a process that does not die goes on.
Fairness ==
    /\ \A d \in Replies :
           /\ WF_vars(BecomesDue(d)) /\ WF_vars(LeaseExpires(d)) /\ WF_vars(GrowsOld(d))
           /\ WF_vars(Deliver(d))
           /\ WF_vars(DeadLetterExhausted(d))
           /\ WF_vars(\E s \in Sweeps : ListStale(s, d))
    /\ \A p \in Senders : WF_vars(Step(p))
    /\ \A s \in Sweeps : WF_vars(ResolveStale(s))

FairSpec == Spec /\ Fairness

-----------------------------------------------------------------------------
(* Properties *)

\* A row says SENT, and the ledger says so, only if the provider accepted the
\* message: no reply is reported to the tenant and not to the customer.
SentIsTrue ==
    \A d \in Replies : outbox[d].status = "sent" \/ delivery[d] = "sent" => accepted[d] > 0

\* The ledger alone makes a reply unique: whatever crashes, whatever marker is
\* lost, whoever loses a claim, and although operators and workers share it, the
\* provider takes a second message only after a retryable failure was recorded.
DuplicateNeedsRetry ==
    \A d \in Replies : accepted[d] > 1 => "retried" \in lapse[d]

\* Outbox and ledger together also keep retried replies unique, unless one of the
\* mishaps happens that the markers do not cover.
DuplicateNeedsMishap ==
    \A d \in Replies :
        accepted[d] > 1 =>
            lapse[d] \cap {"unmarked", "overtaken", "unconfirmed", "unrecorded",
                           "requeued", "released"} # {}

\* A row that is sent, dead-lettered or handed to an operator for reconciliation
\* stays so: no late worker and no reconciler reopens it.
ResolvedIsFinal ==
    [][\A d \in Replies :
           outbox[d].status \in Resolved => outbox'[d].status = outbox[d].status]_vars

\* Every send intent is resolved, whatever crashes.
IntentsAreResolved ==
    \A d \in Replies : outbox[d].status = "pending" ~> outbox[d].status \in Resolved

\* "A crash between the provider send and mark_sent must NOT cause a duplicate
\* customer message" (tests/test_outbound_send_reconciliation.py): after such a
\* crash the provider takes the reply no more.
CrashCausesNoDuplicate ==
    [][\A d \in Replies : "crashed" \in lapse[d] => accepted'[d] = accepted[d]]_vars
=============================================================================
