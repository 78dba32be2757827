-------------------------- MODULE DeadLetterReplay --------------------------
(***************************************************************************)
(* Ingress dispatch with the operators who replay its dead letters         *)
(* (app/services/queue_operations_service.py): a replay claims the         *)
(* dead-letter record and resets the outbox row in one transaction, calls  *)
(* the broker, and records what came of it in another.                     *)
(***************************************************************************)
EXTENDS IngressDispatch

CONSTANTS
    ReplayBound,   \* ReplayBound[i] bounds the replays of i, which the code does not
    RequestBound,  \* bounds the replay requests that are under way
    CaptureBound   \* bounds the captured messages

ASSUME ReplayAssumption ==
    /\ ReplayBound \in [Ingresses -> Nat]
    /\ RequestBound \in Nat
    /\ CaptureBound \in Nat

VARIABLE requests  \* the requests of operators that are between claim and mark

vars == <<mediaVars, captureVars, dispatchVars, requests>>

-----------------------------------------------------------------------------
Request ==
    [stage : {"publishing", "published", "failed"},
     ingress : Ingresses,
     tries : Nat]   \* replay_attempt_count, from which the claim id is derived

TypeOK ==
    /\ MediaTypeOK
    /\ DispatchTypeOK
    /\ requests \subseteq Request

Init == MediaInit /\ DispatchInit /\ requests = {}

-----------------------------------------------------------------------------
\* A record that was never replayed, or whose replay failed; or a published one whose
\* row was dead-lettered again.
Replayable(i) ==
    \/ dlq[i].state \in {"none", "failed"}
    \/ dlq[i].state = "published" /\ outbox[i].status = "dead_lettered"

\* A replay that starts its row afresh whatever became of it (a faulty variant).
ResetAlways(row) == [AbsentRow EXCEPT !.status = "pending", !.due = TRUE]

\* _prepare_claimed_replay_target: a row that is CLAIMED or DISPATCHED is left alone.
Reset(row) ==
    IF row.status \in {"claimed", "dispatched"} THEN row
    ELSE [AbsentRow EXCEPT !.status = "pending", !.due = TRUE]

\* A claim that does not count (a faulty variant).
TryAgain(i) == dlq[i].tries

\* replay_attempt_count of the claim.
NextTry(i) == dlq[i].tries + 1

\* The record is claimed and the row reset, in one transaction.  The reset row counts as
\* created now.
ClaimReplay(i) ==
    LET tries == NextTry(i)
    IN  /\ Replayable(i)
        /\ dlq[i].tries < ReplayBound[i] /\ Cardinality(requests) < RequestBound
        /\ dlq' = [dlq EXCEPT ![i].state = "claimed", ![i].tries = tries]
        /\ outbox' = [outbox EXCEPT ![i] = Reset(@)]
        /\ aged' = IF outbox[i].status \in {"claimed", "dispatched"} THEN aged ELSE aged \ {i}
        /\ requests' = requests \cup
               {[stage |-> "publishing", ingress |-> i, tries |-> tries]}
        /\ UNCHANGED <<worker, coordination, executions, lapse>>

\* The broker takes the task, or the call raises, whether or not it took it.
PublishReplay(r) ==
    /\ r.stage = "publishing"
    /\ \E stage \in {"published", "failed"} :
           requests' = (requests \ {r}) \cup {[r EXCEPT !.stage = stage]}
    /\ UNCHANGED dispatchVars

\* The outcome is recorded if the record is still claimed under the claim id.
MarkReplay(r) ==
    /\ r.stage \in {"published", "failed"}
    /\ dlq' = IF dlq[r.ingress].state = "claimed" /\ dlq[r.ingress].tries = r.tries
              THEN [dlq EXCEPT ![r.ingress].state = r.stage]
              ELSE dlq
    /\ requests' = requests \ {r}
    /\ UNCHANGED <<outbox, aged, worker, coordination, executions, lapse>>

\* The API process dies, or one of its transactions fails.
AbandonReplay(r) == requests' = requests \ {r} /\ UNCHANGED dispatchVars

\* recover_dead_letter_replays, for a claim older than its lease.
RecoverReplay(i) ==
    /\ dlq[i].state = "claimed"
    /\ dlq' = [dlq EXCEPT ![i].state = "failed"]
    /\ UNCHANGED <<outbox, aged, worker, coordination, executions, lapse, requests>>

ReplayNext ==
    \/ \E i \in Ingresses : ClaimReplay(i) \/ RecoverReplay(i)
    \/ \E r \in requests : PublishReplay(r) \/ MarkReplay(r) \/ AbandonReplay(r)

-----------------------------------------------------------------------------
(* The specification *)

\* What a dispatch leaves alone.
others == <<mediaVars, captureVars, requests>>

Next ==
    \/ \E i \in Ingresses : \E ms \in SUBSET MediaOf[i] :
           /\ Cardinality({j \in Ingresses : outbox[j].status # "absent"}) < CaptureBound
           /\ Capture(i, ms)
           /\ UNCHANGED <<mediaVars, requests>>
    \/ \E i \in Ingresses :
           (CaptureMedia(i) \/ LoseMedia(i)) /\ UNCHANGED <<dispatchVars, requests>>
    \/ DispatchNext /\ UNCHANGED others
    \/ ReplayNext /\ UNCHANGED <<mediaVars, captureVars>>
    \/ MediaNext /\ UNCHANGED <<captureVars, dispatchVars, requests>>

Spec == Init /\ [][Next]_vars

\* Time passes, the reconciler is started every minute, the queue is served, and a
\* worker that does not die goes on.  Nothing is assumed of operators, or of the
\* fetching of media.
Fairness ==
    /\ \A i \in Ingresses :
           /\ WF_vars(Receive(i) /\ UNCHANGED others)
           /\ WF_vars(BecomesDue(i) /\ UNCHANGED others)
           /\ WF_vars(LeaseExpires(i) /\ UNCHANGED others)
           /\ WF_vars(GrowsOld(i) /\ UNCHANGED others)
    /\ \A p \in Workers : WF_vars(Step(p) /\ UNCHANGED others)
    /\ WF_vars(Reconcile /\ UNCHANGED others)

FairSpec == Spec /\ Fairness

-----------------------------------------------------------------------------
(* Properties *)

\* A dispatched row stays so, and a dead-lettered one is reopened by a replay alone:
\* no late worker, no sweep and no second replay of the message undoes an outcome.
SettledIsFinal ==
    [][\A i \in Ingresses :
           /\ outbox[i].status = "dispatched" => outbox'[i] = outbox[i]
           /\ outbox[i].status = "dead_lettered" /\ outbox'[i] # outbox[i] =>
                  requests' # requests]_vars

\* No two operators are at work on one dead-letter record under one claim id, although a
\* recovery takes records from operators who are still publishing.
ReplayClaimsAreExclusive ==
    \A r, q \in requests :
        r.ingress = q.ingress /\ r.tries = q.tries => r = q

\* A message that has not been replayed is dispatched or dead-lettered, whatever crashes
\* and whether or not its media arrive, while no other message blocks the reconciler.
CapturedIsSettled ==
    <>[](\A i \in Ingresses :
             dlq[i].state = "absent" /\ outbox[i].status # "absent" =>
                 outbox[i].status \in Settled \/ \E j \in Ingresses : Collides(j))

\* "exhausted attempts dead-letter instead of retrying forever"
\* (tests/test_ingress_dispatch_outbox.py): a message on its last attempt is dispatched
\* or dead-lettered, unless a replay gives it new ones.
ExhaustedIsDeadLettered ==
    \A i \in Ingresses :
        outbox[i].status \in {"pending", "claimed"} /\ outbox[i].count >= MaxAttempts ~>
            outbox[i].status \in Settled \/ outbox[i].count = 0
=============================================================================
