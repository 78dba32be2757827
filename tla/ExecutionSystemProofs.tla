------------------------- MODULE ExecutionSystemProofs -------------------------
(***************************************************************************)
(* Theorems of ExecutionSystem, for every number of executions, tasks,     *)
(* runs, publishers and sweeps, every retry policy and every budget.       *)
(*                                                                         *)
(* The system is shown to implement both of its parts, so that whatever    *)
(* holds of the execution authority and of the dispatch outbox alone,      *)
(* under an arbitrary transport and an arbitrary settlement, holds of the  *)
(* two connected by Celery.  What no part can say alone is who attends to  *)
(* an execution (AttendedInv).                                             *)
(***************************************************************************)
EXTENDS ExecutionSystem, TLAPS

\* The parts with what is proved of them.
AuthorityProofs == INSTANCE ExecutionAuthorityProofs

OutboxProofs == INSTANCE ExecutionOutboxProofs WITH
    settled <- {e \in Executions : Authority!Terminal(e)},
    RequestBound <- Cardinality(Executions)

-----------------------------------------------------------------------------
(* The parts, as the system and as their proofs name them *)

\* The parts find their constants as they assume them.
LEMMA ConstantsOfAuthority ==
    /\ AuthorityProofs!NoneAssumption
    /\ AuthorityProofs!PolicyAssumption
    /\ AuthorityProofs!BoundAssumption
BY SystemAssumption
DEF AuthorityProofs!NoneAssumption, AuthorityProofs!PolicyAssumption,
    AuthorityProofs!BoundAssumption, AuthorityProofs!ErrorClass,
    Authority!NoneAssumption, Authority!PolicyAssumption, Authority!BoundAssumption,
    Authority!ErrorClass

LEMMA ConstantsOfOutbox == OutboxProofs!OutboxAssumption
BY SystemAssumption DEF OutboxProofs!OutboxAssumption, Outbox!OutboxAssumption

\* A transaction of a worker is what the authority's proofs take it for.
LEMMA SameWork ==
    ASSUME NEW r \in Runs
    PROVE  /\ Authority!WorkStep(r) <=> AuthorityProofs!WorkStep(r)
           /\ Authority!Owns(r) <=> AuthorityProofs!Owns(r)
BY DEF AuthorityProofs!WorkStep, AuthorityProofs!PrepareWork, AuthorityProofs!BeginCompletion,
       AuthorityProofs!CompleteExecution, AuthorityProofs!FlushCompletion,
       AuthorityProofs!BeginFailure, AuthorityProofs!FailForRetry, AuthorityProofs!ResendTask,
       AuthorityProofs!DeadLetterExecution, AuthorityProofs!RecordDeadLetterTask,
       AuthorityProofs!PrepareHandoff, AuthorityProofs!FailEscalated, AuthorityProofs!Owns,
       AuthorityProofs!Advance, AuthorityProofs!Settle, AuthorityProofs!SettleOrSwallow,
       AuthorityProofs!CompletionOutcome, AuthorityProofs!FailureStage,
       AuthorityProofs!FailureIsTerminal,
       Authority!WorkStep, Authority!PrepareWork, Authority!BeginCompletion,
       Authority!CompleteExecution, Authority!FlushCompletion, Authority!BeginFailure,
       Authority!FailForRetry, Authority!ResendTask, Authority!DeadLetterExecution,
       Authority!RecordDeadLetterTask, Authority!PrepareHandoff, Authority!FailEscalated,
       Authority!Owns, Authority!Advance, Authority!Settle, Authority!SettleOrSwallow,
       Authority!CompletionOutcome, Authority!FailureStage, Authority!FailureIsTerminal

\* So is every other step of the authority.
LEMMA SameAuthority ==
    /\ Authority!Init => AuthorityProofs!Init
    /\ [Authority!Next]_(Authority!vars) => [AuthorityProofs!Next]_(AuthorityProofs!vars)
<1>1. Authority!Init => AuthorityProofs!Init
    BY DEF Authority!Init, Authority!AbsentExecution, Authority!AbsentAttempt,
           Authority!IdleRun, Authority!AttemptNumbers, AuthorityProofs!Init,
           AuthorityProofs!AbsentExecution, AuthorityProofs!AbsentAttempt,
           AuthorityProofs!IdleRun, AuthorityProofs!AttemptNumbers
<1>2. \A e \in Executions : Authority!RowStep(e) => AuthorityProofs!RowStep(e)
    BY DEF Authority!RowStep, Authority!RequestExecution, Authority!LeaseExpires,
           Authority!RecoverStaleExecution, Authority!Recoverable,
           Authority!ClosedByRecovery, Authority!AbsentExecution,
           AuthorityProofs!RowStep, AuthorityProofs!RequestExecution,
           AuthorityProofs!LeaseExpires, AuthorityProofs!RecoverStaleExecution,
           AuthorityProofs!Recoverable, AuthorityProofs!ClosedByRecovery,
           AuthorityProofs!AbsentExecution
<1>3. \A r \in Runs, e \in Executions, t \in Tasks, k \in 0..MaxRetries :
          Authority!ClaimExecution(r, e, t, k) => AuthorityProofs!ClaimExecution(r, e, t, k)
    BY DEF Authority!ClaimExecution, Authority!NextNumber, Authority!Claimable,
           Authority!IdleRun, AuthorityProofs!ClaimExecution, AuthorityProofs!NextNumber,
           AuthorityProofs!Claimable, AuthorityProofs!IdleRun
<1>4. \A r \in Runs : Authority!Acknowledge(r) \/ Authority!Crash(r) =>
          AuthorityProofs!Acknowledge(r) \/ AuthorityProofs!Crash(r)
    BY DEF Authority!Acknowledge, Authority!Crash, Authority!IdleRun,
           AuthorityProofs!Acknowledge, AuthorityProofs!Crash, AuthorityProofs!IdleRun
<1>5. Authority!Next => AuthorityProofs!Next
    BY <1>2, <1>3, <1>4, SameWork DEF Authority!Next, AuthorityProofs!Next
<1>6. UNCHANGED Authority!vars => UNCHANGED AuthorityProofs!vars
    BY DEF Authority!vars, AuthorityProofs!vars
<1> QED
    BY <1>1, <1>5, <1>6

\* And every step of the outbox.
LEMMA SameOutbox ==
    /\ Outbox!Init => OutboxProofs!Init
    /\ [Outbox!Next]_(Outbox!vars) => [OutboxProofs!Next]_(OutboxProofs!vars)
<1>1. Outbox!Init => OutboxProofs!Init
    BY DEF Outbox!Init, Outbox!AbsentRow, Outbox!IdlePublisher, Outbox!IdleSweep,
           OutboxProofs!Init, OutboxProofs!AbsentRow, OutboxProofs!IdlePublisher,
           OutboxProofs!IdleSweep
<1> USE DEF Outbox!IdlePublisher, Outbox!IdleSweep, Outbox!Locked, Outbox!ClaimId,
            Outbox!BrokerCall, OutboxProofs!IdlePublisher, OutboxProofs!IdleSweep,
            OutboxProofs!Locked, OutboxProofs!ClaimId, OutboxProofs!BrokerCall
<1>2. ASSUME NEW p \in Publishers, Outbox!Dispatch(p)
      PROVE  OutboxProofs!Dispatch(p)
    <2>1. ASSUME NEW e \in Executions
          PROVE  /\ Outbox!RequestExecution(p, e) => OutboxProofs!RequestExecution(p, e)
                 /\ Outbox!ReadPending(p, e) => OutboxProofs!ReadPending(p, e)
        <3>1. Outbox!CommitClaim(p, e, Outbox!ClaimId(p, 0)) =>
                  OutboxProofs!CommitClaim(p, e, OutboxProofs!ClaimId(p, 0))
            BY DEF Outbox!CommitClaim, OutboxProofs!CommitClaim
        <3>2. Outbox!RequestExecution(p, e) => OutboxProofs!RequestExecution(p, e)
            BY <3>1 DEF Outbox!RequestExecution, OutboxProofs!RequestExecution,
                        Outbox!Cardinality, OutboxProofs!Cardinality
        <3>3. Outbox!ReadPending(p, e) => OutboxProofs!ReadPending(p, e)
            BY DEF Outbox!ReadPending, OutboxProofs!ReadPending
        <3> QED
            BY <3>2, <3>3
    <2>2. Outbox!ClaimPending(p) => OutboxProofs!ClaimPending(p)
        BY DEF Outbox!ClaimPending, Outbox!CommitClaim, OutboxProofs!ClaimPending,
               OutboxProofs!CommitClaim
    <2>3. Outbox!PublishExecution(p) => OutboxProofs!PublishExecution(p)
        BY DEF Outbox!PublishExecution, OutboxProofs!PublishExecution
    <2>4. Outbox!MarkPublished(p) => OutboxProofs!MarkPublished(p)
        BY DEF Outbox!MarkPublished, Outbox!Holds, OutboxProofs!MarkPublished,
               OutboxProofs!Holds
    <2>5. Outbox!MarkFailed(p) => OutboxProofs!MarkFailed(p)
        BY DEF Outbox!MarkFailed, Outbox!Holds, OutboxProofs!MarkFailed, OutboxProofs!Holds
    <2>6. Outbox!CrashPublisher(p) => OutboxProofs!CrashPublisher(p)
        BY DEF Outbox!CrashPublisher, OutboxProofs!CrashPublisher
    <2> QED
        BY <1>2, <2>1, <2>2, <2>3, <2>4, <2>5, <2>6 DEF Outbox!Dispatch, OutboxProofs!Dispatch
<1>3. ASSUME NEW e \in Executions, Outbox!Reconcile(e) \/ Outbox!SettleExecution(e)
      PROVE  OutboxProofs!Reconcile(e) \/ OutboxProofs!SettleExecution(e)
    BY <1>3
    DEF Outbox!Reconcile, Outbox!SettleExecution, Outbox!LeaseExpires, Outbox!CooldownEnds,
        Outbox!RequeueStale, Outbox!RequeueFailed, Outbox!Stale, Outbox!Retryable,
        OutboxProofs!Reconcile, OutboxProofs!SettleExecution, OutboxProofs!LeaseExpires,
        OutboxProofs!CooldownEnds, OutboxProofs!RequeueStale, OutboxProofs!RequeueFailed,
        OutboxProofs!Stale, OutboxProofs!Retryable
<1>4. ASSUME NEW s \in Sweeps,
             \/ \E e \in Executions : Outbox!ListStuckPending(s, e)
             \/ Outbox!SweepStep(s)
             \/ Outbox!RollBackSweep(s)
      PROVE  \/ \E e \in Executions : OutboxProofs!ListStuckPending(s, e)
             \/ OutboxProofs!SweepStep(s)
             \/ OutboxProofs!RollBackSweep(s)
    BY <1>4
    DEF Outbox!ListStuckPending, Outbox!SweepStep, Outbox!RollBackSweep,
        Outbox!ClaimStuckPending, Outbox!PublishStuckPending, Outbox!CommitStuckPending,
        OutboxProofs!ListStuckPending, OutboxProofs!SweepStep, OutboxProofs!RollBackSweep,
        OutboxProofs!ClaimStuckPending, OutboxProofs!PublishStuckPending,
        OutboxProofs!CommitStuckPending
<1>5. Outbox!Next => OutboxProofs!Next
    BY <1>2, <1>3, <1>4 DEF Outbox!Next, OutboxProofs!Next
<1>6. UNCHANGED Outbox!vars => UNCHANGED OutboxProofs!vars
    BY DEF Outbox!vars, OutboxProofs!vars
<1> QED
    BY <1>1, <1>5, <1>6

-----------------------------------------------------------------------------
(* The inductive invariant *)

\* What is carried is well formed: a resent message stays within the retry budget.
MessageInv ==
    /\ ready \subseteq Message
    /\ unacked \subseteq Message
    /\ used \subseteq Tasks
    /\ faulted \subseteq Executions

\* An execution whose row has not been claimed for dispatch was never sent, and
\* whatever is carried or worked on was.
CarriedInv ==
    /\ \A e \in Executions : outbox[e].state = "ABSENT" => sent[e] = 0
    /\ \A m \in ready \cup unacked : sent[m.execution] > 0
    /\ \A r \in Runs : run[r].stage # "idle" => sent[run[r].execution] > 0

\* A run that has not yet let go of its attempt.
Working(r) ==
    run[r].stage \in {"claimed", "reasoning", "committing", "flushing", "retrying",
                      "dead_lettering", "escalating", "closing"}

\* The claim of e is held by a run that works on it.
Held(e) == \E r \in Runs : run[r].execution = e /\ Authority!Owns(r) /\ Working(r)

\* The message of e, or a retry of it, is on the way.
OnTheWay(e) ==
    \/ \E m \in ready : m.execution = e
    \/ \E r \in Runs : run[r].stage = "resending" /\ run[r].execution = e

\* No message of e exists, and somebody is about to send one, unless the budget of
\* its publication is spent.
Unpublished(e) ==
    /\ sent[e] = 0
    /\ \/ outbox[e].state \in {"PUBLISHING", "FAILED"}
       \/ /\ outbox[e].state = "PENDING"
          /\ outbox[e].recovered
          /\ outbox[e].count < MaxPublishAttempts

\* An execution that met no fault is attended to, or was never sent and its budget
\* of publications is spent.  Once a message was sent it is never the outbox that has
\* to act: the message, or a run that holds the claim or sends it again, is always
\* there.
AttendedInv ==
    \A e \in Executions \ faulted :
        /\ execution[e].state = "CLAIMED" => Held(e)
        /\ execution[e].state = "REQUESTED" => OnTheWay(e) \/ Unpublished(e)

PartsInv == AuthorityProofs!IInv /\ OutboxProofs!IInv
IInv == PartsInv /\ MessageInv /\ CarriedInv /\ AttendedInv

\* What the invariants of the parts say of the types.
LEMMA PartTypes ==
    ASSUME PartsInv
    PROVE  Authority!TypeOK /\ Outbox!TypeOK
<1>1. Authority!TypeOK
    BY DEF PartsInv, AuthorityProofs!IInv, AuthorityProofs!RowInv, AuthorityProofs!TypeOK,
           AuthorityProofs!ExecutionRow, AuthorityProofs!AttemptRow, AuthorityProofs!RunState,
           AuthorityProofs!ExecutionStates, AuthorityProofs!AttemptStates,
           AuthorityProofs!TerminalStates, AuthorityProofs!RunStages,
           AuthorityProofs!AttemptNumbers,
           Authority!TypeOK, Authority!ExecutionRow, Authority!AttemptRow,
           Authority!RunState, Authority!ExecutionStates, Authority!AttemptStates,
           Authority!TerminalStates, Authority!RunStages, Authority!AttemptNumbers
<1>2. Outbox!TypeOK
    BY DEF PartsInv, OutboxProofs!IInv, OutboxProofs!Core, OutboxProofs!TypeOK,
           OutboxProofs!OutboxRow, OutboxProofs!PublisherState, OutboxProofs!SweepState,
           OutboxProofs!ClaimIds,
           Outbox!TypeOK, Outbox!OutboxRow, Outbox!PublisherState, Outbox!SweepState,
           Outbox!ClaimIds
<1> QED
    BY <1>1, <1>2

\* What they say of the runs.
LEMMA RunFacts ==
    ASSUME PartsInv, NEW r \in Runs
    PROVE  /\ run[r].stage # "idle" => /\ run[r].execution \in Executions
                                       /\ run[r].task \in Tasks
           /\ run[r].retries \in 0 .. MaxRetries
           /\ run[r].stage = "resending" => run[r].retries + 1 \in 0 .. MaxRetries
<1>1. run[r].stage # "idle" => run[r].execution \in Executions /\ run[r].task \in Tasks
    BY DEF PartsInv, AuthorityProofs!IInv, AuthorityProofs!RowInv, AuthorityProofs!RunsAreBound
<1>2. run[r].retries \in 0 .. MaxRetries
    BY PartTypes DEF Authority!TypeOK, Authority!RunState
<1>3. run[r].stage = "resending" =>
          failure[r] \in ErrorClasses /\ run[r].retries < failure[r].max_retries
    BY DEF PartsInv, AuthorityProofs!IInv, AuthorityProofs!PolicyInv,
           AuthorityProofs!Decided, AuthorityProofs!MayRetry
<1>4. /\ MaxRetries \in Nat
      /\ \A c \in ErrorClasses : c.max_retries \in Nat /\ c.max_retries <= MaxRetries
    BY SystemAssumption DEF Authority!PolicyAssumption, Authority!ErrorClass
<1> QED
    BY <1>1, <1>2, <1>3, <1>4

\* What they say of the publishers and the sweeps.
LEMMA SenderFacts ==
    ASSUME PartsInv
    PROVE  /\ \A p \in Publishers : publisher[p].stage # "idle" =>
                  /\ publisher[p].execution \in Executions
                  /\ outbox[publisher[p].execution].state # "ABSENT"
           /\ \A s \in Sweeps : sweep[s].stage # "idle" => sweep[s].execution \in Executions
           /\ \A s \in Sweeps : sweep[s].stage = "holding" =>
                  outbox[sweep[s].execution].state = "PENDING"
           /\ \A p \in Publishers : publisher[p].stage = "sent" =>
                  sent[publisher[p].execution] > 0
           /\ \A s \in Sweeps : sweep[s].stage = "sent" => sent[sweep[s].execution] > 0
BY DEF PartsInv, OutboxProofs!IInv, OutboxProofs!Core, OutboxProofs!ClaimInv,
       OutboxProofs!LockInv, OutboxProofs!Locking, OutboxProofs!SentInv

-----------------------------------------------------------------------------
(* The system takes the steps of its parts *)

\* The steps of the outbox and its reconcilers, and those of Celery and the workers.
DispatchStep ==
    \/ \E p \in Publishers :
           \/ \E e \in Executions : RequestExecution(p, e) \/ Redispatch(p, e)
           \/ Publish(p)
           \/ CrashPublisher(p)
    \/ \E e \in Executions : Reconcile(e)
    \/ \E s \in Sweeps :
           \/ \E e \in Executions : ListStuckPending(s, e)
           \/ SweepStep(s)
           \/ RollBackSweep(s)

DeliveryStep ==
    \/ \E e \in Executions : LeaseExpires(e) \/ RecoverStaleExecution(e)
    \/ \E r \in Runs :
           \/ \E m \in ready : Deliver(r, m)
           \/ Work(r)
           \/ Acknowledge(r)
           \/ Crash(r)
    \/ \E m \in unacked : VisibilityTimeout(m)

LEMMA StepsOfTheSystem == [Next]_vars => DispatchStep \/ DeliveryStep \/ UNCHANGED vars
BY DEF Next, DispatchStep, DeliveryStep

\* Celery delivers nothing that the authority does not expect: what it carries is an
\* execution, a task and a number of retries that a claim may name.
LEMMA AuthorityMoves ==
    ASSUME MessageInv, [Next]_vars
    PROVE  [Authority!Next]_(Authority!vars)
<1>1. CASE \E p \in Publishers, e \in Executions : RequestExecution(p, e)
    BY <1>1 DEF RequestExecution, Authority!Next, Authority!RowStep
<1>2. CASE \E e \in Executions : LeaseExpires(e) \/ RecoverStaleExecution(e)
    BY <1>2 DEF LeaseExpires, RecoverStaleExecution, Authority!Next, Authority!RowStep
<1>3. ASSUME NEW r \in Runs, NEW m \in ready, Deliver(r, m)
      PROVE  [Authority!Next]_(Authority!vars)
    <2>1. m.execution \in Executions /\ m.task \in Tasks /\ m.retries \in 0 .. MaxRetries
        BY DEF MessageInv, Message
    <2>2. CASE Authority!ClaimExecution(r, m.execution, m.task, m.retries)
        BY <2>1, <2>2 DEF Authority!Next
    <2>3. CASE UNCHANGED authorityVars
        BY <2>3 DEF authorityVars, Authority!vars
    <2> QED
        BY <1>3, <2>2, <2>3 DEF Deliver
<1>4. CASE \E r \in Runs : Work(r) \/ Acknowledge(r) \/ Crash(r)
    BY <1>4 DEF Work, Acknowledge, Crash, Authority!Next
<1>5. CASE \/ UNCHANGED vars
           \/ \E p \in Publishers :
                  \/ \E e \in Executions : Redispatch(p, e)
                  \/ Publish(p)
                  \/ CrashPublisher(p)
           \/ \E e \in Executions : Reconcile(e)
           \/ \E s \in Sweeps :
                  \/ \E e \in Executions : ListStuckPending(s, e)
                  \/ SweepStep(s)
                  \/ RollBackSweep(s)
           \/ \E m \in unacked : VisibilityTimeout(m)
    BY <1>5
    DEF vars, Redispatch, Publish, CrashPublisher, Reconcile, ListStuckPending, SweepStep,
        RollBackSweep, VisibilityTimeout, authorityVars, Authority!vars
<1> QED
    BY <1>1, <1>2, <1>3, <1>4, <1>5 DEF Next

Settled == {e \in Executions : Authority!Terminal(e)}

\* At most one execution is settled in a step, and its message was sent.
LEMMA SettledMoves ==
    ASSUME PartsInv, CarriedInv, [Authority!Next]_(Authority!vars)
    PROVE  \/ Settled' = Settled
           \/ \E e \in Executions \ Settled : sent[e] > 0 /\ Settled' = Settled \cup {e}
<1>1. \A e \in Executions : Authority!Terminal(e) => Authority!Terminal(e)'
    <2>1. ASSUME NEW e \in Executions, Authority!Terminal(e)
          PROVE  Authority!Terminal(e)'
        <3>1. AuthorityProofs!RowInv /\ [AuthorityProofs!Next]_(AuthorityProofs!vars)
            BY SameAuthority DEF PartsInv, AuthorityProofs!IInv
        <3>2. AuthorityProofs!Terminal(e)
            BY <2>1 DEF Authority!Terminal, Authority!TerminalStates,
                        AuthorityProofs!Terminal, AuthorityProofs!TerminalStates
        <3>3. execution'[e] = execution[e]
            BY <3>1, <3>2, ConstantsOfAuthority, AuthorityProofs!StepKeepsSettled
        <3> QED
            BY <2>1, <3>3 DEF Authority!Terminal
    <2> QED
        BY <2>1
<1>2. execution \in [Executions -> Authority!ExecutionRow]
    BY PartTypes DEF Authority!TypeOK
<1>3. ASSUME NEW r \in Runs, Authority!WorkStep(r)
      PROVE  /\ run[r].execution \in Executions
             /\ sent[run[r].execution] > 0
             /\ \A e \in Executions \ {run[r].execution} : execution'[e] = execution[e]
    <2>1. /\ run[r].stage # "idle"
          /\ \/ execution' = execution
             \/ AuthorityProofs!SettledBy(r)
        BY <1>3, SameWork, ConstantsOfAuthority, AuthorityProofs!WorkStepShape
    <2>2. run[r].execution \in Executions /\ sent[run[r].execution] > 0
        BY <2>1, RunFacts DEF CarriedInv
    <2>3. ASSUME NEW e \in Executions \ {run[r].execution}, AuthorityProofs!SettledBy(r)
          PROVE  execution'[e] = execution[e]
        BY <1>2, <2>2, <2>3 DEF AuthorityProofs!SettledBy, AuthorityProofs!Settle
    <2> QED
        BY <2>1, <2>2, <2>3
<1>4. CASE \E r \in Runs : Authority!WorkStep(r)
    <2>1. PICK r \in Runs : Authority!WorkStep(r)
        BY <1>4
    <2>2. PICK e \in Executions :
              /\ sent[e] > 0
              /\ \A x \in Executions : x # e => execution'[x] = execution[x]
        BY <1>3, <2>1
    <2>3. CASE Authority!Terminal(e)' <=> Authority!Terminal(e)
        <3>1. \A x \in Executions : Authority!Terminal(x)' <=> Authority!Terminal(x)
            BY <2>2, <2>3 DEF Authority!Terminal
        <3> QED
            BY <3>1 DEF Settled
    <2>4. CASE ~Authority!Terminal(e) /\ Authority!Terminal(e)'
        <3>1. \A x \in Executions : Authority!Terminal(x)' <=> Authority!Terminal(x) \/ x = e
            BY <2>2, <2>4 DEF Authority!Terminal
        <3>2. e \in Executions \ Settled /\ Settled' = Settled \cup {e}
            BY <2>2, <2>4, <3>1 DEF Settled
        <3> QED
            BY <2>2, <3>2
    <2> QED
        BY <1>1, <2>2, <2>3, <2>4
<1>5. CASE ~\E r \in Runs : Authority!WorkStep(r)
    <2>1. ASSUME NEW e \in Executions
          PROVE  Authority!Terminal(e)' => Authority!Terminal(e)
        <3>1. CASE \E d \in Executions : Authority!RequestExecution(d)
            BY <1>2, <3>1
            DEF Authority!RequestExecution, Authority!AbsentExecution, Authority!Terminal,
                Authority!TerminalStates
        <3>2. CASE \E d \in Executions : Authority!LeaseExpires(d)
            BY <1>2, <3>2
            DEF Authority!LeaseExpires, Authority!Terminal, Authority!ExecutionRow
        <3>3. CASE \E d \in Executions : Authority!RecoverStaleExecution(d)
            BY <1>2, <3>3
            DEF Authority!RecoverStaleExecution, Authority!Terminal, Authority!TerminalStates,
                Authority!ExecutionRow
        <3>4. CASE \E r \in Runs, d \in Executions, t \in Tasks, k \in 0..MaxRetries :
                       Authority!ClaimExecution(r, d, t, k)
            BY <1>2, <3>4
            DEF Authority!ClaimExecution, Authority!Terminal, Authority!TerminalStates,
                Authority!ExecutionRow
        <3>5. CASE \/ \E r \in Runs : Authority!Acknowledge(r) \/ Authority!Crash(r)
                   \/ UNCHANGED Authority!vars
            BY <3>5 DEF Authority!Acknowledge, Authority!Crash, Authority!vars,
                        Authority!Terminal
        <3> QED
            BY <1>5, <3>1, <3>2, <3>3, <3>4, <3>5 DEF Authority!Next, Authority!RowStep
    <2>2. \A e \in Executions : Authority!Terminal(e)' <=> Authority!Terminal(e)
        BY <1>1, <2>1
    <2> QED
        BY <2>2 DEF Settled
<1> QED
    BY <1>4, <1>5

\* A step of Celery or the workers is at most a settlement to the outbox.
LEMMA OutboxMoves ==
    ASSUME PartsInv, MessageInv, CarriedInv, [Next]_vars
    PROVE  [Outbox!Next]_(Outbox!vars)
<1>1. CASE DispatchStep
    BY <1>1
    DEF DispatchStep, RequestExecution, Redispatch, Publish, CrashPublisher, Reconcile,
        ListStuckPending, SweepStep, RollBackSweep,
        Outbox!Next, Outbox!Dispatch, Outbox!Reconcile
<1>2. CASE UNCHANGED outboxVars
    <2>1. CASE Settled' = Settled
        BY <1>2, <2>1 DEF outboxVars, Outbox!vars, Settled
    <2>2. CASE \E e \in Executions \ Settled : sent[e] > 0 /\ Settled' = Settled \cup {e}
        <3>1. PICK e \in Executions \ Settled : sent[e] > 0 /\ Settled' = Settled \cup {e}
            BY <2>2
        <3>2. Outbox!SettleExecution(e)
            BY <1>2, <3>1 DEF outboxVars, Outbox!SettleExecution, Settled
        <3> QED
            BY <3>2 DEF Outbox!Next
    <2> QED
        BY <2>1, <2>2, AuthorityMoves, SettledMoves
<1>3. DeliveryStep \/ UNCHANGED vars => UNCHANGED outboxVars
    BY DEF DeliveryStep, LeaseExpires, RecoverStaleExecution, Deliver, Work, Acknowledge,
           Crash, VisibilityTimeout, vars, outboxVars
<1> QED
    BY <1>1, <1>2, <1>3, StepsOfTheSystem

-----------------------------------------------------------------------------
(* What the steps do to what is carried *)

\* The invariants of the parts are kept: the system only takes their steps.
LEMMA PartsStep ==
    ASSUME PartsInv, MessageInv, CarriedInv, [Next]_vars
    PROVE  PartsInv'
<1>1. AuthorityProofs!IInv'
    <2>1. [AuthorityProofs!Next]_(AuthorityProofs!vars)
        BY AuthorityMoves, SameAuthority
    <2> QED
        BY <2>1, ConstantsOfAuthority, AuthorityProofs!NextIInv DEF PartsInv
<1>2. OutboxProofs!IInv'
    <2>1. [OutboxProofs!Next]_(OutboxProofs!vars)
        BY OutboxMoves, SameOutbox
    <2> QED
        BY <2>1, ConstantsOfOutbox, OutboxProofs!NextInv DEF PartsInv
<1> QED
    BY <1>1, <1>2 DEF PartsInv

\* The broker takes no message back, and takes at most one in a step.
LEMMA SentMoves ==
    ASSUME PartsInv, MessageInv, CarriedInv, [Next]_vars
    PROVE  /\ sent \in [Executions -> Nat] /\ sent' \in [Executions -> Nat]
           /\ \A e \in Executions : sent'[e] >= sent[e]
           /\ sent' = sent \/ \E e \in Executions : sent' = [sent EXCEPT ![e] = @ + 1]
<1>1. [OutboxProofs!Next]_(OutboxProofs!vars) /\ OutboxProofs!Core
    BY OutboxMoves, SameOutbox DEF PartsInv, OutboxProofs!IInv
<1>2. sent \in [Executions -> Nat]
    BY PartTypes DEF Outbox!TypeOK
<1>3. /\ sent' \in [Executions -> Nat]
      /\ \A e \in Executions : sent'[e] >= sent[e]
      /\ sent' = sent \/ \E e \in Executions : sent' = [sent EXCEPT ![e] = @ + 1]
    BY <1>1, ConstantsOfOutbox, OutboxProofs!SentGrows
<1> QED
    BY <1>2, <1>3

\* A step of the outbox leaves what is carried alone, except that the broker queues
\* the message it accepts.
LEMMA DispatchQueues ==
    ASSUME PartsInv, MessageInv, CarriedInv, DispatchStep
    PROVE  /\ ready \subseteq ready'
           /\ ready' \subseteq Message
           /\ used' \subseteq Tasks
           /\ unacked' = unacked
           /\ \A m \in ready' \ ready : sent'[m.execution] > 0
           /\ \A e \in Executions : sent'[e] # sent[e] => \E m \in ready' : m.execution = e
<1>1. CASE UNCHANGED brokerVars /\ sent' = sent
    BY <1>1 DEF brokerVars, MessageInv
<1>2. CASE UNCHANGED unacked /\ Accept
    <2>1. CASE sent' = sent
        BY <1>2, <2>1 DEF Accept, MessageInv
    <2>2. CASE sent' # sent
        <3>1. PICK e \in Executions, t \in Tasks \ used :
                  /\ sent'[e] # sent[e]
                  /\ ready' = ready \cup {[execution |-> e, task |-> t, retries |-> 0]}
                  /\ used' = used \cup {t}
            BY <1>2, <2>2 DEF Accept
        <3>2. /\ sent[e] \in Nat /\ sent'[e] \in Nat /\ sent'[e] >= sent[e]
              /\ \A x \in Executions : x # e => sent'[x] = sent[x]
            BY <3>1, SentMoves DEF DispatchStep, Next
        <3> DEFINE m == [execution |-> e, task |-> t, retries |-> 0]
        <3>3. m \in Message /\ m.execution = e
            BY SystemAssumption DEF Authority!PolicyAssumption, Message
        <3> HIDE DEF m
        <3>4. ready' = ready \cup {m}
            BY <3>1 DEF m
        <3>5. sent'[e] > 0
            BY <3>1, <3>2
        <3> QED
            BY <1>2, <3>1, <3>2, <3>3, <3>4, <3>5 DEF MessageInv
    <2> QED
        BY <2>1, <2>2
<1>3. CASE \/ \E p \in Publishers : Publish(p)
           \/ \E s \in Sweeps : SweepStep(s)
    BY <1>2, <1>3 DEF Publish, SweepStep
<1>4. CASE \/ \E p \in Publishers :
                  \/ \E e \in Executions : RequestExecution(p, e) \/ Redispatch(p, e)
                  \/ CrashPublisher(p)
           \/ \E s \in Sweeps :
                  \/ \E e \in Executions : ListStuckPending(s, e)
                  \/ RollBackSweep(s)
    <2>1. UNCHANGED brokerVars /\ sent' = sent
        BY <1>4
        DEF RequestExecution, Redispatch, CrashPublisher, ListStuckPending, RollBackSweep,
            Outbox!RequestExecution, Outbox!ReadPending, Outbox!CrashPublisher,
            Outbox!ListStuckPending, Outbox!RollBackSweep
    <2> QED
        BY <1>1, <2>1
<1>5. CASE \E e \in Executions : Reconcile(e)
    <2>1. UNCHANGED brokerVars /\ sent' = sent
        BY <1>5
        DEF Reconcile, Outbox!LeaseExpires, Outbox!CooldownEnds, Outbox!RequeueFailed,
            Outbox!RequeueStale
    <2> QED
        BY <1>1, <2>1
<1> QED
    BY <1>3, <1>4, <1>5 DEF DispatchStep

\* What Celery and the workers put back was carried before, or is a retry of it.
LEMMA DeliveryQueues ==
    ASSUME PartsInv, MessageInv, CarriedInv, DeliveryStep
    PROVE  /\ ready' \subseteq Message /\ unacked' \subseteq Message
           /\ UNCHANGED <<used, sent>>
           /\ \A m \in ready' \cup unacked' : sent[m.execution] > 0
<1>1. ASSUME NEW r \in Runs, NEW m \in ready, Deliver(r, m)
      PROVE  /\ ready' \subseteq ready /\ unacked' \subseteq ready \cup unacked
             /\ UNCHANGED <<used, sent>>
    BY <1>1 DEF Deliver, outboxVars
<1>2. ASSUME NEW r \in Runs, Work(r)
      PROVE  /\ ready' \subseteq Message /\ unacked' \subseteq Message
             /\ UNCHANGED <<used, sent>>
             /\ \A m \in ready' \cup unacked' : sent[m.execution] > 0
    <2>1. CASE ready' = ready
        BY <1>2, <2>1 DEF Work, outboxVars, MessageInv, CarriedInv
    <2>2. CASE run[r].stage = "resending" /\ ready' = ready \cup {Resent(r)}
        <3>1. Resent(r) = [execution |-> run[r].execution, task |-> run[r].task,
                           retries |-> run[r].retries + 1]
            BY DEF Resent, Carried
        <3>2. Resent(r) \in Message /\ Resent(r).execution = run[r].execution
            <4>1. /\ run[r].execution \in Executions /\ run[r].task \in Tasks
                  /\ run[r].retries + 1 \in 0 .. MaxRetries
                BY <2>2, RunFacts
            <4> QED
                BY <3>1, <4>1 DEF Message
        <3>3. sent[run[r].execution] > 0
            BY <2>2 DEF CarriedInv
        <3>4. unacked' = unacked /\ UNCHANGED <<used, sent>>
            BY <1>2 DEF Work, outboxVars
        <3> QED
            BY <2>2, <3>2, <3>3, <3>4 DEF MessageInv, CarriedInv
    <2> QED
        BY <1>2, <2>1, <2>2 DEF Work
<1>3. ASSUME \/ \E e \in Executions : LeaseExpires(e) \/ RecoverStaleExecution(e)
             \/ \E r \in Runs : Acknowledge(r) \/ Crash(r)
             \/ \E m \in unacked : VisibilityTimeout(m)
      PROVE  /\ ready' \subseteq ready \cup unacked /\ unacked' \subseteq unacked
             /\ UNCHANGED <<used, sent>>
    BY <1>3 DEF LeaseExpires, RecoverStaleExecution, Acknowledge, Crash, VisibilityTimeout,
                brokerVars, outboxVars
<1>4. CASE /\ ready' \cup unacked' \subseteq ready \cup unacked
           /\ UNCHANGED <<used, sent>>
    BY <1>4 DEF MessageInv, CarriedInv
<1>5. \/ \E r \in Runs : Work(r)
      \/ /\ ready' \cup unacked' \subseteq ready \cup unacked
         /\ UNCHANGED <<used, sent>>
    BY <1>1, <1>3 DEF DeliveryStep
<1> QED
    BY <1>2, <1>4, <1>5

\* A transaction of a run moves that run's stage and nothing else of the slots.
LEMMA WorkMovesItsRun ==
    ASSUME PartsInv, NEW r \in Runs, Authority!WorkStep(r)
    PROVE  /\ run[r].stage # "idle"
           /\ \E s \in Authority!RunStages \ {"idle"} :
                  run' = [run EXCEPT ![r] = [run[r] EXCEPT !.stage = s]]
<1>1. /\ run[r].stage # "idle"
      /\ \E s \in AuthorityProofs!RunStages \ {"idle", run[r].stage} :
             AuthorityProofs!Advance(r, s)
    BY SameWork, ConstantsOfAuthority, AuthorityProofs!WorkStepShape
<1> QED
    BY <1>1 DEF AuthorityProofs!RunStages, AuthorityProofs!Advance, Authority!RunStages

\* The faults are faults of executions.
LEMMA MessageStep ==
    ASSUME PartsInv, MessageInv, CarriedInv, [Next]_vars
    PROVE  MessageInv'
<1>1. faulted' \subseteq Executions
    <2>1. CASE \E p \in Publishers : CrashPublisher(p)
        BY <2>1, SenderFacts DEF CrashPublisher, Outbox!CrashPublisher, MessageInv
    <2>2. CASE \E e \in Executions : Reconcile(e) \/ RecoverStaleExecution(e)
        BY <2>2 DEF Reconcile, RecoverStaleExecution, MessageInv
    <2>3. CASE \E r \in Runs, m \in ready : Deliver(r, m)
        BY <2>3 DEF Deliver, MessageInv, Message
    <2>4. ASSUME NEW r \in Runs, Work(r)
          PROVE  faulted' \subseteq Executions
        <3>1. run[r].execution \in Executions
            BY <2>4, WorkMovesItsRun, RunFacts DEF Work
        <3> QED
            BY <2>4, <3>1 DEF Work, MessageInv
    <2>5. CASE \E r \in Runs : Crash(r)
        BY <2>5, RunFacts DEF Crash, Authority!Crash, MessageInv
    <2>6. CASE \/ UNCHANGED vars
               \/ \E p \in Publishers :
                      \/ \E e \in Executions : RequestExecution(p, e) \/ Redispatch(p, e)
                      \/ Publish(p)
               \/ \E e \in Executions : LeaseExpires(e)
               \/ \E s \in Sweeps :
                      \/ \E e \in Executions : ListStuckPending(s, e)
                      \/ SweepStep(s)
                      \/ RollBackSweep(s)
               \/ \E r \in Runs : Acknowledge(r)
               \/ \E m \in unacked : VisibilityTimeout(m)
        BY <2>6
        DEF vars, RequestExecution, Redispatch, Publish, LeaseExpires, ListStuckPending,
            SweepStep, RollBackSweep, Acknowledge, VisibilityTimeout, MessageInv
    <2> QED
        BY <2>1, <2>2, <2>3, <2>4, <2>5, <2>6 DEF Next
<1>2. ready' \subseteq Message /\ unacked' \subseteq Message /\ used' \subseteq Tasks
    <2>1. CASE DispatchStep
        BY <2>1, DispatchQueues DEF MessageInv
    <2>2. CASE DeliveryStep
        BY <2>2, DeliveryQueues DEF MessageInv
    <2>3. CASE UNCHANGED vars
        BY <2>3 DEF vars, brokerVars, MessageInv
    <2> QED
        BY <2>1, <2>2, <2>3, StepsOfTheSystem
<1> QED
    BY <1>1, <1>2 DEF MessageInv

\* A busy run works on what it worked on, or on a message that was in the queue.
LEMMA RunMoves ==
    ASSUME PartsInv, [Next]_vars, NEW q \in Runs, run'[q].stage # "idle"
    PROVE  \/ run[q].stage # "idle" /\ run'[q].execution = run[q].execution
           \/ \E m \in ready : run'[q].execution = m.execution
<1>1. run \in [Runs -> Authority!RunState]
    BY PartTypes DEF Authority!TypeOK
<1>2. ASSUME NEW r \in Runs, NEW m \in ready, Deliver(r, m)
      PROVE  run'[q] = run[q] \/ run'[q].execution = m.execution
    <2>1. CASE Authority!ClaimExecution(r, m.execution, m.task, m.retries)
        <3> DEFINE claimed == [stage |-> "claimed", execution |-> m.execution, task |-> m.task,
                               number |-> Authority!NextNumber(m.execution),
                               retries |-> m.retries]
        <3>1. run' = [run EXCEPT ![r] = claimed]
            BY <2>1 DEF Authority!ClaimExecution
        <3>2. claimed.execution = m.execution
            OBVIOUS
        <3> HIDE DEF claimed
        <3> QED
            BY <1>1, <3>1, <3>2
    <2>2. CASE UNCHANGED authorityVars
        BY <2>2 DEF authorityVars
    <2> QED
        BY <1>2, <2>1, <2>2 DEF Deliver
<1>3. ASSUME NEW r \in Runs, Work(r)
      PROVE  run[q].stage # "idle" /\ run'[q].execution = run[q].execution
    <2>1. PICK s \in Authority!RunStages \ {"idle"} :
              run' = [run EXCEPT ![r] = [run[r] EXCEPT !.stage = s]]
        BY <1>3, WorkMovesItsRun DEF Work
    <2>2. run[r].stage # "idle"
        BY <1>3, WorkMovesItsRun DEF Work
    <2> QED
        BY <1>1, <2>1, <2>2 DEF Authority!RunState
<1>4. ASSUME NEW r \in Runs, Acknowledge(r) \/ Crash(r)
      PROVE  run'[q] = run[q]
    BY <1>1, <1>4 DEF Acknowledge, Crash, Authority!Acknowledge, Authority!Crash,
                      Authority!IdleRun
<1>5. CASE DispatchStep
    BY <1>5
    DEF DispatchStep, RequestExecution, Redispatch, Publish, CrashPublisher, Reconcile,
        ListStuckPending, SweepStep, RollBackSweep, authorityVars,
        Authority!RequestExecution
<1>6. CASE \/ UNCHANGED vars
           \/ \E e \in Executions : LeaseExpires(e) \/ RecoverStaleExecution(e)
           \/ \E m \in unacked : VisibilityTimeout(m)
    BY <1>6
    DEF vars, LeaseExpires, RecoverStaleExecution, VisibilityTimeout, authorityVars,
        Authority!LeaseExpires, Authority!RecoverStaleExecution
<1> QED
    BY <1>1, <1>2, <1>3, <1>4, <1>5, <1>6, StepsOfTheSystem DEF DeliveryStep

\* Only a row that dispatch or a sweep has claimed is sent.
LEMMA SentWasClaimed ==
    ASSUME PartsInv, MessageInv, CarriedInv, [Next]_vars, NEW e \in Executions,
           sent'[e] # sent[e]
    PROVE  outbox[e].state # "ABSENT"
<1>1. sent \in [Executions -> Nat]
    BY PartTypes DEF Outbox!TypeOK
<1>2. ASSUME NEW x \in Executions, NEW accepted, NEW raised,
             Outbox!BrokerCall(x, accepted, raised)
      PROVE  e = x
    BY <1>1, <1>2 DEF Outbox!BrokerCall
<1>3. ASSUME NEW p \in Publishers, Outbox!PublishExecution(p)
      PROVE  outbox[e].state # "ABSENT"
    <2>1. /\ publisher[p].execution \in Executions
          /\ outbox[publisher[p].execution].state # "ABSENT"
        BY <1>3, SenderFacts DEF Outbox!PublishExecution
    <2>2. PICK stage : Outbox!BrokerCall(publisher[p].execution, stage = "sent",
                                         stage = "raised")
        BY <1>3 DEF Outbox!PublishExecution
    <2> QED
        BY <1>2, <2>1, <2>2
<1>4. ASSUME NEW s \in Sweeps, Outbox!PublishStuckPending(s)
      PROVE  outbox[e].state # "ABSENT"
    <2>1. /\ sweep[s].execution \in Executions
          /\ outbox[sweep[s].execution].state = "PENDING"
        BY <1>4, SenderFacts DEF Outbox!PublishStuckPending
    <2>2. \E stage : Outbox!BrokerCall(sweep[s].execution, stage = "sent", stage = "raised")
        BY <1>4 DEF Outbox!PublishStuckPending
    <2> QED
        BY <1>2, <2>1, <2>2
<1>5. CASE \E p \in Publishers : Publish(p)
    BY <1>3, <1>5 DEF Publish, Outbox!ClaimPending, Outbox!MarkPublished, Outbox!MarkFailed
<1>6. CASE \E s \in Sweeps : SweepStep(s)
    BY <1>4, <1>6 DEF SweepStep, Outbox!SweepStep, Outbox!ClaimStuckPending,
                      Outbox!CommitStuckPending
<1>7. CASE \/ \E p \in Publishers :
                  \/ \E x \in Executions : RequestExecution(p, x) \/ Redispatch(p, x)
                  \/ CrashPublisher(p)
           \/ \E x \in Executions : Reconcile(x)
           \/ \E s \in Sweeps :
                  \/ \E x \in Executions : ListStuckPending(s, x)
                  \/ RollBackSweep(s)
    <2>1. sent' = sent
        BY <1>7
        DEF RequestExecution, Redispatch, CrashPublisher, Reconcile, ListStuckPending,
            RollBackSweep, Outbox!RequestExecution, Outbox!ReadPending,
            Outbox!CrashPublisher, Outbox!LeaseExpires, Outbox!CooldownEnds,
            Outbox!RequeueFailed, Outbox!RequeueStale, Outbox!ListStuckPending,
            Outbox!RollBackSweep
    <2> QED
        BY <2>1
<1>8. CASE DeliveryStep
    BY <1>8, DeliveryQueues
<1>9. CASE UNCHANGED vars
    BY <1>9 DEF vars, outboxVars
<1> QED
    BY <1>5, <1>6, <1>7, <1>8, <1>9, StepsOfTheSystem DEF DispatchStep

\* Whatever is carried or worked on was sent.
LEMMA CarriedStep ==
    ASSUME PartsInv, MessageInv, CarriedInv, [Next]_vars
    PROVE  CarriedInv'
<1>1. ASSUME NEW e \in Executions, outbox'[e].state = "ABSENT"
      PROVE  sent'[e] = 0
    <2>1. outbox[e].state = "ABSENT"
        <3>1. [OutboxProofs!Next]_(OutboxProofs!vars) /\ OutboxProofs!Core
            BY OutboxMoves, SameOutbox DEF PartsInv, OutboxProofs!IInv
        <3> QED
            BY <1>1, <3>1, ConstantsOfOutbox, OutboxProofs!RowsOnlyGrow
    <2> QED
        BY <2>1, SentWasClaimed DEF CarriedInv
<1>2. ASSUME NEW m \in ready' \cup unacked'
      PROVE  sent'[m.execution] > 0
    <2>1. CASE m \in ready \cup unacked
        <3>1. m.execution \in Executions
            BY <2>1 DEF MessageInv, Message
        <3> QED
            BY <2>1, <3>1, SentMoves DEF CarriedInv
    <2>2. CASE m \notin ready \cup unacked
        <3>1. CASE DispatchStep
            BY <1>2, <2>2, <3>1, DispatchQueues
        <3>2. CASE DeliveryStep
            BY <1>2, <2>2, <3>2, DeliveryQueues
        <3>3. CASE UNCHANGED vars
            BY <1>2, <2>2, <3>3 DEF vars, brokerVars
        <3> QED
            BY <3>1, <3>2, <3>3, StepsOfTheSystem
    <2> QED
        BY <2>1, <2>2
<1>3. ASSUME NEW q \in Runs, run'[q].stage # "idle"
      PROVE  sent'[run'[q].execution] > 0
    <2>1. run'[q].execution \in Executions /\ sent[run'[q].execution] > 0
        BY <1>3, RunMoves, RunFacts DEF CarriedInv, MessageInv, Message
    <2> QED
        BY <2>1, SentMoves
<1> QED
    BY <1>1, <1>2, <1>3 DEF CarriedInv

-----------------------------------------------------------------------------
(* What the steps do to an execution that waits *)

\* Nobody releases a claim of a row but the reconciler of stale claims, which may cut
\* a publisher off from its answer.
LEMMA ReleaseIsFault ==
    ASSUME PartsInv, [Next]_vars, NEW e \in Executions,
           outbox[e].state = "PUBLISHING", outbox'[e].state = "PENDING"
    PROVE  e \in faulted'
<1>1. outbox \in [Executions -> Outbox!OutboxRow]
    BY PartTypes DEF Outbox!TypeOK
<1>2. ASSUME NEW x \in Executions, NEW p \in Publishers, NEW claim,
             Outbox!CommitClaim(p, x, claim)
      PROVE  FALSE
    BY <1>1, <1>2 DEF Outbox!CommitClaim, Outbox!OutboxRow
<1>3. ASSUME NEW p \in Publishers, Publish(p)
      PROVE  FALSE
    <2>1. publisher[p].stage # "idle" => publisher[p].execution \in Executions
        BY SenderFacts
    <2>2. CASE Outbox!ClaimPending(p)
        BY <1>2, <2>1, <2>2 DEF Outbox!ClaimPending
    <2>3. CASE Outbox!PublishExecution(p)
        BY <2>3 DEF Outbox!PublishExecution
    <2>4. CASE Outbox!MarkPublished(p)
        BY <1>1, <2>1, <2>4 DEF Outbox!MarkPublished, Outbox!OutboxRow
    <2>5. CASE Outbox!MarkFailed(p)
        BY <1>1, <2>1, <2>5 DEF Outbox!MarkFailed, Outbox!OutboxRow
    <2> QED
        BY <1>3, <2>2, <2>3, <2>4, <2>5 DEF Publish
<1>4. ASSUME NEW s \in Sweeps, SweepStep(s)
      PROVE  FALSE
    <2>1. CASE Outbox!CommitStuckPending(s)
        BY <1>1, <2>1 DEF Outbox!CommitStuckPending, Outbox!OutboxRow
    <2>2. CASE Outbox!ClaimStuckPending(s) \/ Outbox!PublishStuckPending(s)
        BY <2>2 DEF Outbox!ClaimStuckPending, Outbox!PublishStuckPending
    <2> QED
        BY <1>4, <2>1, <2>2 DEF SweepStep, Outbox!SweepStep
<1>5. ASSUME NEW x \in Executions, Reconcile(x)
      PROVE  e \in faulted'
    <2>1. CASE Outbox!LeaseExpires(x)
        BY <1>1, <2>1 DEF Outbox!LeaseExpires, Outbox!OutboxRow
    <2>2. CASE Outbox!CooldownEnds(x)
        BY <1>1, <2>2 DEF Outbox!CooldownEnds, Outbox!OutboxRow
    <2>3. CASE Outbox!RequeueFailed(x)
        BY <1>1, <2>3 DEF Outbox!RequeueFailed, Outbox!Retryable, Outbox!OutboxRow
    <2>4. CASE Outbox!RequeueStale(x) /\ faulted' = faulted \cup {x}
        BY <1>1, <2>4 DEF Outbox!RequeueStale, Outbox!OutboxRow
    <2> QED
        BY <1>5, <2>1, <2>2, <2>3, <2>4 DEF Reconcile
<1>6. ~\E p \in Publishers, x \in Executions : RequestExecution(p, x)
    BY <1>2 DEF RequestExecution, Outbox!RequestExecution
<1>7. CASE \/ \E p \in Publishers :
                  \/ \E x \in Executions : Redispatch(p, x)
                  \/ CrashPublisher(p)
           \/ \E s \in Sweeps :
                  \/ \E x \in Executions : ListStuckPending(s, x)
                  \/ RollBackSweep(s)
    BY <1>7 DEF Redispatch, CrashPublisher, ListStuckPending, RollBackSweep,
                Outbox!ReadPending, Outbox!CrashPublisher, Outbox!ListStuckPending,
                Outbox!RollBackSweep
<1>8. CASE DeliveryStep \/ UNCHANGED vars
    BY <1>8 DEF DeliveryStep, LeaseExpires, RecoverStaleExecution, Deliver, Work,
                Acknowledge, Crash, VisibilityTimeout, vars, outboxVars
<1> QED
    BY <1>3, <1>4, <1>5, <1>6, <1>7, <1>8, StepsOfTheSystem DEF DispatchStep

\* A row that has to be sent stays one until it is sent or meets a fault.
LEMMA UnpublishedStays ==
    ASSUME PartsInv, MessageInv, CarriedInv, [Next]_vars, NEW e \in Executions,
           Unpublished(e), sent'[e] = sent[e], e \notin faulted'
    PROVE  Unpublished(e)'
<1>1. outbox \in [Executions -> Outbox!OutboxRow] /\ outbox[e] \in Outbox!OutboxRow
    BY PartTypes DEF Outbox!TypeOK
<1>2. UNCHANGED outbox \/ OutboxProofs!OneRowMoves
    <2>1. [OutboxProofs!Next]_(OutboxProofs!vars) /\ OutboxProofs!Core
        BY OutboxMoves, SameOutbox DEF PartsInv, OutboxProofs!IInv
    <2> QED
        BY <2>1, ConstantsOfOutbox, OutboxProofs!RowMoves
<1>3. outbox'[e] = outbox[e] \/ OutboxProofs!RowMove(e)
    BY <1>1, <1>2 DEF OutboxProofs!OneRowMoves
<1>4. CASE outbox'[e] = outbox[e]
    BY <1>4 DEF Unpublished
<1>5. CASE OutboxProofs!Timed(e)
    BY <1>1, <1>5 DEF OutboxProofs!Timed, Outbox!OutboxRow, Unpublished
<1>6. CASE OutboxProofs!Marked(e)
    <2>1. ~\E p \in Publishers : publisher[p].stage = "sent" /\ publisher[p].execution = e
        BY SenderFacts DEF Unpublished
    <2> QED
        BY <1>1, <1>6, <2>1 DEF OutboxProofs!Marked, Outbox!OutboxRow, Unpublished
<1>7. CASE OutboxProofs!Released(e)
    <2>1. ~(outbox[e].state = "PUBLISHING" /\ outbox'[e].state = "PENDING")
        BY ReleaseIsFault
    <2> QED
        BY <1>1, <1>7, <2>1 DEF OutboxProofs!Released, Outbox!OutboxRow, Unpublished
<1>8. CASE OutboxProofs!Claimed(e)
    BY <1>1, <1>8 DEF OutboxProofs!Claimed, Outbox!OutboxRow, Unpublished
<1>9. CASE OutboxProofs!Swept(e)
    <2>1. ~\E s \in Sweeps : sweep[s].stage = "sent" /\ sweep[s].execution = e
        BY SenderFacts DEF Unpublished
    <2>2. PICK s \in Sweeps, state \in {"PUBLISHED", "FAILED"} :
              /\ state = "FAILED"
              /\ outbox'[e] = [outbox[e] EXCEPT
                     !.state = state, !.claim = OutboxProofs!ClaimId(s, outbox[e].count),
                     !.count = @ + 1, !.lease = "running", !.cooled = FALSE]
        BY <1>9, <2>1 DEF OutboxProofs!Swept
    <2> QED
        BY <1>1, <2>2 DEF Outbox!OutboxRow, Unpublished
<1> QED
    BY <1>3, <1>4, <1>5, <1>6, <1>7, <1>8, <1>9 DEF OutboxProofs!RowMove

-----------------------------------------------------------------------------
(* Who attends to an execution *)

\* A fault is remembered.
LEMMA FaultsStay == [Next]_vars => faulted \subseteq faulted'
<1>1. DispatchStep => faulted \subseteq faulted'
    BY DEF DispatchStep, RequestExecution, Redispatch, Publish, CrashPublisher, Reconcile,
           ListStuckPending, SweepStep, RollBackSweep
<1>2. DeliveryStep => faulted \subseteq faulted'
    BY DEF DeliveryStep, LeaseExpires, RecoverStaleExecution, Deliver, Work, Acknowledge,
           Crash, VisibilityTimeout
<1>3. UNCHANGED vars => faulted \subseteq faulted'
    BY DEF vars
<1> QED
    BY <1>1, <1>2, <1>3, StepsOfTheSystem

\* The holder of a claim keeps it as long as the rows keep their worker and attempt
\* and the run goes on working.
LEMMA HeldStays ==
    ASSUME NEW e \in Executions, Held(e),
           attempt'[e] = attempt[e],
           execution'[e].state = execution[e].state,
           execution'[e].worker_id = execution[e].worker_id,
           execution'[e].attempt_count = execution[e].attempt_count,
           \A q \in Runs : run[q].execution = e /\ Working(q) /\ Authority!Owns(q) =>
               /\ run'[q].execution = run[q].execution
               /\ run'[q].task = run[q].task
               /\ run'[q].number = run[q].number
               /\ Working(q)'
    PROVE  Held(e)'
<1>1. PICK q \in Runs : run[q].execution = e /\ Authority!Owns(q) /\ Working(q)
    BY DEF Held
<1>2. /\ run'[q].execution = e
      /\ run'[q].task = run[q].task
      /\ run'[q].number = run[q].number
      /\ Working(q)'
    BY <1>1
<1>3. Authority!Owns(q)'
    BY <1>1, <1>2 DEF Authority!Owns
<1> QED
    BY <1>2, <1>3 DEF Held

\* A step that leaves the rows and the runs of an execution alone, and its messages
\* in the queue.
LEMMA IdleStep ==
    ASSUME PartsInv, MessageInv, CarriedInv, AttendedInv, [Next]_vars,
           NEW e \in Executions, e \notin faulted',
           execution'[e] = execution[e], attempt'[e] = attempt[e],
           \A q \in Runs : run[q].execution = e /\ run[q].stage \notin {"idle", "done"} =>
               run'[q] = run[q],
           execution[e].state = "REQUESTED" =>
               \A m \in ready : m.execution = e => m \in ready',
           sent'[e] # sent[e] => \E m \in ready' : m.execution = e
    PROVE  /\ execution'[e].state = "CLAIMED" => Held(e)'
           /\ execution'[e].state = "REQUESTED" => OnTheWay(e)' \/ Unpublished(e)'
<1>1. e \in Executions \ faulted
    BY FaultsStay
<1>2. ASSUME execution'[e].state = "CLAIMED"
      PROVE  Held(e)'
    <2>1. Held(e)
        BY <1>1, <1>2 DEF AttendedInv
    <2>2. \A q \in Runs : run[q].execution = e /\ Working(q) =>
              run'[q] = run[q] /\ Working(q)'
        BY DEF Working
    <2> QED
        BY <2>1, <2>2, HeldStays
<1>3. ASSUME execution'[e].state = "REQUESTED"
      PROVE  OnTheWay(e)' \/ Unpublished(e)'
    <2>1. CASE OnTheWay(e)
        <3>1. CASE \E m \in ready : m.execution = e
            BY <1>3, <3>1 DEF OnTheWay
        <3>2. CASE \E r \in Runs : run[r].stage = "resending" /\ run[r].execution = e
            <4>1. PICK r \in Runs : run[r].stage = "resending" /\ run[r].execution = e
                BY <3>2
            <4>2. run'[r] = run[r]
                BY <4>1
            <4> QED
                BY <4>1, <4>2 DEF OnTheWay
        <3> QED
            BY <2>1, <3>1, <3>2 DEF OnTheWay
    <2>2. CASE Unpublished(e) /\ sent'[e] = sent[e]
        BY <2>2, UnpublishedStays
    <2>3. CASE sent'[e] # sent[e]
        BY <2>3 DEF OnTheWay
    <2> QED
        BY <1>1, <1>3, <2>1, <2>2, <2>3 DEF AttendedInv
<1> QED
    BY <1>2, <1>3

\* The steps of the outbox keep every execution attended to.
LEMMA DispatchAttends ==
    ASSUME IInv, DispatchStep
    PROVE  AttendedInv'
<1> USE DEF IInv
<1>1. [Next]_vars
    BY DEF DispatchStep, Next
<1>2. SUFFICES ASSUME NEW e \in Executions, e \notin faulted'
               PROVE  /\ execution'[e].state = "CLAIMED" => Held(e)'
                      /\ execution'[e].state = "REQUESTED" => OnTheWay(e)' \/ Unpublished(e)'
    BY DEF AttendedInv
<1>3. CASE execution'[e] = execution[e] /\ attempt' = attempt /\ run' = run
    <2>1. /\ \A m \in ready : m.execution = e => m \in ready'
          /\ sent'[e] # sent[e] => \E m \in ready' : m.execution = e
        BY <1>2, DispatchQueues
    <2>2. /\ attempt'[e] = attempt[e]
          /\ \A q \in Runs : run[q].execution = e /\ run[q].stage \notin {"idle", "done"} =>
                 run'[q] = run[q]
        BY <1>3
    <2> QED
        BY <1>1, <1>2, <1>3, <2>1, <2>2, IdleStep
<1>4. CASE \E p \in Publishers : RequestExecution(p, e)
    <2>1. PICK p \in Publishers : RequestExecution(p, e)
        BY <1>4
    <2>2. execution'[e].state = "REQUESTED"
        BY <2>1, PartTypes DEF RequestExecution, Authority!RequestExecution,
                               Authority!AbsentExecution, Authority!TypeOK
    <2>3. /\ outbox[e].state = "ABSENT"
          /\ sent' = sent
          /\ Outbox!CommitClaim(p, e, Outbox!ClaimId(p, 0))
        BY <2>1 DEF RequestExecution, Outbox!RequestExecution
    <2>4. outbox'[e].state \in {"PUBLISHING", "FAILED"}
        BY <2>3, PartTypes DEF Outbox!CommitClaim, Outbox!TypeOK, Outbox!OutboxRow
    <2>5. sent[e] = 0
        BY <2>3 DEF CarriedInv
    <2> QED
        BY <2>2, <2>3, <2>4, <2>5 DEF Unpublished
<1>5. CASE \E p \in Publishers, x \in Executions : x # e /\ RequestExecution(p, x)
    <2>1. execution'[e] = execution[e] /\ attempt' = attempt /\ run' = run
        BY <1>5, PartTypes DEF RequestExecution, Authority!RequestExecution, Authority!TypeOK
    <2> QED
        BY <1>3, <2>1
<1>6. CASE \/ \E p \in Publishers :
                  \/ \E x \in Executions : Redispatch(p, x)
                  \/ Publish(p)
                  \/ CrashPublisher(p)
           \/ \E x \in Executions : Reconcile(x)
           \/ \E s \in Sweeps :
                  \/ \E x \in Executions : ListStuckPending(s, x)
                  \/ SweepStep(s)
                  \/ RollBackSweep(s)
    <2>1. execution' = execution /\ attempt' = attempt /\ run' = run
        BY <1>6
        DEF Redispatch, Publish, CrashPublisher, Reconcile, ListStuckPending, SweepStep,
            RollBackSweep, authorityVars
    <2> QED
        BY <1>3, <2>1
<1> QED
    BY <1>4, <1>5, <1>6 DEF DispatchStep

\* A transaction leaves the rows alone, or settles the attempt of its run; one that
\* opens the execution again is about to send its task again.
LEMMA WorkSettlesItsOwn ==
    ASSUME PartsInv, NEW r \in Runs, Authority!WorkStep(r)
    PROVE  \/ UNCHANGED <<execution, attempt>>
           \/ /\ \A e \in Executions \ {run[r].execution} :
                     execution'[e] = execution[e] /\ attempt'[e] = attempt[e]
              /\ execution'[run[r].execution].state # "CLAIMED"
              /\ execution'[run[r].execution].state = "REQUESTED" =>
                     run'[r].stage = "resending"
<1>1. /\ execution \in [Executions -> Authority!ExecutionRow]
      /\ attempt \in [Executions -> [Authority!AttemptNumbers -> Authority!AttemptRow]]
      /\ run \in [Runs -> Authority!RunState]
    BY PartTypes DEF Authority!TypeOK
<1>2. run[r].execution \in Executions
    BY WorkMovesItsRun, RunFacts
<1>3. ASSUME NEW x, NEW a,
             \/ Authority!Settle(r, x, a, TRUE)
             \/ Authority!Settle(r, x, a, FALSE)
      PROVE  /\ \A e \in Executions \ {run[r].execution} :
                    execution'[e] = execution[e] /\ attempt'[e] = attempt[e]
             /\ execution'[run[r].execution].state = x
    <2> DEFINE row == [execution[run[r].execution] EXCEPT
                           !.state = x, !.failed_at = x # "COMPLETED"]
    <2>1. row.state = x
        BY <1>1, <1>2 DEF Authority!ExecutionRow
    <2>2. execution' = [execution EXCEPT ![run[r].execution] = row]
        BY <1>3 DEF Authority!Settle
    <2>3. \A e \in Executions \ {run[r].execution} : attempt'[e] = attempt[e]
        BY <1>1, <1>2, <1>3 DEF Authority!Settle
    <2> HIDE DEF row
    <2> QED
        BY <1>1, <1>2, <2>1, <2>2, <2>3
<1>4. CASE Authority!FailForRetry(r)
    <2>1. run'[r].stage = "resending"
        BY <1>1, <1>4 DEF Authority!FailForRetry, Authority!Advance, Authority!RunState
    <2>2. CASE Authority!Settle(r, "REQUESTED", "FAILED", TRUE)
        <3>1. /\ \A e \in Executions \ {run[r].execution} :
                     execution'[e] = execution[e] /\ attempt'[e] = attempt[e]
              /\ execution'[run[r].execution].state = "REQUESTED"
            BY <1>3, <2>2
        <3> QED
            BY <2>1, <3>1
    <2>3. \/ Authority!Settle(r, "REQUESTED", "FAILED", TRUE)
          \/ UNCHANGED <<execution, attempt>>
        BY <1>4 DEF Authority!FailForRetry, Authority!SettleOrSwallow
    <2> QED
        BY <2>2, <2>3
<1>5. CASE Authority!CompleteExecution(r)
    <2>2. CASE Authority!Settle(r, "COMPLETED", "COMPLETED", FALSE)
        <3>1. /\ \A e \in Executions \ {run[r].execution} :
                     execution'[e] = execution[e] /\ attempt'[e] = attempt[e]
              /\ execution'[run[r].execution].state = "COMPLETED"
            BY <1>3, <2>2
        <3> QED
            BY <3>1
    <2>3. \/ Authority!Settle(r, "COMPLETED", "COMPLETED", FALSE)
          \/ UNCHANGED <<execution, attempt>>
        BY <1>5 DEF Authority!CompleteExecution
    <2> QED
        BY <2>2, <2>3
<1>6. CASE Authority!DeadLetterExecution(r)
    <2>2. CASE Authority!Settle(r, "DEAD_LETTERED", "DEAD_LETTERED", FALSE)
        <3>1. /\ \A e \in Executions \ {run[r].execution} :
                     execution'[e] = execution[e] /\ attempt'[e] = attempt[e]
              /\ execution'[run[r].execution].state = "DEAD_LETTERED"
            BY <1>3, <2>2
        <3> QED
            BY <3>1
    <2>3. \/ Authority!Settle(r, "DEAD_LETTERED", "DEAD_LETTERED", FALSE)
          \/ UNCHANGED <<execution, attempt>>
        BY <1>6 DEF Authority!DeadLetterExecution, Authority!SettleOrSwallow
    <2> QED
        BY <2>2, <2>3
<1>7. CASE Authority!FailEscalated(r)
    <2>2. CASE Authority!Settle(r, "FAILED", "FAILED", FALSE)
        <3>1. /\ \A e \in Executions \ {run[r].execution} :
                     execution'[e] = execution[e] /\ attempt'[e] = attempt[e]
              /\ execution'[run[r].execution].state = "FAILED"
            BY <1>3, <2>2
        <3> QED
            BY <3>1
    <2>3. \/ Authority!Settle(r, "FAILED", "FAILED", FALSE)
          \/ UNCHANGED <<execution, attempt>>
        BY <1>7 DEF Authority!FailEscalated, Authority!SettleOrSwallow
    <2> QED
        BY <2>2, <2>3
<1>8. CASE \/ Authority!PrepareWork(r)
           \/ Authority!BeginCompletion(r)
           \/ Authority!FlushCompletion(r)
           \/ \E c \in ErrorClasses : Authority!BeginFailure(r, c)
           \/ Authority!ResendTask(r)
           \/ Authority!RecordDeadLetterTask(r)
           \/ Authority!PrepareHandoff(r)
    BY <1>8
    DEF Authority!PrepareWork, Authority!BeginCompletion, Authority!FlushCompletion,
        Authority!BeginFailure, Authority!ResendTask, Authority!RecordDeadLetterTask,
        Authority!PrepareHandoff
<1> QED
    BY <1>4, <1>5, <1>6, <1>7, <1>8 DEF Authority!WorkStep

\* A transaction of a run keeps the run's own execution attended to, or it is a fault.
LEMMA WorkAttendsItsOwn ==
    ASSUME IInv, NEW r \in Runs, Work(r), NEW e \in Executions, e \notin faulted',
           run[r].execution = e
    PROVE  /\ execution'[e].state = "CLAIMED" => Held(e)'
           /\ execution'[e].state = "REQUESTED" => OnTheWay(e)' \/ Unpublished(e)'
<1> USE DEF IInv
<1>1. /\ Authority!WorkStep(r)
      /\ UNCHANGED outboxVars
      /\ e \notin faulted
      /\ ready \subseteq ready'
      /\ run[r].stage = "resending" => Resent(r) \in ready'
      /\ run[r].stage # "resending" => ~LetsGo(r)
    BY DEF Work
<1>2. run \in [Runs -> Authority!RunState]
    BY PartTypes DEF Authority!TypeOK
<1>3. PICK s \in Authority!RunStages \ {"idle"} :
          run' = [run EXCEPT ![r] = [run[r] EXCEPT !.stage = s]]
    BY <1>1, WorkMovesItsRun
<1>4. /\ run'[r].stage = s
      /\ run'[r].execution = run[r].execution
      /\ run'[r].task = run[r].task
      /\ run'[r].number = run[r].number
      /\ \A q \in Runs \ {r} : run'[q] = run[q]
    BY <1>2, <1>3 DEF Authority!RunState
<1>5. CASE UNCHANGED <<execution, attempt>>
    <2>1. ASSUME execution'[e].state = "CLAIMED"
          PROVE  Held(e)'
        <3>1. Held(e)
            BY <1>1, <1>5, <2>1 DEF AttendedInv
        <3>2. ASSUME NEW q \in Runs, Working(q), Authority!Owns(q)
              PROVE  /\ run'[q].execution = run[q].execution
                     /\ run'[q].task = run[q].task
                     /\ run'[q].number = run[q].number
                     /\ Working(q)'
            <4>1. CASE q = r
                <5>1. s \notin {"resending", "recording", "done"}
                    BY <1>1, <1>4, <1>5, <3>2, <4>1 DEF Working, LetsGo
                <5> QED
                    BY <1>4, <4>1, <5>1 DEF Working, Authority!RunStages
            <4>2. CASE q # r
                BY <1>4, <3>2, <4>2 DEF Working
            <4> QED
                BY <4>1, <4>2
        <3> QED
            BY <1>5, <3>1, <3>2, HeldStays
    <2>2. ASSUME execution'[e].state = "REQUESTED"
          PROVE  OnTheWay(e)' \/ Unpublished(e)'
        <3>1. CASE \E m \in ready : m.execution = e
            BY <1>1, <3>1 DEF OnTheWay
        <3>2. CASE \E q \in Runs \ {r} : run[q].stage = "resending" /\ run[q].execution = e
            BY <1>4, <3>2 DEF OnTheWay
        <3>3. CASE run[r].stage = "resending"
            <4>1. Resent(r).execution = e
                BY DEF Resent, Carried
            <4> QED
                BY <1>1, <3>3, <4>1 DEF OnTheWay
        <3>4. CASE Unpublished(e)
            BY <1>1, <3>4 DEF Unpublished, outboxVars
        <3> QED
            BY <1>1, <1>5, <2>2, <3>1, <3>2, <3>3, <3>4 DEF AttendedInv, OnTheWay
    <2> QED
        BY <2>1, <2>2
<1>6. CASE /\ execution'[e].state # "CLAIMED"
           /\ execution'[e].state = "REQUESTED" => run'[r].stage = "resending"
    BY <1>4, <1>6 DEF OnTheWay
<1> QED
    BY <1>1, <1>5, <1>6, WorkSettlesItsOwn

\* The slot that claims an execution holds it.
LEMMA ClaimHolds ==
    ASSUME PartsInv, NEW r \in Runs, NEW e \in Executions, NEW t \in Tasks,
           NEW k \in 0 .. MaxRetries, Authority!ClaimExecution(r, e, t, k)
    PROVE  /\ execution'[e].state = "CLAIMED"
           /\ Held(e)'
           /\ \A x \in Executions \ {e} :
                  execution'[x] = execution[x] /\ attempt'[x] = attempt[x]
           /\ \A q \in Runs : run[q].stage # "idle" => run'[q] = run[q]
<1>1. /\ execution \in [Executions -> Authority!ExecutionRow]
      /\ attempt \in [Executions -> [Authority!AttemptNumbers -> Authority!AttemptRow]]
      /\ run \in [Runs -> Authority!RunState]
    BY PartTypes DEF Authority!TypeOK
<1> DEFINE n == execution[e].attempt_count + 1
           row == [execution[e] EXCEPT !.state = "CLAIMED", !.attempt_count = n,
                                       !.worker_id = t, !.claimed_at = "leased"]
           opened == [state |-> "RUNNING", worker_id |-> t, retry_requested |-> FALSE]
           claimed == [stage |-> "claimed", execution |-> e, task |-> t,
                       number |-> n, retries |-> k]
<1>2. n \in Authority!AttemptNumbers
    <2>1. /\ execution[e].attempt_count \in Nat
          /\ execution[e].attempt_count < AttemptBound
          /\ AttemptBound \in Nat
        BY <1>1, SystemAssumption
        DEF Authority!ExecutionRow, Authority!ClaimExecution, Authority!BoundAssumption
    <2> QED
        BY <2>1 DEF Authority!AttemptNumbers
<1>3. /\ row.state = "CLAIMED" /\ row.attempt_count = n /\ row.worker_id = t
      /\ opened.state = "RUNNING" /\ opened.worker_id = t
      /\ claimed.stage = "claimed" /\ claimed.execution = e /\ claimed.task = t
      /\ claimed.number = n
    BY <1>1 DEF Authority!ExecutionRow
<1>4. /\ execution' = [execution EXCEPT ![e] = row]
      /\ attempt' = [attempt EXCEPT ![e][n] = opened]
      /\ run' = [run EXCEPT ![r] = claimed]
      /\ run[r].stage = "idle"
    BY DEF Authority!ClaimExecution, Authority!NextNumber, Authority!IdleRun
<1> HIDE DEF n, row, opened, claimed
<1>6. /\ execution'[e] = row
      /\ attempt'[e][n] = opened
      /\ run'[r] = claimed
    BY <1>1, <1>2, <1>4
<1>7. Authority!Owns(r)' /\ Working(r)' /\ run'[r].execution = e
    BY <1>3, <1>6 DEF Authority!Owns, Working
<1>8. \A x \in Executions \ {e} : execution'[x] = execution[x] /\ attempt'[x] = attempt[x]
    BY <1>1, <1>4
<1>9. \A q \in Runs : run[q].stage # "idle" => run'[q] = run[q]
    BY <1>1, <1>4
<1> QED
    BY <1>3, <1>6, <1>7, <1>8, <1>9 DEF Held

\* The steps of Celery and the workers keep every execution attended to.
LEMMA DeliveryAttends ==
    ASSUME IInv, DeliveryStep
    PROVE  AttendedInv'
<1> USE DEF IInv
<1>1. [Next]_vars
    BY DEF DeliveryStep, Next
<1>2. SUFFICES ASSUME NEW e \in Executions, e \notin faulted'
               PROVE  /\ execution'[e].state = "CLAIMED" => Held(e)'
                      /\ execution'[e].state = "REQUESTED" => OnTheWay(e)' \/ Unpublished(e)'
    BY DEF AttendedInv
<1>3. /\ execution \in [Executions -> Authority!ExecutionRow]
      /\ attempt \in [Executions -> [Authority!AttemptNumbers -> Authority!AttemptRow]]
      /\ run \in [Runs -> Authority!RunState]
    BY PartTypes DEF Authority!TypeOK
<1>4. sent'[e] = sent[e]
    BY DeliveryQueues
<1>5. CASE /\ execution'[e] = execution[e] /\ attempt'[e] = attempt[e]
           /\ \A q \in Runs : run[q].execution = e /\ run[q].stage \notin {"idle", "done"} =>
                  run'[q] = run[q]
           /\ execution[e].state = "REQUESTED" =>
                  \A m \in ready : m.execution = e => m \in ready'
    BY <1>1, <1>2, <1>4, <1>5, IdleStep
<1>6. ASSUME NEW r \in Runs, NEW m \in ready, Deliver(r, m)
      PROVE  /\ execution'[e].state = "CLAIMED" => Held(e)'
             /\ execution'[e].state = "REQUESTED" => OnTheWay(e)' \/ Unpublished(e)'
    <2>1. /\ m.execution \in Executions /\ m.task \in Tasks /\ m.retries \in 0 .. MaxRetries
          /\ ready' = ready \ {m}
        BY <1>6 DEF Deliver, MessageInv, Message
    <2>2. CASE Authority!ClaimExecution(r, m.execution, m.task, m.retries)
        <3>1. CASE m.execution = e
            BY <2>1, <2>2, <3>1, ClaimHolds
        <3>2. CASE m.execution # e
            <4>1. /\ execution'[e] = execution[e] /\ attempt'[e] = attempt[e]
                  /\ \A q \in Runs : run[q].stage # "idle" => run'[q] = run[q]
                BY <2>1, <2>2, <3>2, ClaimHolds
            <4> QED
                BY <1>5, <2>1, <3>2, <4>1
        <3> QED
            BY <3>1, <3>2
    <2>3. CASE /\ UNCHANGED authorityVars
               /\ execution[e].state = "REQUESTED" => m.execution # e
        BY <1>5, <2>1, <2>3 DEF authorityVars
    <2>4. CASE ~Authority!Claimable(m.execution) /\ UNCHANGED authorityVars
        BY <2>3, <2>4 DEF Authority!Claimable
    <2>5. CASE UNCHANGED authorityVars /\ m.execution \in faulted'
        BY <1>2, <2>3, <2>5
    <2> QED
        BY <1>6, <2>2, <2>4, <2>5 DEF Deliver
<1>7. ASSUME NEW r \in Runs, Work(r)
      PROVE  /\ execution'[e].state = "CLAIMED" => Held(e)'
             /\ execution'[e].state = "REQUESTED" => OnTheWay(e)' \/ Unpublished(e)'
    <2>1. CASE run[r].execution = e
        BY <1>2, <1>7, <2>1, WorkAttendsItsOwn
    <2>2. CASE run[r].execution # e
        <3>1. Authority!WorkStep(r) /\ ready \subseteq ready'
            BY <1>7 DEF Work
        <3>2. execution'[e] = execution[e] /\ attempt'[e] = attempt[e]
            BY <2>2, <3>1, WorkSettlesItsOwn
        <3>3. \A q \in Runs \ {r} : run'[q] = run[q]
            <4>1. PICK s \in Authority!RunStages :
                      run' = [run EXCEPT ![r] = [run[r] EXCEPT !.stage = s]]
                BY <3>1, WorkMovesItsRun
            <4> QED
                BY <1>3, <4>1
        <3> QED
            BY <1>5, <2>2, <3>1, <3>2, <3>3
    <2> QED
        BY <2>1, <2>2
<1>8. ASSUME NEW r \in Runs, Acknowledge(r) \/ Crash(r)
      PROVE  /\ execution'[e].state = "CLAIMED" => Held(e)'
             /\ execution'[e].state = "REQUESTED" => OnTheWay(e)' \/ Unpublished(e)'
    <2>1. UNCHANGED <<execution, attempt, ready>>
        BY <1>8 DEF Acknowledge, Crash, Authority!Acknowledge, Authority!Crash
    <2>2. run' = [run EXCEPT ![r] = Authority!IdleRun]
        BY <1>8 DEF Acknowledge, Crash, Authority!Acknowledge, Authority!Crash
    <2>3. run[r].stage = "done" \/ run[r].execution # e
        BY <1>2, <1>8 DEF Acknowledge, Crash, Authority!Acknowledge
    <2> QED
        BY <1>3, <1>5, <2>1, <2>2, <2>3
<1>9. ASSUME NEW x \in Executions, LeaseExpires(x)
      PROVE  /\ execution'[e].state = "CLAIMED" => Held(e)'
             /\ execution'[e].state = "REQUESTED" => OnTheWay(e)' \/ Unpublished(e)'
    <2>1. /\ UNCHANGED <<attempt, run, ready>>
          /\ execution[x].state = "CLAIMED"
          /\ execution' = [execution EXCEPT ![x] = [@ EXCEPT !.claimed_at = "expired"]]
        BY <1>9 DEF LeaseExpires, Authority!LeaseExpires, brokerVars
    <2>2. CASE x = e
        <3>1. /\ execution'[e].state = execution[e].state
              /\ execution'[e].worker_id = execution[e].worker_id
              /\ execution'[e].attempt_count = execution[e].attempt_count
            BY <1>3, <2>1, <2>2 DEF Authority!ExecutionRow
        <3>2. Held(e)
            BY <1>1, <1>2, <2>1, <2>2, FaultsStay DEF AttendedInv
        <3>3. \A q \in Runs : Working(q) => Working(q)'
            BY <2>1 DEF Working
        <3>4. attempt'[e] = attempt[e]
            BY <2>1
        <3>5. Held(e)'
            BY <2>1, <3>1, <3>2, <3>3, <3>4, HeldStays
        <3> QED
            BY <2>1, <2>2, <3>1, <3>5
    <2>3. CASE x # e
        BY <1>3, <1>5, <2>1, <2>3
    <2> QED
        BY <2>2, <2>3
<1>10. ASSUME NEW x \in Executions, RecoverStaleExecution(x)
       PROVE  /\ execution'[e].state = "CLAIMED" => Held(e)'
              /\ execution'[e].state = "REQUESTED" => OnTheWay(e)' \/ Unpublished(e)'
    <2>1. x # e /\ UNCHANGED <<run, ready>>
        BY <1>2, <1>10
        DEF RecoverStaleExecution, Authority!RecoverStaleExecution, brokerVars
    <2>2. execution'[e] = execution[e] /\ attempt'[e] = attempt[e]
        BY <1>3, <1>10, <2>1 DEF RecoverStaleExecution, Authority!RecoverStaleExecution
    <2> QED
        BY <1>5, <2>1, <2>2
<1>11. ASSUME NEW m \in unacked, VisibilityTimeout(m)
       PROVE  /\ execution'[e].state = "CLAIMED" => Held(e)'
              /\ execution'[e].state = "REQUESTED" => OnTheWay(e)' \/ Unpublished(e)'
    BY <1>5, <1>11 DEF VisibilityTimeout, authorityVars
<1> QED
    BY <1>6, <1>7, <1>8, <1>9, <1>10, <1>11 DEF DeliveryStep

\* A step that changes nothing, and the step of any process.
LEMMA AttendedStep ==
    ASSUME IInv, [Next]_vars
    PROVE  AttendedInv'
<1>1. CASE UNCHANGED vars
    BY <1>1
    DEF IInv, AttendedInv, Held, Working, OnTheWay, Unpublished, Authority!Owns, vars,
        authorityVars, outboxVars, brokerVars
<1> QED
    BY <1>1, DispatchAttends, DeliveryAttends, StepsOfTheSystem

-----------------------------------------------------------------------------
(* The theorems *)

LEMMA InitInv == Init => IInv
<1> SUFFICES ASSUME Init PROVE IInv
    OBVIOUS
<1>1. AuthorityProofs!IInv
    BY SameAuthority, ConstantsOfAuthority, AuthorityProofs!InitRowInv,
       AuthorityProofs!InitHistoryInv, AuthorityProofs!InitPolicyInv
    DEF Init, AuthorityProofs!IInv
<1>2. OutboxProofs!IInv
    BY SameOutbox, ConstantsOfOutbox, OutboxProofs!InitInv DEF Init
<1>3. MessageInv
    BY DEF Init, MessageInv
<1>4. CarriedInv
    BY DEF Init, CarriedInv, Authority!Init, Authority!IdleRun, Outbox!Init
<1>5. AttendedInv
    BY DEF Init, AttendedInv, Authority!Init, Authority!AbsentExecution
<1> QED
    BY <1>1, <1>2, <1>3, <1>4, <1>5 DEF IInv, PartsInv

LEMMA NextInv ==
    ASSUME IInv, [Next]_vars
    PROVE  IInv'
BY PartsStep, MessageStep, CarriedStep, AttendedStep DEF IInv

\* The inductive invariant holds in every reachable state.
THEOREM SystemInvariant == Spec => []IInv
<1>1. IInv /\ [Next]_vars => IInv'
    BY NextInv
<1> QED
    BY InitInv, <1>1, PTL DEF Spec

\* The system never asks anything of the authority that it does not expect of its
\* transport, whatever Celery loses, delays, redelivers and resends.
THEOREM AuthorityIsImplemented == Spec => ImplementsAuthority
<1>1. Init => Authority!Init
    BY DEF Init
<1>2. IInv /\ [Next]_vars => [Authority!Next]_(Authority!vars)
    BY AuthorityMoves DEF IInv
<1> QED
    BY SystemInvariant, <1>1, <1>2, PTL DEF Spec, ImplementsAuthority, Authority!Spec

\* The workers settle executions only as the outbox expects it: one at a time, for
\* good, and after a message was sent.
THEOREM OutboxIsImplemented == Spec => ImplementsOutbox
<1>1. Init => Outbox!Init
    BY DEF Init
<1>2. IInv /\ [Next]_vars => [Outbox!Next]_(Outbox!vars)
    BY OutboxMoves DEF IInv
<1> QED
    BY SystemInvariant, <1>1, <1>2, PTL DEF Spec, ImplementsOutbox, Outbox!Spec

\* Rows, messages and processes keep their types; a resent message never exceeds the
\* task's max_retries.
THEOREM TypesHold == Spec => []TypeOK
<1>1. IInv => TypeOK
    BY PartTypes DEF IInv, MessageInv, TypeOK
<1> QED
    BY SystemInvariant, <1>1, PTL

\* An execution that is neither settled nor attended to has met a fault, or was never
\* sent although the reconcilers spent their budget on it: refused redeliveries, late
\* broker answers, overlapping sweeps and slow workers strand none.
THEOREM StrandingIsFault == Spec => []StrandedOnlyByFault
<1>1. ASSUME IInv PROVE StrandedOnlyByFault
    <2> SUFFICES ASSUME NEW e \in Executions, e \notin faulted,
                        execution[e].state \in {"REQUESTED", "CLAIMED"}
                 PROVE  \/ Attended(e)
                        \/ PublicationExhausted(e) /\ sent[e] = 0
        BY DEF StrandedOnlyByFault
    <2>1. CASE execution[e].state = "CLAIMED"
        <3>1. PICK r \in Runs : run[r].execution = e /\ Authority!Owns(r) /\ Working(r)
            BY <1>1, <2>1 DEF IInv, AttendedInv, Held
        <3>2. WorkedOn(e)
            BY <3>1 DEF WorkedOn, Working, Authority!Owns
        <3> QED
            BY <2>1, <3>2 DEF Attended
    <2>2. CASE execution[e].state = "REQUESTED"
        <3>1. CASE OnTheWay(e)
            BY <2>2, <3>1 DEF Attended, OnTheWay
        <3>2. CASE Unpublished(e)
            <4>1. outbox[e].count \in Nat /\ MaxPublishAttempts \in Nat
                BY <1>1, PartTypes, SystemAssumption
                DEF IInv, Outbox!TypeOK, Outbox!OutboxRow, Outbox!OutboxAssumption
            <4>2. CASE outbox[e].state = "FAILED"
                BY <2>2, <3>2, <4>1, <4>2 DEF Attended, PublicationExhausted, Unpublished
            <4> QED
                BY <2>2, <3>2, <4>2 DEF Attended, Unpublished
        <3> QED
            BY <1>1, <2>2, <3>1, <3>2 DEF IInv, AttendedInv
    <2> QED
        BY <2>1, <2>2
<1> QED
    BY SystemInvariant, <1>1, PTL

\* What the parts promise holds of them under Celery: effects commit once although
\* messages are redelivered, retries and failures are accounted for, and PUBLISHED
\* means that the broker has the message.
EndToEnd ==
    /\ Authority!RunsOwnDistinctAttempts
    /\ Authority!EffectsCommitOnce
    /\ Authority!FailureIsHandedOff
    /\ Authority!RetriesWithinBudget
    /\ Outbox!PublishedWasSent

\* complete_execution, _fail_execution_record, the hand-off and mark_outbox_published
\* keep their promises end to end.
THEOREM PromisesHoldEndToEnd == Spec => []EndToEnd
<1>1. ASSUME IInv PROVE EndToEnd
    <2>1. /\ AuthorityProofs!RunsOwnDistinctAttempts
          /\ AuthorityProofs!EffectsCommitOnce
          /\ AuthorityProofs!FailureIsHandedOff
        BY <1>1 DEF IInv, PartsInv, AuthorityProofs!IInv, AuthorityProofs!RowInv,
                    AuthorityProofs!HistoryInv
    <2>2. OutboxProofs!SentInv
        BY <1>1 DEF IInv, PartsInv, OutboxProofs!IInv
    <2>3. Authority!RunsOwnDistinctAttempts /\ Authority!EffectsCommitOnce
        BY <2>1 DEF AuthorityProofs!RunsOwnDistinctAttempts,
                    AuthorityProofs!EffectsCommitOnce,
                    Authority!RunsOwnDistinctAttempts, Authority!EffectsCommitOnce
    <2>4. Authority!FailureIsHandedOff
        BY <2>1 DEF AuthorityProofs!FailureIsHandedOff, Authority!FailureIsHandedOff
    <2>5. Authority!RetriesWithinBudget
        BY <1>1 DEF IInv, PartsInv, AuthorityProofs!IInv, AuthorityProofs!PolicyInv,
                    AuthorityProofs!Decided, AuthorityProofs!MayRetry,
                    Authority!RetriesWithinBudget, Authority!MayRetry
    <2>6. Outbox!PublishedWasSent
        BY <2>2 DEF OutboxProofs!SentInv, Outbox!PublishedWasSent
    <2> QED
        BY <2>3, <2>4, <2>5, <2>6 DEF EndToEnd
<1> QED
    BY SystemInvariant, <1>1, PTL

=============================================================================
