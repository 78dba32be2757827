------------------------- MODULE ExecutionAuthority -------------------------
(***************************************************************************)
(* The execution authority: the execution_records and execution_attempts   *)
(* rows (app/execution/persistence/postgres.py), the diagnostic worker     *)
(* that claims and settles them (app/workers/agent_tasks.py) and the       *)
(* recovery of expired claims (app/execution/runtime.py).                  *)
(*                                                                         *)
(* Every database transaction of the worker is one action; between two     *)
(* transactions anything may interleave.  The transport is arbitrary here: *)
(* a delivery may repeat, arrive late or name any requested execution.     *)
(* ExecutionSystem restricts it to what Celery can deliver.                *)
(*                                                                         *)
(* Wall-clock time is abstracted to the question the recovery asks of it:  *)
(* whether claimed_at is older than the claim lease.                       *)
(***************************************************************************)
EXTENDS Naturals, FiniteSets

CONSTANTS
    Executions,      \* execution ids
    Tasks,           \* Celery task ids; a worker_id is "celery:<task id>"
    Runs,            \* worker process slots, one task run each
    None,            \* SQL NULL, and the absent fields of an idle slot
    ErrorClasses,    \* retry policies of the failures a run can meet
    MaxRetries,      \* max_retries of the Celery task
    AttemptBound     \* bound on claims of one execution (attempt_count has none)

ErrorClass == [max_retries : Nat, terminal : BOOLEAN, escalates : BOOLEAN]

ASSUME NoneAssumption ==
    None \notin Executions \cup Tasks \cup ErrorClasses
ASSUME PolicyAssumption ==
    /\ MaxRetries \in Nat
    /\ ErrorClasses \subseteq ErrorClass
    /\ \A c \in ErrorClasses : c.max_retries <= MaxRetries
ASSUME BoundAssumption ==
    AttemptBound \in Nat \ {0}

VARIABLES
    execution,   \* execution[e]: the execution_records row of e
    attempt,     \* attempt[e][n]: the execution_attempts row of the n-th attempt
    run,         \* run[r]: the task run in slot r
    failure,     \* failure[r]: the class of the failure that this run persists
    commits,     \* commits[e]: committed completion transactions (history)
    handoff,     \* handoff[e]: attempts whose escalation outbox row is durable
    dlq          \* dlq[e]: attempts with a dead_letter_tasks row

vars == <<execution, attempt, run, failure, commits, handoff, dlq>>

-----------------------------------------------------------------------------
(* Types *)

AttemptNumbers == 1..AttemptBound
TerminalStates == {"COMPLETED", "FAILED", "DEAD_LETTERED"}
ExecutionStates == {"ABSENT", "REQUESTED", "CLAIMED"} \cup TerminalStates
AttemptStates == {"ABSENT", "RUNNING"} \cup TerminalStates

ExecutionRow ==
    [state : ExecutionStates, attempt_count : 0..AttemptBound,
     worker_id : Tasks \cup {None}, claimed_at : {"null", "leased", "expired"},
     failed_at : BOOLEAN]

AttemptRow ==
    [state : AttemptStates, worker_id : Tasks \cup {None}, retry_requested : BOOLEAN]

\* Where a run stands between two of its transactions.
RunStages ==
    {"idle", "claimed", "reasoning", "committing", "flushing",
     "retrying", "resending", "dead_lettering", "recording",
     "escalating", "closing", "done"}

RunState ==
    [stage : RunStages, execution : Executions \cup {None}, task : Tasks \cup {None},
     number : 0..AttemptBound, retries : 0..MaxRetries]

AbsentExecution ==
    [state |-> "ABSENT", attempt_count |-> 0, worker_id |-> None,
     claimed_at |-> "null", failed_at |-> FALSE]

AbsentAttempt ==
    [state |-> "ABSENT", worker_id |-> None, retry_requested |-> FALSE]

IdleRun ==
    [stage |-> "idle", execution |-> None, task |-> None, number |-> 0, retries |-> 0]

TypeOK ==
    /\ execution \in [Executions -> ExecutionRow]
    /\ attempt \in [Executions -> [AttemptNumbers -> AttemptRow]]
    /\ run \in [Runs -> RunState]
    /\ failure \in [Runs -> ErrorClasses \cup {None}]
    /\ commits \in [Executions -> Nat]
    /\ handoff \in [Executions -> SUBSET AttemptNumbers]
    /\ dlq \in [Executions -> SUBSET AttemptNumbers]

Init ==
    /\ execution = [e \in Executions |-> AbsentExecution]
    /\ attempt = [e \in Executions |-> [n \in AttemptNumbers |-> AbsentAttempt]]
    /\ run = [r \in Runs |-> IdleRun]
    /\ failure = [r \in Runs |-> None]
    /\ commits = [e \in Executions |-> 0]
    /\ handoff = [e \in Executions |-> {}]
    /\ dlq = [e \in Executions |-> {}]

-----------------------------------------------------------------------------
(* Helpers *)

Terminal(e) == execution[e].state \in TerminalStates

\* Move run r to another stage, keeping its delivery and attempt.
Advance(r, stage) == run' = [run EXCEPT ![r] = [@ EXCEPT !.stage = stage]]

\* The row filters of the settling UPDATEs alone, which compare neither the
\* attempt number nor the attempt row's state (a faulty variant of Owns).
OwnsByWorkerOnly(r) ==
    /\ execution[run[r].execution].state = "CLAIMED"
    /\ execution[run[r].execution].worker_id = run[r].task

\* validate_worker_legitimacy, and the guard of the settling transitions: the
\* execution is claimed by this worker and this attempt is its current one.
Owns(r) ==
    LET e == run[r].execution
        n == run[r].number
    IN  /\ execution[e].state = "CLAIMED"
        /\ execution[e].worker_id = run[r].task
        /\ attempt[e][n].worker_id = run[r].task
        /\ attempt[e][n].state = "RUNNING"
        /\ n = execution[e].attempt_count

\* The UPDATE of both rows that ends run r's attempt.
Settle(r, executionState, attemptState, retry) ==
    LET e == run[r].execution
        n == run[r].number
    IN  /\ execution' = [execution EXCEPT ![e] =
               [@ EXCEPT !.state = executionState,
                         !.failed_at = executionState # "COMPLETED"]]
        /\ attempt' = [attempt EXCEPT ![e][n] =
               [@ EXCEPT !.state = attemptState, !.retry_requested = retry]]

-----------------------------------------------------------------------------
(* The authority's rows *)

\* request_diagnostic_execution: the row is created once per dispatch.
RequestExecution(e) ==
    /\ execution[e].state = "ABSENT"
    /\ execution' = [execution EXCEPT ![e] = [AbsentExecution EXCEPT !.state = "REQUESTED"]]
    /\ UNCHANGED <<attempt, run, failure, commits, handoff, dlq>>

\* A claim refused only while another claim is live (a faulty variant).
ClaimableUnlessClaimed(e) == execution[e].state \notin {"ABSENT", "CLAIMED"}

Claimable(e) == execution[e].state = "REQUESTED"

\* A count incremented by the UPDATE and again by its reader (faulty).
NextNumberTwice(e) == execution[e].attempt_count + 2

\* A claim that reuses the number of the attempt it follows (faulty).
NextNumberReused(e) ==
    IF execution[e].attempt_count = 0 THEN 1 ELSE execution[e].attempt_count

NextNumber(e) == execution[e].attempt_count + 1

\* claim_execution as the first transaction of a delivery (task t, its k-th
\* retry) that slot r picked up: the CAS, the next attempt row, the commit.
ClaimExecution(r, e, t, k) ==
    LET n == NextNumber(e)
    IN  /\ run[r] = IdleRun
        /\ Claimable(e)
        /\ execution[e].attempt_count < AttemptBound
        /\ execution' = [execution EXCEPT ![e] =
               [@ EXCEPT !.state = "CLAIMED", !.attempt_count = n,
                         !.worker_id = t, !.claimed_at = "leased"]]
        /\ attempt' = [attempt EXCEPT ![e][n] =
               [state |-> "RUNNING", worker_id |-> t, retry_requested |-> FALSE]]
        /\ run' = [run EXCEPT ![r] =
               [stage |-> "claimed", execution |-> e, task |-> t,
                number |-> n, retries |-> k]]
        /\ UNCHANGED <<failure, commits, handoff, dlq>>

\* The claim lease of e runs out.
LeaseExpires(e) ==
    /\ execution[e].state = "CLAIMED"
    /\ execution[e].claimed_at = "leased"
    /\ execution' = [execution EXCEPT ![e] = [@ EXCEPT !.claimed_at = "expired"]]
    /\ UNCHANGED <<attempt, run, failure, commits, handoff, dlq>>

\* Recovery that looks at the claim's state but not at its age (faulty).
RecoverableWhenClaimed(e) == execution[e].state = "CLAIMED"

Recoverable(e) ==
    /\ execution[e].state = "CLAIMED"
    /\ execution[e].claimed_at = "expired"

\* Recovery that reopens the execution but leaves the attempt row (faulty).
ClosedByLeavingRow(e) == attempt[e]

\* The attempt rows after recovery closed the current one.
ClosedByRecovery(e) ==
    [attempt[e] EXCEPT ![execution[e].attempt_count] =
        [@ EXCEPT !.state = "FAILED", !.retry_requested = TRUE]]

\* recover_stale_execution: reopen an expired claim, close its attempt.
RecoverStaleExecution(e) ==
    /\ Recoverable(e)
    /\ execution' = [execution EXCEPT ![e] =
           [@ EXCEPT !.state = "REQUESTED", !.claimed_at = "null",
                     !.worker_id = None, !.failed_at = TRUE]]
    /\ attempt' = [attempt EXCEPT ![e] = ClosedByRecovery(e)]
    /\ UNCHANGED <<run, failure, commits, handoff, dlq>>

-----------------------------------------------------------------------------
(* The diagnostic worker: execute_diagnostic_agent_runtime in slot r *)

\* The rest of _prepare_diagnostic_execution: the legitimacy check, the started
\* event and the content load.  A failure to load escapes the task, which ends
\* with the execution still claimed.
PrepareWork(r) ==
    /\ run[r].stage = "claimed"
    /\ \/ Owns(r) /\ Advance(r, "reasoning")
       \/ Advance(r, "done")
    /\ UNCHANGED <<execution, attempt, failure, commits, handoff, dlq>>

\* _persist_diagnostic_success up to the legitimacy check of its transaction.
BeginCompletion(r) ==
    /\ run[r].stage = "reasoning"
    /\ Advance(r, IF Owns(r) THEN "committing" ELSE "done")
    /\ UNCHANGED <<execution, attempt, failure, commits, handoff, dlq>>

\* A replay recognised by the execution's state alone, whoever completed it (a
\* faulty variant).
OutcomeByState(r) ==
    IF Owns(r) THEN "completed"
    ELSE IF execution[run[r].execution].state = "COMPLETED" THEN "replayed"
    ELSE "claim_lost"

\* What complete_execution finds when the transaction reaches it: the claim is
\* still the run's, or the attempt has completed before, or the claim is lost.
CompletionOutcome(r) ==
    LET e == run[r].execution
        n == run[r].number
    IN  IF Owns(r) THEN "completed"
        ELSE IF /\ execution[e].state = "COMPLETED"
                /\ attempt[e][n].state = "COMPLETED"
                /\ attempt[e][n].worker_id = run[r].task
             THEN "replayed"
        ELSE "claim_lost"

\* A completion that commits its effects whatever the CAS said (faulty).
CompleteWithoutRollback(r) ==
    /\ run[r].stage = "committing"
    /\ IF CompletionOutcome(r) = "completed"
       THEN Settle(r, "COMPLETED", "COMPLETED", FALSE)
       ELSE UNCHANGED <<execution, attempt>>
    /\ commits' = [commits EXCEPT ![run[r].execution] = @ + 1]
    /\ Advance(r, "flushing")
    /\ UNCHANGED <<failure, handoff, dlq>>

\* The completion transaction: both CAS updates and every effect persisted with
\* them commit together; a lost claim rolls the effects back.
CompleteExecution(r) ==
    /\ run[r].stage = "committing"
    /\ IF CompletionOutcome(r) = "completed"
       THEN Settle(r, "COMPLETED", "COMPLETED", FALSE)
       ELSE UNCHANGED <<execution, attempt>>
    /\ IF CompletionOutcome(r) = "claim_lost"
       THEN UNCHANGED commits /\ Advance(r, "done")
       ELSE /\ commits' = [commits EXCEPT ![run[r].execution] = @ + 1]
            /\ Advance(r, "flushing")
    /\ UNCHANGED <<failure, handoff, dlq>>

\* The publications after the commit: outbound send, escalations, supervisor.
FlushCompletion(r) ==
    /\ run[r].stage = "flushing"
    /\ Advance(r, "done")
    /\ UNCHANGED <<execution, attempt, failure, commits, handoff, dlq>>

\* A retry decision that knows the task's budget but not the class's (faulty).
TerminalByTaskBudget(c, retries, number) ==
    \/ c.terminal
    \/ retries >= MaxRetries
    \/ number >= MaxRetries + 1

\* A retry decision that counts the retry it is about to request (faulty).
TerminalOneEarly(c, retries, number) ==
    \/ c.terminal
    \/ retries + 1 >= c.max_retries
    \/ number >= MaxRetries + 1

\* _diagnostic_retry_decision with _diagnostic_failure_is_terminal: no retry of
\* a terminal class, past the class's budget or past the task's attempts.
FailureIsTerminal(c, retries, number) ==
    \/ c.terminal
    \/ retries >= c.max_retries
    \/ number >= MaxRetries + 1

FailureStage(c, retries, number) ==
    IF ~FailureIsTerminal(c, retries, number) THEN "retrying"
    ELSE IF c.escalates THEN "escalating" ELSE "dead_lettering"

\* _persist_diagnostic_failure up to the failure event: the reasoning raised,
\* the completion transaction raised and rolled back, or a publication after
\* the commit raised.  A lost claim ends the task, and so does a database error
\* in this transaction, which escapes it.
BeginFailure(r, c) ==
    /\ run[r].stage \in {"reasoning", "committing", "flushing"}
    /\ \/ /\ Owns(r)
          /\ Advance(r, FailureStage(c, run[r].retries, run[r].number))
          /\ failure' = [failure EXCEPT ![r] = c]
       \/ Advance(r, "done") /\ UNCHANGED failure
    /\ UNCHANGED <<execution, attempt, commits, handoff, dlq>>

\* The settling transaction of a failure: it commits if the claim is still the
\* run's; a lost claim or a database error is rolled back and swallowed.
SettleOrSwallow(r, executionState, attemptState, retry) ==
    \/ Owns(r) /\ Settle(r, executionState, attemptState, retry)
    \/ UNCHANGED <<execution, attempt>>

\* _fail_execution_record of a failure that will be retried.
FailForRetry(r) ==
    /\ run[r].stage = "retrying"
    /\ SettleOrSwallow(r, "REQUESTED", "FAILED", TRUE)
    /\ Advance(r, "resending")
    /\ UNCHANGED <<failure, commits, handoff, dlq>>

\* self.retry: the task is sent again, whether or not the failure was recorded.
ResendTask(r) ==
    /\ run[r].stage = "resending"
    /\ Advance(r, "done")
    /\ UNCHANGED <<execution, attempt, failure, commits, handoff, dlq>>

\* _dead_letter_execution_record.
DeadLetterExecution(r) ==
    /\ run[r].stage = "dead_lettering"
    /\ SettleOrSwallow(r, "DEAD_LETTERED", "DEAD_LETTERED", FALSE)
    /\ Advance(r, "recording")
    /\ UNCHANGED <<failure, commits, handoff, dlq>>

\* _record_dead_letter_task, in a transaction of its own that may fail.
RecordDeadLetterTask(r) ==
    /\ run[r].stage = "recording"
    /\ dlq' \in {dlq, [dlq EXCEPT ![run[r].execution] = @ \cup {run[r].number}]}
    /\ Advance(r, "done")
    /\ UNCHANGED <<execution, attempt, failure, commits, handoff>>

\* An escalation that closes the execution before its outbox row (faulty).
PrepareHandoffLate(r) ==
    /\ run[r].stage = "escalating"
    /\ Advance(r, "closing")
    /\ UNCHANGED <<execution, attempt, failure, commits, handoff, dlq>>

\* _escalate_terminal_diagnostic_block up to the commit of the escalation
\* outbox row; an error there escapes the task with the execution claimed.
PrepareHandoff(r) ==
    /\ run[r].stage = "escalating"
    /\ \/ /\ handoff' = [handoff EXCEPT ![run[r].execution] = @ \cup {run[r].number}]
          /\ Advance(r, "closing")
       \/ UNCHANGED handoff /\ Advance(r, "done")
    /\ UNCHANGED <<execution, attempt, failure, commits, dlq>>

\* The rest of it: the escalation is published and the execution fails for good.
FailEscalated(r) ==
    /\ run[r].stage = "closing"
    /\ SettleOrSwallow(r, "FAILED", "FAILED", FALSE)
    /\ Advance(r, "done")
    /\ UNCHANGED <<failure, commits, handoff, dlq>>

\* The task has returned or raised and Celery acknowledges its message.
Acknowledge(r) ==
    /\ run[r].stage = "done"
    /\ run' = [run EXCEPT ![r] = IdleRun]
    /\ failure' = [failure EXCEPT ![r] = None]
    /\ UNCHANGED <<execution, attempt, commits, handoff, dlq>>

\* The worker process dies; an open transaction is rolled back.
Crash(r) ==
    /\ run[r].stage # "idle"
    /\ run' = [run EXCEPT ![r] = IdleRun]
    /\ failure' = [failure EXCEPT ![r] = None]
    /\ UNCHANGED <<execution, attempt, commits, handoff, dlq>>

-----------------------------------------------------------------------------
(* The specification *)

RowStep(e) ==
    \/ RequestExecution(e)
    \/ LeaseExpires(e)
    \/ RecoverStaleExecution(e)

WorkStep(r) ==
    \/ PrepareWork(r)
    \/ BeginCompletion(r)
    \/ CompleteExecution(r)
    \/ FlushCompletion(r)
    \/ \E c \in ErrorClasses : BeginFailure(r, c)
    \/ FailForRetry(r)
    \/ ResendTask(r)
    \/ DeadLetterExecution(r)
    \/ RecordDeadLetterTask(r)
    \/ PrepareHandoff(r)
    \/ FailEscalated(r)

Next ==
    \/ \E e \in Executions : RowStep(e)
    \/ \E r \in Runs, e \in Executions, t \in Tasks, k \in 0..MaxRetries :
           ClaimExecution(r, e, t, k)
    \/ \E r \in Runs : WorkStep(r) \/ Acknowledge(r) \/ Crash(r)

Spec == Init /\ [][Next]_vars

-----------------------------------------------------------------------------
(* Properties *)

\* An attempt that was closed so that the execution could be claimed again.
ClosedForRetry(row) == row.state = "FAILED" /\ row.retry_requested

\* The attempt rows that belong to an execution row.
Lineage(row, attempts) ==
    LET last == attempts[row.attempt_count]
    IN  /\ \A n \in AttemptNumbers :
               /\ n > row.attempt_count => attempts[n] = AbsentAttempt
               /\ n < row.attempt_count => ClosedForRetry(attempts[n])
        /\ row.state = "ABSENT" => row.attempt_count = 0
        /\ row.state = "REQUESTED" /\ row.attempt_count > 0 => ClosedForRetry(last)
        /\ row.state = "CLAIMED" =>
               /\ row.attempt_count > 0
               /\ row.claimed_at # "null"
               /\ row.worker_id \in Tasks
               /\ last.state = "RUNNING"
               /\ last.worker_id = row.worker_id
        /\ row.state \in TerminalStates =>
               /\ row.attempt_count > 0
               /\ last.state = row.state
               /\ ~last.retry_requested

\* The rows of an execution and of its attempts never disagree: attempts 1 to
\* attempt_count exist and no others; all but the last were closed for retry;
\* the last is running under the execution's own worker exactly while the
\* execution is claimed, and otherwise carries the execution's outcome.  This
\* is what _resolve_running_attempt raises about and what the settling CAS on
\* the attempt row takes for granted.
AttemptLineage == \A e \in Executions : Lineage(execution[e], attempt[e])

\* No two task runs ever work on the same attempt, although a redelivered
\* message gives two processes the same worker_id.
RunsOwnDistinctAttempts ==
    \A r, s \in Runs :
        /\ r # s
        /\ run[r].stage # "idle"
        /\ run[s].stage # "idle"
        /\ run[r].execution = run[s].execution
        => run[r].number # run[s].number

\* The effects of a diagnosis (timeline event, resolution proposal, approval
\* cases) are committed once, and exactly when the execution completes, however
\* often its message is delivered or its claim recovered.
EffectsCommitOnce ==
    \A e \in Executions :
        commits[e] = IF execution[e].state = "COMPLETED" THEN 1 ELSE 0

\* An execution is never failed for good before the escalation that hands it to
\* a human is durable.
FailureIsHandedOff ==
    \A e \in Executions :
        execution[e].state = "FAILED" => execution[e].attempt_count \in handoff[e]

\* The policy of the failure that run r met, and the attempt limit of its task,
\* leave it another retry.
MayRetry(r) ==
    /\ failure[r] \in ErrorClasses
    /\ ~failure[r].terminal
    /\ run[r].retries < failure[r].max_retries
    /\ run[r].number <= MaxRetries

\* A task is sent again only if the error class of the very failure that this run
\* met has retries left in its own budget, and the task has attempts left: neither
\* a claim lost in between, nor an error that kept the failure from being recorded,
\* nor a retry count that recoveries have left behind the attempt number lets a
\* run past the budget of its class.
RetriesWithinBudget ==
    \A r \in Runs : run[r].stage \in {"retrying", "resending"} => MayRetry(r)

\* What the policy of run r's failure makes of its execution.
PolicyOutcome(r) ==
    IF MayRetry(r) THEN "REQUESTED"
    ELSE IF failure[r].escalates THEN "FAILED" ELSE "DEAD_LETTERED"

\* A failed execution is reopened, handed to a human or dead-lettered as the policy
\* of the failure of its current attempt says: it is not given up while that class
\* has a retry left, nor on the verdict of a run whose claim was recovered.  Only
\* the recovery of an expired claim reopens one without asking the policy.
FailureFollowsPolicy ==
    [][\A e \in Executions :
           /\ execution[e].state = "CLAIMED"
           /\ execution'[e].state \in {"REQUESTED", "FAILED", "DEAD_LETTERED"}
           => \/ execution[e].claimed_at = "expired" /\ run' = run
              \/ \E r \in Runs :
                     /\ run[r].execution = e
                     /\ run[r].number = execution[e].attempt_count
                     /\ failure[r] \in ErrorClasses
                     /\ execution'[e].state = PolicyOutcome(r)]_vars

\* A settled execution and its attempt rows never change again: neither a
\* redelivery, nor a run that lost its claim, nor recovery reopens it.
SettledIsFinal ==
    [][\A e \in Executions : Terminal(e) =>
           /\ execution'[e] = execution[e]
           /\ attempt'[e] = attempt[e]]_vars

\* An execution leaves CLAIMED only through a run that holds its current
\* attempt, or through recovery after the lease has expired.
OnlyTheHolderReleases ==
    [][\A e \in Executions :
           execution[e].state = "CLAIMED" /\ execution'[e].state # "CLAIMED" =>
               \/ execution[e].claimed_at = "expired" /\ run' = run
               \/ \E r \in Runs :
                      /\ run'[r] # run[r]
                      /\ run[r].execution = e
                      /\ run[r].number = execution[e].attempt_count]_vars

\* The attempt history is append-only: a closed attempt is never rewritten and
\* attempt_count grows one claim at a time, each claim a new row.
AttemptHistoryAppends ==
    [][\A e \in Executions :
           /\ execution'[e].attempt_count \in
                  {execution[e].attempt_count, execution[e].attempt_count + 1}
           /\ \A n \in AttemptNumbers :
                  /\ attempt[e][n].state \in TerminalStates => attempt'[e][n] = attempt[e][n]
                  /\ attempt[e][n] = AbsentAttempt /\ attempt'[e][n] # AbsentAttempt =>
                         n = execution[e].attempt_count + 1]_vars

-----------------------------------------------------------------------------
(* The contract that the rows implement *)

\* What an execution row means to those who ask for the execution.
Status(row) ==
    CASE row.state = "ABSENT" -> "absent"
      [] row.state = "REQUESTED" -> "open"
      [] row.state = "CLAIMED" -> "held"
      [] row.state = "COMPLETED" -> "completed"
      [] OTHER -> "abandoned"

\* The attempt number is the fencing token.
Token(r) ==
    IF run[r].stage = "idle" THEN <<>> ELSE <<run[r].execution, run[r].number>>

Contract ==
    INSTANCE ExecutionContract WITH
        Holders <- Runs,
        NoToken <- <<>>,
        status <- [e \in Executions |-> Status(execution[e])],
        grants <- [e \in Executions |-> execution[e].attempt_count],
        token <- [r \in Runs |-> Token(r)],
        effects <- commits

\* The rows, the CAS updates on them and the worker's transactions implement a
\* fenced grant: whatever is redelivered, recovered or late, only the holder of
\* the current attempt concludes an execution.
ImplementsContract == Contract!Spec

=============================================================================
