---------------------- MODULE ExecutionAuthorityProofs ----------------------
(***************************************************************************)
(* Proofs about ExecutionAuthority, for every set of executions, tasks and *)
(* runs, every retry policy and every bound on the number of claims.       *)
(***************************************************************************)
EXTENDS ExecutionAuthority, TLAPS

\* The delivery and attempt a busy run works on exist.
RunsAreBound ==
    \A r \in Runs : run[r].stage # "idle" =>
        /\ run[r].execution \in Executions
        /\ run[r].task \in Tasks
        /\ run[r].number \in 1..execution[run[r].execution].attempt_count

\* A run that may still complete its attempt has not completed it already.
CompletionIsPending ==
    \A r \in Runs : run[r].stage \in {"claimed", "reasoning", "committing"} =>
        attempt[run[r].execution][run[r].number].state # "COMPLETED"

\* A run that is about to fail an execution for good has handed it off.
ClosingIsHandedOff ==
    \A r \in Runs : run[r].stage = "closing" =>
        run[r].number \in handoff[run[r].execution]

\* The part of the invariant about rows and runs alone.
RowInv == TypeOK /\ RunsAreBound /\ AttemptLineage /\ RunsOwnDistinctAttempts

\* The part about effects and handoffs, which rests on the first.
HistoryInv ==
    /\ CompletionIsPending
    /\ ClosingIsHandedOff
    /\ EffectsCommitOnce
    /\ FailureIsHandedOff

\* A run on its way to retry has a failure that may be retried; one on its way to
\* give up has one that may not, and takes the way that its class prescribes.
Decided(r) ==
    /\ run[r].stage \in {"retrying", "resending"} => MayRetry(r)
    /\ run[r].stage \in {"dead_lettering", "escalating", "closing"} =>
           failure[r] \in ErrorClasses /\ ~MayRetry(r)
    /\ run[r].stage = "dead_lettering" => ~failure[r].escalates
    /\ run[r].stage \in {"escalating", "closing"} => failure[r].escalates

\* The part about what the runs make of their failures.
PolicyInv == \A r \in Runs : Decided(r)

\* The inductive invariant.
IInv == RowInv /\ HistoryInv /\ PolicyInv

-----------------------------------------------------------------------------
(* What one worker transaction can do to the rows *)

\* The four ways in which a run settles its attempt.
SettledBy(r) ==
    \/ Settle(r, "COMPLETED", "COMPLETED", FALSE)
    \/ Settle(r, "REQUESTED", "FAILED", TRUE)
    \/ Settle(r, "DEAD_LETTERED", "DEAD_LETTERED", FALSE)
    \/ Settle(r, "FAILED", "FAILED", FALSE)

\* A transaction of a busy run moves that run on and either leaves the rows
\* alone or settles the attempt that the run owns.
LEMMA WorkStepShape ==
    ASSUME NEW r \in Runs, WorkStep(r)
    PROVE  /\ run[r].stage # "idle"
           /\ \E s \in RunStages \ {"idle", run[r].stage} : Advance(r, s)
           /\ \/ UNCHANGED <<execution, attempt>>
              \/ Owns(r) /\ SettledBy(r)
<1>1. CASE PrepareWork(r)
  BY <1>1 DEF PrepareWork, RunStages
<1>2. CASE BeginCompletion(r)
  BY <1>2 DEF BeginCompletion, RunStages
<1>3. CASE CompleteExecution(r)
  <2>1. CompletionOutcome(r) = "completed" => Owns(r)
    BY DEF CompletionOutcome
  <2> QED
    BY <1>3, <2>1 DEF CompleteExecution, SettledBy, RunStages
<1>4. CASE FlushCompletion(r)
  BY <1>4 DEF FlushCompletion, RunStages
<1>5. CASE \E c \in ErrorClasses : BeginFailure(r, c)
  BY <1>5 DEF BeginFailure, FailureStage, RunStages
<1>6. CASE FailForRetry(r)
  BY <1>6 DEF FailForRetry, SettleOrSwallow, SettledBy, RunStages
<1>7. CASE ResendTask(r)
  BY <1>7 DEF ResendTask, RunStages
<1>8. CASE DeadLetterExecution(r)
  BY <1>8 DEF DeadLetterExecution, SettleOrSwallow, SettledBy, RunStages
<1>9. CASE RecordDeadLetterTask(r)
  BY <1>9 DEF RecordDeadLetterTask, RunStages
<1>10. CASE PrepareHandoff(r)
  BY <1>10 DEF PrepareHandoff, RunStages
<1>11. CASE FailEscalated(r)
  BY <1>11 DEF FailEscalated, SettleOrSwallow, SettledBy, RunStages
<1> QED
  BY <1>1, <1>2, <1>3, <1>4, <1>5, <1>6, <1>7, <1>8, <1>9, <1>10, <1>11 DEF WorkStep

\* What a run that owns its attempt knows about the rows.
LEMMA OwnerIsCurrent ==
    ASSUME TypeOK, RunsAreBound, NEW r \in Runs, run[r].stage # "idle", Owns(r)
    PROVE  /\ run[r].execution \in Executions
           /\ run[r].number \in AttemptNumbers
           /\ run[r].number = execution[run[r].execution].attempt_count
           /\ execution[run[r].execution].state = "CLAIMED"
           /\ attempt[run[r].execution][run[r].number].state = "RUNNING"
BY DEF TypeOK, RunsAreBound, Owns, ExecutionRow, RunState, AttemptNumbers

-----------------------------------------------------------------------------
(* Rows and runs *)

\* Writing one execution's row and attempts keeps the lineage of every execution
\* if it keeps that one's.
LEMMA WriteKeepsLineage ==
    ASSUME TypeOK, AttemptLineage, NEW e \in Executions,
           NEW row \in ExecutionRow, NEW attempts \in [AttemptNumbers -> AttemptRow],
           execution' = [execution EXCEPT ![e] = row],
           attempt' = [attempt EXCEPT ![e] = attempts],
           Lineage(row, attempts)
    PROVE  /\ execution' \in [Executions -> ExecutionRow]
           /\ attempt' \in [Executions -> [AttemptNumbers -> AttemptRow]]
           /\ AttemptLineage'
<1>1. /\ execution'[e] = row
      /\ attempt'[e] = attempts
      /\ \A d \in Executions \ {e} : execution'[d] = execution[d] /\ attempt'[d] = attempt[d]
  BY DEF TypeOK
<1>2. ASSUME NEW d \in Executions
      PROVE  Lineage(execution'[d], attempt'[d])
  <2>1. CASE d = e
    BY <1>1, <2>1
  <2>2. CASE d # e
    BY <1>1, <2>2 DEF AttemptLineage
  <2> QED
    BY <2>1, <2>2
<1> QED
  BY <1>2 DEF TypeOK, AttemptLineage, Lineage

\* The invariant of rows and runs holds before the first request.
LEMMA InitRowInv == Init => RowInv
<1> SUFFICES ASSUME Init PROVE RowInv
  OBVIOUS
<1> USE DEF Init, AbsentExecution, AbsentAttempt, IdleRun, AttemptNumbers
<1>1. TypeOK
  BY PolicyAssumption, BoundAssumption
  DEF TypeOK, ExecutionRow, AttemptRow, RunState, ExecutionStates, AttemptStates,
      TerminalStates, RunStages
<1>2. RunsAreBound /\ RunsOwnDistinctAttempts
  BY DEF RunsAreBound, RunsOwnDistinctAttempts
<1>3. AttemptLineage
  BY BoundAssumption DEF AttemptLineage, Lineage, ClosedForRetry, TerminalStates
<1> QED
  BY <1>1, <1>2, <1>3 DEF RowInv

\* A step of the rows themselves preserves the row invariant.
LEMMA RowStepRowInv ==
    ASSUME RowInv, NEW e \in Executions, RowStep(e)
    PROVE  RowInv'
<1> DEFINE row == execution'[e]
           attempts == attempt'[e]
<1>1. UNCHANGED <<run, failure, commits, handoff, dlq>>
  BY DEF RowStep, RequestExecution, LeaseExpires, RecoverStaleExecution
<1>2. /\ execution[e] \in ExecutionRow
      /\ attempt[e] \in [AttemptNumbers -> AttemptRow]
      /\ Lineage(execution[e], attempt[e])
  BY DEF RowInv, TypeOK, AttemptLineage
<1>3. /\ execution' = [execution EXCEPT ![e] = row]
      /\ attempt' = [attempt EXCEPT ![e] = attempts]
  BY DEF RowInv, TypeOK, RowStep, RequestExecution, LeaseExpires, RecoverStaleExecution
<1>4. /\ row \in ExecutionRow
      /\ attempts \in [AttemptNumbers -> AttemptRow]
      /\ Lineage(row, attempts)
      /\ row.attempt_count = execution[e].attempt_count
  <2>1. CASE RequestExecution(e)
    <3>1. /\ row = [AbsentExecution EXCEPT !.state = "REQUESTED"]
          /\ attempts = attempt[e]
          /\ execution[e].state = "ABSENT"
      BY <2>1 DEF RowInv, TypeOK, RequestExecution
    <3>2. row \in ExecutionRow
      <4>1. row = [state |-> "REQUESTED", attempt_count |-> 0, worker_id |-> None,
                   claimed_at |-> "null", failed_at |-> FALSE]
        BY <3>1 DEF AbsentExecution
      <4> QED
        BY <4>1, BoundAssumption DEF ExecutionRow, ExecutionStates
    <3>3. row.state = "REQUESTED" /\ row.attempt_count = 0 /\ execution[e].attempt_count = 0
      BY <1>2, <3>1 DEF Lineage, AbsentExecution
    <3> QED
      BY <1>2, <3>1, <3>2, <3>3 DEF Lineage, TerminalStates
  <2>2. CASE LeaseExpires(e)
    <3>1. /\ row = [execution[e] EXCEPT !.claimed_at = "expired"]
          /\ attempts = attempt[e]
          /\ execution[e].state = "CLAIMED"
      BY <2>2 DEF RowInv, TypeOK, LeaseExpires
    <3> QED
      BY <1>2, <3>1 DEF Lineage, ExecutionRow, ExecutionStates, TerminalStates
  <2>3. CASE RecoverStaleExecution(e)
    <3> DEFINE last == execution[e].attempt_count
    <3>1. /\ row = [execution[e] EXCEPT !.state = "REQUESTED", !.claimed_at = "null",
                                        !.worker_id = None, !.failed_at = TRUE]
          /\ attempts = ClosedByRecovery(e)
          /\ execution[e].state = "CLAIMED"
      BY <2>3 DEF RowInv, TypeOK, RecoverStaleExecution, Recoverable
    <3>2. last \in AttemptNumbers
      BY <1>2, <3>1 DEF Lineage, ExecutionRow, AttemptNumbers
    <3>3. attempts = [attempt[e] EXCEPT ![last] =
              [attempt[e][last] EXCEPT !.state = "FAILED", !.retry_requested = TRUE]]
      BY <1>2, <3>1 DEF ClosedByRecovery
    <3>4. row \in ExecutionRow
      BY <1>2, <3>1 DEF ExecutionRow, ExecutionStates
    <3> DEFINE closed == [attempt[e][last] EXCEPT !.state = "FAILED", !.retry_requested = TRUE]
    <3>5. closed \in AttemptRow /\ ClosedForRetry(closed)
      BY <1>2, <3>2 DEF AttemptRow, AttemptStates, TerminalStates, ClosedForRetry
    <3> HIDE DEF closed
    <3>7. /\ attempts \in [AttemptNumbers -> AttemptRow]
          /\ ClosedForRetry(attempts[last])
          /\ \A n \in AttemptNumbers : n # last => attempts[n] = attempt[e][n]
      <4>1. attempts = [attempt[e] EXCEPT ![last] = closed]
        BY <3>3 DEF closed
      <4> HIDE DEF attempts, last
      <4> QED
        BY <1>2, <3>2, <3>5, <4>1
    <3>6. /\ row.state = "REQUESTED"
          /\ row.attempt_count = last
      BY <1>2, <3>1 DEF ExecutionRow
    <3> QED
      BY <1>2, <3>2, <3>4, <3>6, <3>7 DEF Lineage, ExecutionRow, TerminalStates, AttemptNumbers
  <2> QED
    BY <2>1, <2>2, <2>3 DEF RowStep
<1>5. /\ execution' \in [Executions -> ExecutionRow]
      /\ attempt' \in [Executions -> [AttemptNumbers -> AttemptRow]]
      /\ AttemptLineage'
  BY <1>3, <1>4, WriteKeepsLineage DEF RowInv
<1>6. RunsAreBound'
  BY <1>1, <1>3, <1>4 DEF RowInv, TypeOK, RunsAreBound
<1> QED
  BY <1>1, <1>5, <1>6 DEF RowInv, TypeOK, RunsOwnDistinctAttempts

\* A claim preserves the row invariant: it opens a fresh attempt number.
LEMMA ClaimRowInv ==
    ASSUME RowInv, NEW r \in Runs, NEW e \in Executions, NEW t \in Tasks,
           NEW k \in 0..MaxRetries, ClaimExecution(r, e, t, k)
    PROVE  RowInv'
<1> DEFINE n == execution[e].attempt_count + 1
           row == [execution[e] EXCEPT !.state = "CLAIMED", !.attempt_count = n,
                                       !.worker_id = t, !.claimed_at = "leased"]
           new == [state |-> "RUNNING", worker_id |-> t, retry_requested |-> FALSE]
           attempts == [attempt[e] EXCEPT ![n] = new]
           busy == [stage |-> "claimed", execution |-> e, task |-> t,
                    number |-> n, retries |-> k]
<1>1. /\ execution[e] \in ExecutionRow
      /\ attempt[e] \in [AttemptNumbers -> AttemptRow]
      /\ Lineage(execution[e], attempt[e])
      /\ execution[e].state = "REQUESTED"
      /\ n \in AttemptNumbers
  BY BoundAssumption
  DEF RowInv, TypeOK, AttemptLineage, ClaimExecution, Claimable, ExecutionRow, AttemptNumbers
<1>2. /\ execution' = [execution EXCEPT ![e] = row]
      /\ attempt' = [attempt EXCEPT ![e] = attempts]
      /\ run' = [run EXCEPT ![r] = busy]
      /\ UNCHANGED <<failure, commits, handoff, dlq>>
  BY DEF ClaimExecution, NextNumber
<1>3. /\ row \in ExecutionRow
      /\ attempts \in [AttemptNumbers -> AttemptRow]
      /\ busy \in RunState
  <2>1. row \in ExecutionRow
    <3>1. n \in 0..AttemptBound
      BY <1>1, BoundAssumption DEF AttemptNumbers
    <3> HIDE DEF n
    <3> QED
      BY <1>1, <3>1 DEF ExecutionRow, ExecutionStates
  <2>2. new \in AttemptRow
    BY DEF AttemptRow, AttemptStates
  <2>3. attempts \in [AttemptNumbers -> AttemptRow]
    <3> HIDE DEF new, n
    <3> QED
      BY <1>1, <2>2
  <2>4. busy \in RunState
    BY <1>1 DEF RunState, RunStages, AttemptNumbers
  <2> QED
    BY <2>1, <2>3, <2>4
<1>4. /\ row.state = "CLAIMED"
      /\ row.attempt_count = n
      /\ row.worker_id = t
      /\ row.claimed_at = "leased"
      /\ attempts[n] = new
      /\ \A i \in AttemptNumbers \ {n} : attempts[i] = attempt[e][i]
  BY <1>1 DEF ExecutionRow
<1>5. Lineage(row, attempts)
  <2> HIDE DEF row, attempts
  <2> QED
    BY <1>1, <1>3, <1>4 DEF Lineage, ExecutionRow, AttemptNumbers, TerminalStates, ClosedForRetry
<1>6. /\ execution' \in [Executions -> ExecutionRow]
      /\ attempt' \in [Executions -> [AttemptNumbers -> AttemptRow]]
      /\ AttemptLineage'
  <2> HIDE DEF row, attempts
  <2> QED
    BY <1>2, <1>3, <1>5, WriteKeepsLineage DEF RowInv
<1>7. /\ execution'[e].attempt_count = n
      /\ \A d \in Executions \ {e} : execution'[d] = execution[d]
      /\ run'[r].stage = "claimed"
      /\ run'[r].execution = e
      /\ run'[r].task = t
      /\ run'[r].number = n
      /\ \A s \in Runs \ {r} : run'[s] = run[s]
  <2> HIDE DEF row
  <2> QED
    BY <1>2, <1>4 DEF RowInv, TypeOK
<1>8. n \in Nat /\ n > execution[e].attempt_count /\ n >= 1
  BY <1>1 DEF ExecutionRow
<1>9. \A s \in Runs : run[s].stage # "idle" /\ run[s].execution = e =>
          run[s].number \in 1..execution[e].attempt_count
  BY DEF RowInv, RunsAreBound
<1>10. RunsAreBound'
  <2> SUFFICES ASSUME NEW s \in Runs, run'[s].stage # "idle"
               PROVE  /\ run'[s].execution \in Executions
                      /\ run'[s].task \in Tasks
                      /\ run'[s].number \in 1..execution'[run'[s].execution].attempt_count
    BY DEF RunsAreBound
  <2> HIDE DEF n, row, busy, attempts
  <2>1. CASE s = r
    BY <1>7, <1>8, <2>1
  <2>2. CASE s # r
    <3>1. /\ run'[s] = run[s]
          /\ run[s].execution \in Executions
          /\ run[s].task \in Tasks
          /\ run[s].number \in 1..execution[run[s].execution].attempt_count
      BY <1>7, <2>2 DEF RowInv, RunsAreBound
    <3>2. CASE run[s].execution = e
      BY <1>1, <1>7, <1>8, <3>1, <3>2 DEF ExecutionRow
    <3>3. CASE run[s].execution # e
      BY <1>7, <3>1, <3>3
    <3> QED
      BY <3>2, <3>3
  <2> QED
    BY <2>1, <2>2
<1>11. RunsOwnDistinctAttempts'
  <2> SUFFICES ASSUME NEW s \in Runs, NEW q \in Runs, s # q,
                      run'[s].stage # "idle", run'[q].stage # "idle",
                      run'[s].execution = run'[q].execution
               PROVE  run'[s].number # run'[q].number
    BY DEF RunsOwnDistinctAttempts
  <2> HIDE DEF row, busy, attempts
  <2>1. CASE s # r /\ q # r
    BY <1>7, <2>1 DEF RowInv, RunsOwnDistinctAttempts
  <2>2. CASE s = r \/ q = r
    <3> HIDE DEF n
    <3> QED
      BY <1>1, <1>7, <1>8, <1>9, <2>2 DEF ExecutionRow
  <2> QED
    BY <2>1, <2>2
<1> QED
  BY <1>2, <1>3, <1>6, <1>10, <1>11 DEF RowInv, TypeOK

\* A transaction of the worker preserves the row invariant.
LEMMA WorkStepRowInv ==
    ASSUME RowInv, NEW r \in Runs, WorkStep(r),
           failure' \in [Runs -> ErrorClasses \cup {None}],
           commits' \in [Executions -> Nat],
           handoff' \in [Executions -> SUBSET AttemptNumbers],
           dlq' \in [Executions -> SUBSET AttemptNumbers]
    PROVE  RowInv'
<1>1. PICK s \in RunStages \ {"idle"} : Advance(r, s)
  BY WorkStepShape
<1>2. run[r].stage # "idle"
  BY WorkStepShape
<1>3. /\ run' \in [Runs -> RunState]
      /\ \A q \in Runs : /\ run'[q].execution = run[q].execution
                         /\ run'[q].task = run[q].task
                         /\ run'[q].number = run[q].number
                         /\ run'[q].stage = "idle" <=> run[q].stage = "idle"
  BY <1>1, <1>2 DEF RowInv, TypeOK, Advance, RunState
<1>4. RunsOwnDistinctAttempts'
  BY <1>3 DEF RowInv, RunsOwnDistinctAttempts
<1>5. CASE UNCHANGED <<execution, attempt>>
  <2>1. TypeOK'
    BY <1>3, <1>5 DEF RowInv, TypeOK
  <2>2. RunsAreBound'
    BY <1>3, <1>5 DEF RowInv, RunsAreBound
  <2>3. AttemptLineage'
    BY <1>5 DEF RowInv, AttemptLineage, Lineage
  <2> QED
    BY <1>4, <2>1, <2>2, <2>3 DEF RowInv
<1>6. CASE Owns(r) /\ SettledBy(r)
  <2> DEFINE e == run[r].execution
             n == run[r].number
  <2>1. /\ e \in Executions
        /\ n \in AttemptNumbers
        /\ n = execution[e].attempt_count
        /\ execution[e].state = "CLAIMED"
        /\ attempt[e][n].state = "RUNNING"
        /\ execution[e] \in ExecutionRow
        /\ attempt[e] \in [AttemptNumbers -> AttemptRow]
        /\ Lineage(execution[e], attempt[e])
    BY <1>2, <1>6, OwnerIsCurrent DEF RowInv, TypeOK, AttemptLineage
  <2>2. PICK x \in {"REQUESTED"} \cup TerminalStates, a \in TerminalStates, q \in BOOLEAN :
            /\ Settle(r, x, a, q)
            /\ x = "REQUESTED" => a = "FAILED" /\ q
            /\ x # "REQUESTED" => a = x /\ ~q
    BY <1>6 DEF SettledBy, TerminalStates
  <2> DEFINE row == [execution[e] EXCEPT !.state = x, !.failed_at = x # "COMPLETED"]
             closed == [attempt[e][n] EXCEPT !.state = a, !.retry_requested = q]
             attempts == [attempt[e] EXCEPT ![n] = closed]
  <2>3. /\ execution' = [execution EXCEPT ![e] = row]
        /\ attempt' = [attempt EXCEPT ![e] = attempts]
    <3>1. attempt' = [attempt EXCEPT ![e][n] = closed]
      BY <2>2 DEF Settle
    <3> HIDE DEF closed
    <3>2. attempt' = [attempt EXCEPT ![e] = attempts]
      BY <3>1
    <3> QED
      BY <2>2, <3>2 DEF Settle
  <2>4. row \in ExecutionRow
    BY <2>1 DEF ExecutionRow, ExecutionStates
  <2>5. /\ closed \in AttemptRow
        /\ closed.state = a
        /\ closed.retry_requested = q
    <3>1. attempt[e][n] \in AttemptRow
      BY <2>1
    <3> QED
      BY <3>1 DEF AttemptRow, AttemptStates
  <2>6. /\ attempts \in [AttemptNumbers -> AttemptRow]
        /\ attempts[n] = closed
        /\ \A i \in AttemptNumbers \ {n} : attempts[i] = attempt[e][i]
    <3> HIDE DEF closed, e, n
    <3> QED
      BY <2>1, <2>5
  <2>7. row.state = x /\ row.attempt_count = n
    BY <2>1 DEF ExecutionRow
  <2>8. Lineage(row, attempts)
    <3> HIDE DEF row, attempts, closed, e, n
    <3>1. n \in Nat \ {0}
      BY <2>1, BoundAssumption DEF AttemptNumbers
    <3> QED
      BY <2>1, <2>2, <2>5, <2>6, <2>7, <3>1
      DEF Lineage, ClosedForRetry, TerminalStates
  <2> HIDE DEF row, attempts
  <2>9. /\ execution' \in [Executions -> ExecutionRow]
        /\ attempt' \in [Executions -> [AttemptNumbers -> AttemptRow]]
        /\ AttemptLineage'
    BY <2>1, <2>3, <2>4, <2>6, <2>8, WriteKeepsLineage DEF RowInv
  <2>10. \A d \in Executions : execution'[d].attempt_count = execution[d].attempt_count
    BY <2>1, <2>3, <2>7 DEF RowInv, TypeOK
  <2>11. RunsAreBound'
    BY <1>3, <2>10 DEF RowInv, RunsAreBound
  <2> QED
    BY <1>3, <1>4, <2>9, <2>11 DEF RowInv, TypeOK
<1> QED
  BY <1>5, <1>6, WorkStepShape

\* Acknowledging a message or losing a process only empties a slot.
LEMMA ReleaseRowInv ==
    ASSUME RowInv, NEW r \in Runs, Acknowledge(r) \/ Crash(r)
    PROVE  RowInv'
<1>1. /\ run' = [run EXCEPT ![r] = IdleRun]
      /\ failure' = [failure EXCEPT ![r] = None]
      /\ UNCHANGED <<execution, attempt, commits, handoff, dlq>>
  BY DEF Acknowledge, Crash
<1>2. TypeOK'
  BY <1>1, PolicyAssumption, BoundAssumption
  DEF RowInv, TypeOK, RunState, RunStages, IdleRun
<1>3. \A q \in Runs : run'[q].stage # "idle" => q # r /\ run'[q] = run[q]
  BY <1>1 DEF RowInv, TypeOK, IdleRun
<1>4. RunsAreBound' /\ RunsOwnDistinctAttempts'
  BY <1>1, <1>3 DEF RowInv, RunsAreBound, RunsOwnDistinctAttempts
<1>5. AttemptLineage'
  BY <1>1 DEF RowInv, AttemptLineage, Lineage
<1> QED
  BY <1>2, <1>4, <1>5 DEF RowInv

\* No worker transaction writes an ill-typed failure, counter, handoff or dead letter.
LEMMA WorkStepHistory ==
    ASSUME RowInv, NEW r \in Runs, WorkStep(r)
    PROVE  /\ failure' \in [Runs -> ErrorClasses \cup {None}]
           /\ commits' \in [Executions -> Nat]
           /\ handoff' \in [Executions -> SUBSET AttemptNumbers]
           /\ dlq' \in [Executions -> SUBSET AttemptNumbers]
<1>1. run[r].execution \in Executions /\ run[r].number \in AttemptNumbers
  BY WorkStepShape DEF RowInv, TypeOK, RunsAreBound, ExecutionRow, RunState, AttemptNumbers
<1>2. \/ UNCHANGED commits
      \/ commits' = [commits EXCEPT ![run[r].execution] = @ + 1]
  BY DEF WorkStep, PrepareWork, BeginCompletion, CompleteExecution, FlushCompletion,
         BeginFailure, FailForRetry, ResendTask, DeadLetterExecution,
         RecordDeadLetterTask, PrepareHandoff, FailEscalated
<1>3. \/ UNCHANGED handoff
      \/ handoff' = [handoff EXCEPT ![run[r].execution] = @ \cup {run[r].number}]
  BY DEF WorkStep, PrepareWork, BeginCompletion, CompleteExecution, FlushCompletion,
         BeginFailure, FailForRetry, ResendTask, DeadLetterExecution,
         RecordDeadLetterTask, PrepareHandoff, FailEscalated
<1>4. \/ UNCHANGED dlq
      \/ dlq' = [dlq EXCEPT ![run[r].execution] = @ \cup {run[r].number}]
  BY DEF WorkStep, PrepareWork, BeginCompletion, CompleteExecution, FlushCompletion,
         BeginFailure, FailForRetry, ResendTask, DeadLetterExecution,
         RecordDeadLetterTask, PrepareHandoff, FailEscalated
<1>5. /\ commits \in [Executions -> Nat]
      /\ handoff \in [Executions -> SUBSET AttemptNumbers]
      /\ dlq \in [Executions -> SUBSET AttemptNumbers]
  BY DEF RowInv, TypeOK
<1>6. commits' \in [Executions -> Nat]
  BY <1>1, <1>2, <1>5
<1>7. handoff' \in [Executions -> SUBSET AttemptNumbers]
  BY <1>1, <1>3, <1>5
<1>8. dlq' \in [Executions -> SUBSET AttemptNumbers]
  BY <1>1, <1>4, <1>5
<1>9. failure' \in [Runs -> ErrorClasses \cup {None}]
  <2>1. failure' = failure \/ \E c \in ErrorClasses : failure' = [failure EXCEPT ![r] = c]
    BY DEF WorkStep, PrepareWork, BeginCompletion, CompleteExecution, FlushCompletion,
           BeginFailure, FailForRetry, ResendTask, DeadLetterExecution,
           RecordDeadLetterTask, PrepareHandoff, FailEscalated
  <2> QED
    BY <2>1 DEF RowInv, TypeOK
<1> QED
  BY <1>6, <1>7, <1>8, <1>9

\* Every step keeps the invariant of rows and runs.
LEMMA NextRowInv == RowInv /\ [Next]_vars => RowInv'
<1> SUFFICES ASSUME RowInv, [Next]_vars PROVE RowInv'
  OBVIOUS
<1>1. CASE Next
  BY <1>1, RowStepRowInv, ClaimRowInv, WorkStepRowInv, WorkStepHistory, ReleaseRowInv DEF Next
<1>2. CASE UNCHANGED vars
  BY <1>2
  DEF vars, RowInv, TypeOK, RunsAreBound, AttemptLineage, Lineage, RunsOwnDistinctAttempts
<1> QED
  BY <1>1, <1>2

-----------------------------------------------------------------------------
(* The first theorems: the rows and the runs *)

\* Every reachable state is well typed; in particular attempt_count never passes
\* the number of attempt rows.
THEOREM TypeCorrect == Spec => []TypeOK
<1>1. RowInv => TypeOK
  BY DEF RowInv
<1> QED
  BY <1>1, InitRowInv, NextRowInv, PTL DEF Spec

\* The execution row and its attempt rows agree in every reachable state.
THEOREM LineageHolds == Spec => []AttemptLineage
<1>1. RowInv => AttemptLineage
  BY DEF RowInv
<1> QED
  BY <1>1, InitRowInv, NextRowInv, PTL DEF Spec

\* Two busy task runs never share an attempt, whatever the transport redelivers.
THEOREM AttemptsAreExclusive == Spec => []RunsOwnDistinctAttempts
<1>1. RowInv => RunsOwnDistinctAttempts
  BY DEF RowInv
<1> QED
  BY <1>1, InitRowInv, NextRowInv, PTL DEF Spec

-----------------------------------------------------------------------------
(* What a step leaves alone *)

\* A step of the rows alone writes one execution and its last attempt.
LEMMA RowStepFrame ==
    ASSUME RowInv, NEW e \in Executions, RowStep(e)
    PROVE  /\ UNCHANGED <<run, failure, commits, handoff, dlq>>
           /\ execution'[e].attempt_count = execution[e].attempt_count
           /\ execution[e].state \in {"ABSENT", "CLAIMED"}
           /\ execution'[e].state \in {"REQUESTED", "CLAIMED"}
           /\ execution'[e].state = "REQUESTED" /\ execution[e].state = "CLAIMED"
                  => execution[e].claimed_at = "expired"
           /\ \A d \in Executions \ {e} : execution'[d] = execution[d] /\ attempt'[d] = attempt[d]
           /\ \A n \in AttemptNumbers : attempt'[e][n] # attempt[e][n] =>
                  /\ execution[e].state = "CLAIMED"
                  /\ n = execution[e].attempt_count
                  /\ attempt'[e][n].state = "FAILED"
<1> USE DEF RowInv, TypeOK
<1>1. execution[e] \in ExecutionRow /\ attempt[e] \in [AttemptNumbers -> AttemptRow]
  OBVIOUS
<1>2. CASE RequestExecution(e)
  <2>1. execution[e].attempt_count = 0
    BY <1>2 DEF RequestExecution, AttemptLineage, Lineage
  <2>2. /\ UNCHANGED <<attempt, run, failure, commits, handoff, dlq>>
        /\ execution[e].state = "ABSENT"
        /\ execution'[e] = [AbsentExecution EXCEPT !.state = "REQUESTED"]
        /\ \A d \in Executions \ {e} : execution'[d] = execution[d]
    BY <1>2 DEF RequestExecution
  <2> QED
    BY <2>1, <2>2 DEF AbsentExecution
<1>3. CASE LeaseExpires(e)
  <2>1. /\ UNCHANGED <<attempt, run, failure, commits, handoff, dlq>>
        /\ execution[e].state = "CLAIMED"
        /\ execution'[e] = [execution[e] EXCEPT !.claimed_at = "expired"]
        /\ \A d \in Executions \ {e} : execution'[d] = execution[d]
    BY <1>3 DEF LeaseExpires
  <2> QED
    BY <1>1, <2>1 DEF ExecutionRow
<1>4. CASE RecoverStaleExecution(e)
  <2>1. /\ UNCHANGED <<run, failure, commits, handoff, dlq>>
        /\ execution[e].state = "CLAIMED"
        /\ execution[e].claimed_at = "expired"
        /\ execution'[e] = [execution[e] EXCEPT !.state = "REQUESTED", !.claimed_at = "null",
                                                !.worker_id = None, !.failed_at = TRUE]
        /\ attempt'[e] = ClosedByRecovery(e)
        /\ \A d \in Executions \ {e} : execution'[d] = execution[d] /\ attempt'[d] = attempt[d]
    BY <1>4 DEF RecoverStaleExecution, Recoverable
  <2>2. \A n \in AttemptNumbers : n # execution[e].attempt_count => attempt'[e][n] = attempt[e][n]
    BY <1>1, <2>1 DEF ClosedByRecovery
  <2>3. execution[e].attempt_count \in AttemptNumbers =>
            attempt'[e][execution[e].attempt_count].state = "FAILED"
    <3> DEFINE last == execution[e].attempt_count
               closed == [attempt[e][last] EXCEPT !.state = "FAILED", !.retry_requested = TRUE]
    <3> SUFFICES ASSUME last \in AttemptNumbers PROVE attempt'[e][last].state = "FAILED"
      OBVIOUS
    <3>1. attempt'[e] = [attempt[e] EXCEPT ![last] = closed]
      BY <2>1 DEF ClosedByRecovery
    <3>2. closed.state = "FAILED"
      BY <1>1 DEF AttemptRow
    <3> HIDE DEF closed, last
    <3>3. attempt'[e][last] = closed
      BY <1>1, <3>1
    <3> QED
      BY <3>2, <3>3 DEF last
  <2> QED
    BY <1>1, <2>1, <2>2, <2>3 DEF ExecutionRow
<1> QED
  BY <1>2, <1>3, <1>4 DEF RowStep

\* A settlement by the owner writes the owner's execution and attempt only.
LEMMA SettleFrame ==
    ASSUME RowInv, NEW r \in Runs, run[r].stage # "idle", Owns(r),
           NEW x, NEW a, NEW q, Settle(r, x, a, q)
    PROVE  LET e == run[r].execution
               n == run[r].number
           IN  /\ execution[e].state = "CLAIMED"
               /\ execution'[e].state = x
               /\ attempt'[e][n].state = a
               /\ \A d \in Executions :
                      /\ execution'[d].attempt_count = execution[d].attempt_count
                      /\ d # e => execution'[d] = execution[d] /\ attempt'[d] = attempt[d]
               /\ \A i \in AttemptNumbers \ {n} : attempt'[e][i] = attempt[e][i]
<1> DEFINE e == run[r].execution
           n == run[r].number
           row == [execution[e] EXCEPT !.state = x, !.failed_at = x # "COMPLETED"]
           closed == [attempt[e][n] EXCEPT !.state = a, !.retry_requested = q]
<1>1. /\ e \in Executions
      /\ n \in AttemptNumbers
      /\ execution[e].state = "CLAIMED"
      /\ execution[e] \in ExecutionRow
      /\ attempt[e][n] \in AttemptRow
  BY OwnerIsCurrent DEF RowInv, TypeOK
<1>2. /\ row.state = x
      /\ row.attempt_count = execution[e].attempt_count
      /\ closed.state = a
  BY <1>1 DEF ExecutionRow, AttemptRow
<1>3. execution' = [execution EXCEPT ![e] = row]
  BY DEF Settle
<1>4. attempt' = [attempt EXCEPT ![e][n] = closed]
  BY DEF Settle
<1> HIDE DEF e, n, row, closed
<1> QED
  BY <1>1, <1>2, <1>3, <1>4 DEF RowInv, TypeOK, e, n

-----------------------------------------------------------------------------
(* Effects and handoffs *)

\* Nothing is committed or handed off before the first request.
LEMMA InitHistoryInv == Init => HistoryInv
BY DEF Init, HistoryInv, CompletionIsPending, ClosingIsHandedOff, EffectsCommitOnce,
       FailureIsHandedOff, IdleRun, AbsentExecution

\* A step of the rows alone keeps the history invariant.
LEMMA RowStepHistoryInv ==
    ASSUME RowInv, HistoryInv, NEW e \in Executions, RowStep(e)
    PROVE  HistoryInv'
<1>1. /\ UNCHANGED <<run, failure, commits, handoff, dlq>>
      /\ execution'[e].attempt_count = execution[e].attempt_count
      /\ execution[e].state \in {"ABSENT", "CLAIMED"}
      /\ execution'[e].state \in {"REQUESTED", "CLAIMED"}
      /\ \A d \in Executions \ {e} : execution'[d] = execution[d] /\ attempt'[d] = attempt[d]
      /\ \A n \in AttemptNumbers :
             attempt'[e][n] # attempt[e][n] => attempt'[e][n].state = "FAILED"
  BY RowStepFrame
<1>2. CompletionIsPending'
  <2> SUFFICES ASSUME NEW r \in Runs, run[r].stage \in {"claimed", "reasoning", "committing"}
               PROVE  attempt'[run[r].execution][run[r].number].state # "COMPLETED"
    BY <1>1 DEF CompletionIsPending
  <2>1. /\ run[r].execution \in Executions
        /\ run[r].number \in AttemptNumbers
        /\ attempt[run[r].execution][run[r].number].state # "COMPLETED"
    BY DEF RowInv, TypeOK, RunsAreBound, HistoryInv, CompletionIsPending, ExecutionRow,
           RunState, AttemptNumbers
  <2> QED
    BY <1>1, <2>1
<1>3. ClosingIsHandedOff'
  BY <1>1 DEF HistoryInv, ClosingIsHandedOff
<1>4. EffectsCommitOnce' /\ FailureIsHandedOff'
  BY <1>1 DEF HistoryInv, EffectsCommitOnce, FailureIsHandedOff
<1> QED
  BY <1>2, <1>3, <1>4 DEF HistoryInv

\* A claim starts a fresh attempt of an execution that is not settled.
LEMMA ClaimHistoryInv ==
    ASSUME RowInv, HistoryInv, NEW r \in Runs, NEW e \in Executions, NEW t \in Tasks,
           NEW k \in 0..MaxRetries, ClaimExecution(r, e, t, k)
    PROVE  HistoryInv'
<1> DEFINE n == execution[e].attempt_count + 1
<1>1. /\ n \in AttemptNumbers
      /\ execution[e].state = "REQUESTED"
      /\ execution[e] \in ExecutionRow
  BY BoundAssumption
  DEF RowInv, TypeOK, ClaimExecution, Claimable, ExecutionRow, AttemptNumbers
<1>2. /\ execution'[e].state = "CLAIMED"
      /\ \A d \in Executions \ {e} : execution'[d] = execution[d] /\ attempt'[d] = attempt[d]
      /\ attempt'[e][n].state = "RUNNING"
      /\ \A i \in AttemptNumbers \ {n} : attempt'[e][i] = attempt[e][i]
      /\ run'[r].stage = "claimed"
      /\ run'[r].execution = e
      /\ run'[r].number = n
      /\ \A s \in Runs \ {r} : run'[s] = run[s]
      /\ UNCHANGED <<commits, handoff, dlq>>
  <2> HIDE DEF n
  <2> QED
    BY <1>1 DEF RowInv, TypeOK, ClaimExecution, NextNumber, ExecutionRow, n
<1>3. CompletionIsPending'
  <2> SUFFICES ASSUME NEW s \in Runs, run'[s].stage \in {"claimed", "reasoning", "committing"}
               PROVE  attempt'[run'[s].execution][run'[s].number].state # "COMPLETED"
    BY DEF CompletionIsPending
  <2> HIDE DEF n
  <2>1. CASE s = r
    BY <1>2, <2>1
  <2>2. CASE s # r
    <3>1. /\ run'[s] = run[s]
          /\ run[s].execution \in Executions
          /\ run[s].number \in AttemptNumbers
          /\ attempt[run[s].execution][run[s].number].state # "COMPLETED"
      BY <1>2, <2>2
      DEF RowInv, TypeOK, RunsAreBound, HistoryInv, CompletionIsPending, ExecutionRow,
          RunState, AttemptNumbers
    <3> QED
      BY <1>2, <3>1
  <2> QED
    BY <2>1, <2>2
<1>4. ClosingIsHandedOff'
  BY <1>2 DEF HistoryInv, ClosingIsHandedOff
<1>5. EffectsCommitOnce' /\ FailureIsHandedOff'
  BY <1>1, <1>2 DEF HistoryInv, EffectsCommitOnce, FailureIsHandedOff
<1> QED
  BY <1>3, <1>4, <1>5 DEF HistoryInv

\* An emptied slot owes nothing.
LEMMA ReleaseHistoryInv ==
    ASSUME RowInv, HistoryInv, NEW r \in Runs, Acknowledge(r) \/ Crash(r)
    PROVE  HistoryInv'
<1>1. /\ run' = [run EXCEPT ![r] = IdleRun]
      /\ UNCHANGED <<execution, attempt, commits, handoff, dlq>>
  BY DEF Acknowledge, Crash
<1>2. \A s \in Runs : run'[s].stage # "idle" => run'[s] = run[s]
  BY <1>1 DEF RowInv, TypeOK, IdleRun
<1> QED
  BY <1>1, <1>2
  DEF HistoryInv, CompletionIsPending, ClosingIsHandedOff, EffectsCommitOnce,
      FailureIsHandedOff

\* The next stages a run may enter without a new obligation.
QuietStage(r, s) ==
    /\ s \in RunStages \ {"idle", "closing"}
    /\ s \in {"claimed", "reasoning", "committing"} =>
           run[r].stage \in {"claimed", "reasoning", "committing"}

\* What a worker transaction does to the rows, the effects and the handoffs: it
\* leaves them alone, completes the attempt, fails it, or records a handoff.
LEMMA WorkStepEffect ==
    ASSUME RowInv, HistoryInv, NEW r \in Runs, WorkStep(r)
    PROVE  \/ /\ UNCHANGED <<execution, attempt, commits, handoff>>
              /\ \E s \in RunStages : QuietStage(r, s) /\ Advance(r, s)
           \/ /\ Owns(r)
              /\ Settle(r, "COMPLETED", "COMPLETED", FALSE)
              /\ commits' = [commits EXCEPT ![run[r].execution] = @ + 1]
              /\ Advance(r, "flushing")
              /\ UNCHANGED handoff
           \/ /\ Owns(r)
              /\ \E x \in {"REQUESTED", "FAILED", "DEAD_LETTERED"},
                    a \in {"FAILED", "DEAD_LETTERED"}, q \in BOOLEAN :
                    /\ Settle(r, x, a, q)
                    /\ x = "FAILED" => run[r].number \in handoff[run[r].execution]
              /\ \E s \in RunStages \ {"claimed", "reasoning", "committing"} :
                    QuietStage(r, s) /\ Advance(r, s)
              /\ UNCHANGED <<commits, handoff>>
           \/ /\ UNCHANGED <<execution, attempt, commits>>
              /\ handoff' = [handoff EXCEPT ![run[r].execution] = @ \cup {run[r].number}]
              /\ Advance(r, "closing")
<1> USE DEF RunStages
<1>1. CASE PrepareWork(r)
  BY <1>1 DEF PrepareWork, QuietStage
<1>2. CASE BeginCompletion(r)
  BY <1>2 DEF BeginCompletion, QuietStage
<1>3. CASE CompleteExecution(r)
  <2>1. CompletionOutcome(r) # "replayed"
    BY <1>3 DEF CompleteExecution, CompletionOutcome, HistoryInv, CompletionIsPending
  <2>2. CompletionOutcome(r) = "completed" => Owns(r)
    BY DEF CompletionOutcome
  <2>3. CASE CompletionOutcome(r) = "completed"
    BY <1>3, <2>2, <2>3 DEF CompleteExecution
  <2>4. CASE CompletionOutcome(r) = "claim_lost"
    BY <1>3, <2>4 DEF CompleteExecution, QuietStage
  <2> QED
    BY <2>1, <2>3, <2>4 DEF CompletionOutcome
<1>4. CASE FlushCompletion(r)
  BY <1>4 DEF FlushCompletion, QuietStage
<1>5. CASE \E c \in ErrorClasses : BeginFailure(r, c)
  <2>1. PICK c \in ErrorClasses : BeginFailure(r, c)
    BY <1>5
  <2> DEFINE s == FailureStage(c, run[r].retries, run[r].number)
  <2>2. s \in {"retrying", "escalating", "dead_lettering"}
    BY DEF FailureStage
  <2>3. /\ Advance(r, s) \/ Advance(r, "done")
        /\ UNCHANGED <<execution, attempt, commits, handoff>>
    BY <2>1 DEF BeginFailure
  <2> HIDE DEF s
  <2> QED
    BY <2>2, <2>3 DEF QuietStage
<1>6. CASE FailForRetry(r)
  BY <1>6 DEF FailForRetry, SettleOrSwallow, QuietStage
<1>7. CASE ResendTask(r)
  BY <1>7 DEF ResendTask, QuietStage
<1>8. CASE DeadLetterExecution(r)
  BY <1>8 DEF DeadLetterExecution, SettleOrSwallow, QuietStage
<1>9. CASE RecordDeadLetterTask(r)
  BY <1>9 DEF RecordDeadLetterTask, QuietStage
<1>10. CASE PrepareHandoff(r)
  BY <1>10 DEF PrepareHandoff, QuietStage
<1>11. CASE FailEscalated(r)
  BY <1>11 DEF FailEscalated, SettleOrSwallow, QuietStage, HistoryInv, ClosingIsHandedOff
<1> QED
  BY <1>1, <1>2, <1>3, <1>4, <1>5, <1>6, <1>7, <1>8, <1>9, <1>10, <1>11 DEF WorkStep

\* A worker transaction keeps the history invariant.
LEMMA WorkStepHistoryInv ==
    ASSUME RowInv, HistoryInv, NEW r \in Runs, WorkStep(r)
    PROVE  HistoryInv'
<1> DEFINE e == run[r].execution
           n == run[r].number
<1>1. run[r].stage # "idle" /\ e \in Executions /\ n \in AttemptNumbers
  BY WorkStepShape DEF RowInv, TypeOK, RunsAreBound, ExecutionRow, RunState, AttemptNumbers
<1>2. ASSUME NEW s \in RunStages, Advance(r, s)
      PROVE  /\ \A q \in Runs : /\ run'[q].execution = run[q].execution
                                /\ run'[q].number = run[q].number
             /\ run'[r].stage = s
             /\ \A q \in Runs \ {r} : run'[q].stage = run[q].stage
  BY <1>2 DEF RowInv, TypeOK, Advance, RunState
<1>3. \A q \in Runs \ {r} : run[q].stage # "idle" /\ run[q].execution = e => run[q].number # n
  BY <1>1 DEF RowInv, RunsOwnDistinctAttempts
<1>4. \A q \in Runs : run[q].stage # "idle" =>
          run[q].execution \in Executions /\ run[q].number \in AttemptNumbers
  BY DEF RowInv, TypeOK, RunsAreBound, ExecutionRow, RunState, AttemptNumbers
<1>5. CASE /\ UNCHANGED <<execution, attempt, commits, handoff>>
           /\ \E s \in RunStages : QuietStage(r, s) /\ Advance(r, s)
  <2>1. PICK s \in RunStages : QuietStage(r, s) /\ Advance(r, s)
    BY <1>5
  <2>2. CompletionIsPending' /\ ClosingIsHandedOff'
    BY <1>2, <1>5, <2>1
    DEF HistoryInv, CompletionIsPending, ClosingIsHandedOff, QuietStage
  <2>3. EffectsCommitOnce' /\ FailureIsHandedOff'
    BY <1>5 DEF HistoryInv, EffectsCommitOnce, FailureIsHandedOff
  <2> QED
    BY <2>2, <2>3 DEF HistoryInv
<1>6. ASSUME Owns(r), NEW x, NEW a, NEW q, Settle(r, x, a, q),
             NEW s \in RunStages \ {"claimed", "reasoning", "committing"}, Advance(r, s)
      PROVE  /\ CompletionIsPending'
             /\ execution[e].state = "CLAIMED"
             /\ execution'[e].state = x
             /\ \A d \in Executions :
                    /\ execution'[d].attempt_count = execution[d].attempt_count
                    /\ d # e => execution'[d] = execution[d]
  <2>1. /\ execution[e].state = "CLAIMED"
        /\ execution'[e].state = x
        /\ \A d \in Executions :
               /\ execution'[d].attempt_count = execution[d].attempt_count
               /\ d # e => execution'[d] = execution[d] /\ attempt'[d] = attempt[d]
        /\ \A i \in AttemptNumbers \ {n} : attempt'[e][i] = attempt[e][i]
    BY <1>1, <1>6, SettleFrame
  <2>2. ASSUME NEW p \in Runs, run'[p].stage \in {"claimed", "reasoning", "committing"}
        PROVE  attempt'[run'[p].execution][run'[p].number].state # "COMPLETED"
    <3>1. p # r
      BY <1>2, <1>6, <2>2
    <3>2. run[p].stage \in {"claimed", "reasoning", "committing"}
      BY <1>2, <1>6, <2>2, <3>1
    <3>3. attempt[run[p].execution][run[p].number].state # "COMPLETED"
      BY <3>2 DEF HistoryInv, CompletionIsPending
    <3>4. /\ run'[p].execution = run[p].execution
          /\ run'[p].number = run[p].number
      BY <1>2, <1>6
    <3> QED
      BY <1>3, <1>4, <2>1, <3>1, <3>2, <3>3, <3>4
  <2> QED
    BY <2>1, <2>2 DEF CompletionIsPending
<1>7. CASE /\ Owns(r)
           /\ Settle(r, "COMPLETED", "COMPLETED", FALSE)
           /\ commits' = [commits EXCEPT ![e] = @ + 1]
           /\ Advance(r, "flushing")
           /\ UNCHANGED handoff
  <2>1. "flushing" \in RunStages \ {"claimed", "reasoning", "committing"}
    BY DEF RunStages
  <2>2. /\ CompletionIsPending'
        /\ execution[e].state = "CLAIMED"
        /\ execution'[e].state = "COMPLETED"
        /\ \A d \in Executions :
               /\ execution'[d].attempt_count = execution[d].attempt_count
               /\ d # e => execution'[d] = execution[d]
    BY <1>6, <1>7, <2>1
  <2>3. commits \in [Executions -> Nat]
    BY DEF RowInv, TypeOK
  <2>4. EffectsCommitOnce'
    <3> HIDE DEF e
    <3> QED
      BY <1>1, <1>7, <2>2, <2>3 DEF HistoryInv, EffectsCommitOnce
  <2>5. FailureIsHandedOff'
    BY <1>7, <2>2 DEF HistoryInv, FailureIsHandedOff
  <2>6. ClosingIsHandedOff'
    BY <1>2, <1>7, <2>1 DEF HistoryInv, ClosingIsHandedOff
  <2> QED
    BY <2>2, <2>4, <2>5, <2>6 DEF HistoryInv
<1>8. CASE /\ Owns(r)
           /\ \E x \in {"REQUESTED", "FAILED", "DEAD_LETTERED"},
                 a \in {"FAILED", "DEAD_LETTERED"}, q \in BOOLEAN :
                 /\ Settle(r, x, a, q)
                 /\ x = "FAILED" => n \in handoff[e]
           /\ \E s \in RunStages \ {"claimed", "reasoning", "committing"} :
                 QuietStage(r, s) /\ Advance(r, s)
           /\ UNCHANGED <<commits, handoff>>
  <2>1. PICK x \in {"REQUESTED", "FAILED", "DEAD_LETTERED"},
             a \in {"FAILED", "DEAD_LETTERED"}, q \in BOOLEAN :
                 /\ Settle(r, x, a, q)
                 /\ x = "FAILED" => n \in handoff[e]
    BY <1>8
  <2>2. PICK s \in RunStages \ {"claimed", "reasoning", "committing"} :
                 QuietStage(r, s) /\ Advance(r, s)
    BY <1>8
  <2>3. /\ CompletionIsPending'
        /\ execution[e].state = "CLAIMED"
        /\ execution'[e].state = x
        /\ \A d \in Executions :
               /\ execution'[d].attempt_count = execution[d].attempt_count
               /\ d # e => execution'[d] = execution[d]
    BY <1>6, <1>8, <2>1, <2>2
  <2>4. execution[e].attempt_count = n
    BY <1>1, <1>8, OwnerIsCurrent DEF RowInv
  <2>5. EffectsCommitOnce' /\ FailureIsHandedOff'
    BY <1>8, <2>1, <2>3, <2>4 DEF HistoryInv, EffectsCommitOnce, FailureIsHandedOff
  <2>6. ClosingIsHandedOff'
    BY <1>2, <1>8, <2>2 DEF HistoryInv, ClosingIsHandedOff, QuietStage
  <2> QED
    BY <2>3, <2>5, <2>6 DEF HistoryInv
<1>9. CASE /\ UNCHANGED <<execution, attempt, commits>>
           /\ handoff' = [handoff EXCEPT ![e] = @ \cup {n}]
           /\ Advance(r, "closing")
  <2>1. "closing" \in RunStages
    BY DEF RunStages
  <2>2. /\ n \in handoff'[e]
        /\ \A d \in Executions : handoff[d] \subseteq handoff'[d]
    BY <1>1, <1>9 DEF RowInv, TypeOK
  <2>3. CompletionIsPending'
    BY <1>2, <1>9, <2>1 DEF HistoryInv, CompletionIsPending
  <2>4. ClosingIsHandedOff'
    BY <1>2, <1>4, <1>9, <2>1, <2>2 DEF HistoryInv, ClosingIsHandedOff
  <2>5. EffectsCommitOnce' /\ FailureIsHandedOff'
    BY <1>9, <2>2 DEF HistoryInv, EffectsCommitOnce, FailureIsHandedOff
  <2> QED
    BY <2>3, <2>4, <2>5 DEF HistoryInv
<1> QED
  BY <1>5, <1>7, <1>8, <1>9, WorkStepEffect

-----------------------------------------------------------------------------
(* Failures and the policy of their class *)

\* _diagnostic_retry_decision and _diagnostic_failure_is_terminal choose the stage
\* that the class's budget and the attempt limit prescribe.
LEMMA StageFollowsBudget ==
    ASSUME NEW c \in ErrorClasses, NEW retries \in Nat, NEW number \in Nat
    PROVE  LET spent == c.terminal \/ ~(retries < c.max_retries) \/ ~(number <= MaxRetries)
           IN  /\ FailureStage(c, retries, number) \in
                      {"retrying", "escalating", "dead_lettering"}
               /\ FailureStage(c, retries, number) = "retrying" <=> ~spent
               /\ FailureStage(c, retries, number) = "escalating" => c.escalates
               /\ FailureStage(c, retries, number) = "dead_lettering" => ~c.escalates
<1>1. c.max_retries \in Nat /\ MaxRetries \in Nat
  BY PolicyAssumption DEF ErrorClass
<1>2. retries >= c.max_retries <=> ~(retries < c.max_retries)
  BY <1>1
<1>3. number >= MaxRetries + 1 <=> ~(number <= MaxRetries)
  BY <1>1
<1> QED
  BY <1>2, <1>3, Zenon DEF FailureStage, FailureIsTerminal

\* A transaction of run r leaves the other runs and their failures alone, and its
\* own attempt and retry count.
LEMMA WorkKeepsRuns ==
    ASSUME RowInv, NEW r \in Runs, WorkStep(r)
    PROVE  /\ \A q \in Runs \ {r} : run'[q] = run[q] /\ failure'[q] = failure[q]
           /\ run'[r].retries = run[r].retries
           /\ run'[r].number = run[r].number
<1>1. PICK s \in RunStages : Advance(r, s)
  BY WorkStepShape
<1>2. failure' = failure \/ \E c \in ErrorClasses : failure' = [failure EXCEPT ![r] = c]
  BY DEF WorkStep, PrepareWork, BeginCompletion, CompleteExecution, FlushCompletion,
         BeginFailure, FailForRetry, ResendTask, DeadLetterExecution,
         RecordDeadLetterTask, PrepareHandoff, FailEscalated
<1> QED
  BY <1>1, <1>2 DEF RowInv, TypeOK, Advance, RunState

\* A transaction of run r keeps to the decision that the run took.
LEMMA WorkStepDecided ==
    ASSUME RowInv, NEW r \in Runs, Decided(r), WorkStep(r)
    PROVE  Decided(r)'
<1>1. ASSUME NEW s \in RunStages, Advance(r, s)
      PROVE  run'[r].stage = s
  BY <1>1 DEF RowInv, TypeOK, Advance, RunState
<1> USE DEF RunStages
<1>2. CASE \E c \in ErrorClasses : BeginFailure(r, c)
  <2>1. PICK c \in ErrorClasses : BeginFailure(r, c)
    BY <1>2
  <2> DEFINE s == FailureStage(c, run[r].retries, run[r].number)
  <2>2. CASE Advance(r, "done")
    BY <1>1, <2>2 DEF Decided
  <2>3. CASE Advance(r, s) /\ failure' = [failure EXCEPT ![r] = c]
    <3>1. run[r].retries \in Nat /\ run[r].number \in Nat
      BY PolicyAssumption, BoundAssumption DEF RowInv, TypeOK, RunState
    <3>2. /\ s \in {"retrying", "escalating", "dead_lettering"}
          /\ s = "retrying" <=> /\ ~c.terminal
                                /\ run[r].retries < c.max_retries
                                /\ run[r].number <= MaxRetries
          /\ s = "escalating" => c.escalates
          /\ s = "dead_lettering" => ~c.escalates
      BY <3>1, StageFollowsBudget
    <3> HIDE DEF s
    <3>3. run'[r].stage = s
      BY <1>1, <2>3, <3>2
    <3>4. failure'[r] = c
      BY <2>3 DEF RowInv, TypeOK
    <3>5. MayRetry(r)' <=> s = "retrying"
      BY <3>2, <3>4, WorkKeepsRuns DEF MayRetry
    <3> QED
      BY <3>2, <3>3, <3>4, <3>5 DEF Decided
  <2> QED
    BY <2>1, <2>2, <2>3 DEF BeginFailure
<1>3. CASE FailForRetry(r)
  <2>1. run[r].stage = "retrying" /\ run'[r].stage = "resending" /\ failure' = failure
    BY <1>1, <1>3 DEF FailForRetry
  <2> QED
    BY <2>1, WorkKeepsRuns DEF Decided, MayRetry
<1>4. CASE PrepareHandoff(r)
  <2>1. run[r].stage = "escalating" /\ run'[r].stage \in {"closing", "done"} /\ failure' = failure
    BY <1>1, <1>4 DEF PrepareHandoff
  <2> QED
    BY <2>1, WorkKeepsRuns DEF Decided, MayRetry
<1>5. CASE \/ PrepareWork(r) \/ BeginCompletion(r) \/ CompleteExecution(r)
           \/ FlushCompletion(r) \/ ResendTask(r) \/ DeadLetterExecution(r)
           \/ RecordDeadLetterTask(r) \/ FailEscalated(r)
  <2>1. run'[r].stage \in {"reasoning", "committing", "flushing", "recording", "done"}
    BY <1>1, <1>5
    DEF PrepareWork, BeginCompletion, CompleteExecution, FlushCompletion, ResendTask,
        DeadLetterExecution, RecordDeadLetterTask, FailEscalated
  <2> QED
    BY <2>1 DEF Decided
<1> QED
  BY <1>2, <1>3, <1>4, <1>5 DEF WorkStep

LEMMA InitPolicyInv == Init => PolicyInv
BY DEF Init, PolicyInv, Decided, IdleRun

\* Every step keeps the decisions.
LEMMA NextPolicyInv ==
    ASSUME RowInv, PolicyInv, [Next]_vars
    PROVE  PolicyInv'
<1>1. CASE \E e \in Executions : RowStep(e)
  <2>1. run' = run /\ failure' = failure
    BY <1>1, RowStepFrame
  <2> QED
    BY <2>1 DEF PolicyInv, Decided, MayRetry
<1>2. CASE \E r \in Runs, e \in Executions, t \in Tasks, k \in 0..MaxRetries :
               ClaimExecution(r, e, t, k)
  <2>1. PICK r \in Runs : /\ run'[r].stage = "claimed"
                          /\ \A q \in Runs \ {r} : run'[q] = run[q]
                          /\ failure' = failure
    BY <1>2 DEF RowInv, TypeOK, ClaimExecution
  <2>2. Decided(r)'
    BY <2>1 DEF Decided
  <2>3. \A q \in Runs \ {r} : Decided(q)'
    BY <2>1 DEF PolicyInv, Decided, MayRetry
  <2> QED
    BY <2>2, <2>3 DEF PolicyInv
<1>3. CASE \E r \in Runs : WorkStep(r)
  <2>1. PICK r \in Runs : WorkStep(r)
    BY <1>3
  <2>2. Decided(r)'
    BY <2>1, WorkStepDecided DEF PolicyInv
  <2>3. \A q \in Runs \ {r} : Decided(q)'
    BY <2>1, WorkKeepsRuns DEF PolicyInv, Decided, MayRetry
  <2> QED
    BY <2>2, <2>3 DEF PolicyInv
<1>4. CASE \E r \in Runs : Acknowledge(r) \/ Crash(r)
  <2>1. PICK r \in Runs : Acknowledge(r) \/ Crash(r)
    BY <1>4
  <2>2. /\ run'[r].stage = "idle"
        /\ \A q \in Runs \ {r} : run'[q] = run[q] /\ failure'[q] = failure[q]
    BY <2>1 DEF RowInv, TypeOK, Acknowledge, Crash, IdleRun
  <2>3. Decided(r)'
    BY <2>2 DEF Decided
  <2>4. \A q \in Runs \ {r} : Decided(q)'
    BY <2>2 DEF PolicyInv, Decided, MayRetry
  <2> QED
    BY <2>3, <2>4 DEF PolicyInv
<1>5. CASE UNCHANGED vars
  BY <1>5 DEF vars, PolicyInv, Decided, MayRetry
<1> QED
  BY <1>1, <1>2, <1>3, <1>4, <1>5 DEF Next

-----------------------------------------------------------------------------
(* The invariant *)

\* Every step keeps the inductive invariant.
LEMMA NextIInv == IInv /\ [Next]_vars => IInv'
<1> SUFFICES ASSUME RowInv, HistoryInv, [Next]_vars PROVE HistoryInv'
  BY NextRowInv, NextPolicyInv DEF IInv
<1>1. CASE Next
  BY <1>1, RowStepHistoryInv, ClaimHistoryInv, WorkStepHistoryInv, ReleaseHistoryInv DEF Next
<1>2. CASE UNCHANGED vars
  BY <1>2
  DEF vars, HistoryInv, CompletionIsPending, ClosingIsHandedOff, EffectsCommitOnce,
      FailureIsHandedOff
<1> QED
  BY <1>1, <1>2

\* The inductive invariant holds in every behaviour of the authority.
THEOREM Invariance == Spec => []IInv
<1>1. Init => IInv
  BY InitRowInv, InitHistoryInv, InitPolicyInv DEF IInv
<1> QED
  BY <1>1, NextIInv, PTL DEF Spec

\* The effects of a diagnosis are committed exactly once, when the execution
\* completes, whatever is redelivered, recovered or lost.
THEOREM EffectsAreCommittedOnce == Spec => []EffectsCommitOnce
<1>1. IInv => EffectsCommitOnce
  BY DEF IInv, HistoryInv
<1> QED
  BY <1>1, Invariance, PTL

\* An execution that failed for good has a durable handoff of its last attempt.
THEOREM FailuresAreHandedOff == Spec => []FailureIsHandedOff
<1>1. IInv => FailureIsHandedOff
  BY DEF IInv, HistoryInv
<1> QED
  BY <1>1, Invariance, PTL

\* self.retry sends a task again only within the budget of the error class of the
\* failure that its run met, and within the attempts of the task.
THEOREM RetriesAreBounded == Spec => []RetriesWithinBudget
<1>1. IInv => RetriesWithinBudget
  BY DEF IInv, PolicyInv, Decided, RetriesWithinBudget
<1> QED
  BY <1>1, Invariance, PTL

-----------------------------------------------------------------------------
(* What a step may never do *)

\* No step reopens, re-settles or rewrites a settled execution.
LEMMA StepKeepsSettled ==
    ASSUME RowInv, [Next]_vars, NEW e \in Executions, Terminal(e)
    PROVE  execution'[e] = execution[e] /\ attempt'[e] = attempt[e]
<1> USE DEF Terminal, TerminalStates
<1>1. CASE \E d \in Executions : RowStep(d)
  BY <1>1, RowStepFrame
<1>2. CASE \E r \in Runs, d \in Executions, t \in Tasks, k \in 0..MaxRetries :
               ClaimExecution(r, d, t, k)
  BY <1>2 DEF RowInv, TypeOK, ClaimExecution, Claimable
<1>3. CASE \E r \in Runs : WorkStep(r)
  <2>1. PICK r \in Runs : WorkStep(r)
    BY <1>3
  <2>2. CASE UNCHANGED <<execution, attempt>>
    BY <2>2
  <2>3. CASE Owns(r) /\ SettledBy(r)
    <3>1. run[r].stage # "idle"
      BY <2>1, WorkStepShape
    <3> QED
      BY <2>3, <3>1, SettleFrame DEF SettledBy
  <2> QED
    BY <2>1, <2>2, <2>3, WorkStepShape
<1>4. CASE \E r \in Runs : Acknowledge(r) \/ Crash(r)
  BY <1>4 DEF Acknowledge, Crash
<1>5. CASE UNCHANGED vars
  BY <1>5 DEF vars
<1> QED
  BY <1>1, <1>2, <1>3, <1>4, <1>5 DEF Next

\* No transaction reopens or rewrites a settled execution.
THEOREM SettledStaysFinal == Spec => SettledIsFinal
<1>1. RowInv /\ [Next]_vars =>
        [\A e \in Executions : Terminal(e) =>
            /\ execution'[e] = execution[e]
            /\ attempt'[e] = attempt[e]]_vars
  <2> SUFFICES ASSUME RowInv, [Next]_vars, NEW e \in Executions, Terminal(e)
               PROVE  execution'[e] = execution[e] /\ attempt'[e] = attempt[e]
    OBVIOUS
  <2> QED
    BY StepKeepsSettled
<1> QED
  BY <1>1, InitRowInv, NextRowInv, PTL DEF Spec, SettledIsFinal

\* Only the run that holds the current attempt, or recovery of an expired claim,
\* takes an execution out of CLAIMED.
LEMMA StepReleasesByHolder ==
    ASSUME RowInv, [Next]_vars, NEW e \in Executions,
           execution[e].state = "CLAIMED", execution'[e].state # "CLAIMED"
    PROVE  \/ execution[e].claimed_at = "expired" /\ run' = run
           \/ \E r \in Runs :
                  /\ run'[r] # run[r]
                  /\ run[r].execution = e
                  /\ run[r].number = execution[e].attempt_count
<1>1. CASE \E d \in Executions : RowStep(d)
  BY <1>1, RowStepFrame
<1>2. CASE \E r \in Runs, d \in Executions, t \in Tasks, k \in 0..MaxRetries :
               ClaimExecution(r, d, t, k)
  BY <1>2 DEF RowInv, TypeOK, ClaimExecution, Claimable
<1>3. CASE \E r \in Runs : WorkStep(r)
  <2>1. PICK r \in Runs : WorkStep(r)
    BY <1>3
  <2>2. run[r].stage # "idle" /\ Owns(r) /\ SettledBy(r)
    BY <2>1, WorkStepShape
  <2>3. run[r].execution = e
    BY <2>2, SettleFrame DEF SettledBy
  <2>4. run[r].number = execution[e].attempt_count
    BY <2>2, <2>3, OwnerIsCurrent DEF RowInv
  <2>5. PICK s \in RunStages \ {run[r].stage} : Advance(r, s)
    BY <2>1, WorkStepShape
  <2>6. run'[r].stage = s
    BY <2>5 DEF RowInv, TypeOK, Advance, RunState
  <2> QED
    BY <2>3, <2>4, <2>5, <2>6
<1>4. CASE \E r \in Runs : Acknowledge(r) \/ Crash(r)
  BY <1>4 DEF Acknowledge, Crash
<1>5. CASE UNCHANGED vars
  BY <1>5 DEF vars
<1> QED
  BY <1>1, <1>2, <1>3, <1>4, <1>5 DEF Next

\* A live claim ends only by its holder, an expired one also by recovery.
THEOREM OnlyHoldersRelease == Spec => OnlyTheHolderReleases
<1>1. RowInv /\ [Next]_vars =>
        [\A e \in Executions :
            execution[e].state = "CLAIMED" /\ execution'[e].state # "CLAIMED" =>
               \/ execution[e].claimed_at = "expired" /\ run' = run
               \/ \E r \in Runs :
                      /\ run'[r] # run[r]
                      /\ run[r].execution = e
                      /\ run[r].number = execution[e].attempt_count]_vars
  BY StepReleasesByHolder
<1> QED
  BY <1>1, InitRowInv, NextRowInv, PTL DEF Spec, OnlyTheHolderReleases

\* A claimed execution is reopened or given up by recovery of an expired claim, or
\* by the run that owns it as the policy of that run's failure says.
LEMMA StepFollowsPolicy ==
    ASSUME RowInv, PolicyInv, [Next]_vars, NEW e \in Executions,
           execution[e].state = "CLAIMED",
           execution'[e].state \in {"REQUESTED", "FAILED", "DEAD_LETTERED"}
    PROVE  \/ execution[e].claimed_at = "expired" /\ run' = run
           \/ \E r \in Runs :
                  /\ run[r].execution = e
                  /\ run[r].number = execution[e].attempt_count
                  /\ failure[r] \in ErrorClasses
                  /\ execution'[e].state = PolicyOutcome(r)
<1>1. CASE \E d \in Executions : RowStep(d)
  BY <1>1, RowStepFrame
<1>2. CASE \E r \in Runs, d \in Executions, t \in Tasks, k \in 0..MaxRetries :
               ClaimExecution(r, d, t, k)
  BY <1>2 DEF RowInv, TypeOK, ClaimExecution, Claimable
<1>3. CASE \E r \in Runs : WorkStep(r)
  <2>1. PICK r \in Runs : WorkStep(r)
    BY <1>3
  <2>2. run[r].stage # "idle" /\ Owns(r) /\ SettledBy(r)
    BY <2>1, WorkStepShape
  <2>3. run[r].execution = e
    BY <2>2, SettleFrame DEF SettledBy
  <2>4. run[r].number = execution[e].attempt_count
    BY <2>2, <2>3, OwnerIsCurrent DEF RowInv
  <2>5. Decided(r)
    BY DEF PolicyInv
  <2>6. ASSUME NEW x, NEW a, NEW q, SettleOrSwallow(r, x, a, q)
        PROVE  execution'[e].state = x
    <3>1. Settle(r, x, a, q)
      BY <2>6 DEF SettleOrSwallow
    <3> QED
      BY <2>2, <2>3, <3>1, SettleFrame
  <2>7. CASE FailForRetry(r)
    <3>1. MayRetry(r) /\ execution'[e].state = "REQUESTED"
      BY <2>5, <2>6, <2>7 DEF FailForRetry, Decided
    <3> QED
      BY <2>3, <2>4, <3>1 DEF MayRetry, PolicyOutcome
  <2>8. CASE DeadLetterExecution(r)
    <3>1. /\ failure[r] \in ErrorClasses /\ ~MayRetry(r) /\ ~failure[r].escalates
          /\ execution'[e].state = "DEAD_LETTERED"
      BY <2>5, <2>6, <2>8 DEF DeadLetterExecution, Decided
    <3> QED
      BY <2>3, <2>4, <3>1 DEF PolicyOutcome
  <2>9. CASE FailEscalated(r)
    <3>1. /\ failure[r] \in ErrorClasses /\ ~MayRetry(r) /\ failure[r].escalates
          /\ execution'[e].state = "FAILED"
      BY <2>5, <2>6, <2>9 DEF FailEscalated, Decided
    <3> QED
      BY <2>3, <2>4, <3>1 DEF PolicyOutcome
  <2>10. CASE CompleteExecution(r)
    <3>1. Settle(r, "COMPLETED", "COMPLETED", FALSE)
      BY <2>10 DEF CompleteExecution
    <3>2. execution'[e].state = "COMPLETED"
      BY <2>2, <2>3, <3>1, SettleFrame
    <3> QED
      BY <3>2
  <2>11. CASE UNCHANGED execution
    BY <2>11
  <2> QED
    BY <2>1, <2>7, <2>8, <2>9, <2>10, <2>11
    DEF WorkStep, PrepareWork, BeginCompletion, FlushCompletion, BeginFailure, ResendTask,
        RecordDeadLetterTask, PrepareHandoff
<1>4. CASE \E r \in Runs : Acknowledge(r) \/ Crash(r)
  BY <1>4 DEF Acknowledge, Crash
<1>5. CASE UNCHANGED vars
  BY <1>5 DEF vars
<1> QED
  BY <1>1, <1>2, <1>3, <1>4, <1>5 DEF Next

\* An execution is retried while the class of its failure has a retry left and given
\* up, the way that class prescribes, when it has none; nobody else's verdict counts.
THEOREM FailuresFollowPolicy == Spec => FailureFollowsPolicy
<1>1. IInv /\ [Next]_vars =>
        [\A e \in Executions :
           /\ execution[e].state = "CLAIMED"
           /\ execution'[e].state \in {"REQUESTED", "FAILED", "DEAD_LETTERED"}
           => \/ execution[e].claimed_at = "expired" /\ run' = run
              \/ \E r \in Runs :
                     /\ run[r].execution = e
                     /\ run[r].number = execution[e].attempt_count
                     /\ failure[r] \in ErrorClasses
                     /\ execution'[e].state = PolicyOutcome(r)]_vars
  BY StepFollowsPolicy DEF IInv
<1> QED
  BY <1>1, Invariance, PTL DEF Spec, FailureFollowsPolicy

\* A write to the attempts of a claimed execution that touches only the last of
\* them rewrites a running row, not a closed or an absent one.
LEMMA RunningIsOpen ==
    ASSUME RowInv, NEW e \in Executions, execution[e].state = "CLAIMED"
    PROVE  /\ execution[e].attempt_count \in AttemptNumbers
           /\ attempt[e][execution[e].attempt_count].state = "RUNNING"
<1>1. execution[e].attempt_count \in 0..AttemptBound /\ execution[e].attempt_count > 0
  BY DEF RowInv, TypeOK, ExecutionRow, AttemptLineage, Lineage
<1>2. attempt[e][execution[e].attempt_count].state = "RUNNING"
  BY DEF RowInv, AttemptLineage, Lineage
<1> QED
  BY <1>1, <1>2, BoundAssumption DEF AttemptNumbers

\* What every step does to the attempt history of one execution.
Appends(e) ==
    /\ execution'[e].attempt_count \in
           {execution[e].attempt_count, execution[e].attempt_count + 1}
    /\ \A n \in AttemptNumbers :
           /\ attempt[e][n].state \in TerminalStates => attempt'[e][n] = attempt[e][n]
           /\ attempt[e][n] = AbsentAttempt /\ attempt'[e][n] # AbsentAttempt =>
                  n = execution[e].attempt_count + 1

\* No step rewrites a closed attempt or skips an attempt number.
LEMMA StepAppends ==
    ASSUME RowInv, [Next]_vars, NEW e \in Executions
    PROVE  Appends(e)
<1>1. CASE UNCHANGED <<execution, attempt>>
  BY <1>1 DEF Appends
<1>2. ASSUME execution[e].state = "CLAIMED",
             execution'[e].attempt_count = execution[e].attempt_count,
             \A n \in AttemptNumbers : n # execution[e].attempt_count =>
                 attempt'[e][n] = attempt[e][n]
      PROVE  Appends(e)
  <2>1. attempt[e][execution[e].attempt_count].state = "RUNNING"
    BY <1>2, RunningIsOpen
  <2>2. \A n \in AttemptNumbers :
            attempt'[e][n] # attempt[e][n] => attempt[e][n].state = "RUNNING"
    BY <1>2, <2>1
  <2>3. \A n \in AttemptNumbers : attempt[e][n].state = "RUNNING" =>
            attempt[e][n] # AbsentAttempt /\ attempt[e][n].state \notin TerminalStates
    BY DEF AbsentAttempt, TerminalStates
  <2> QED
    BY <1>2, <2>2, <2>3 DEF Appends
<1>3. CASE \E d \in Executions : RowStep(d)
  <2>1. PICK d \in Executions : RowStep(d)
    BY <1>3
  <2>2. /\ execution'[d].attempt_count = execution[d].attempt_count
        /\ \A c \in Executions \ {d} : execution'[c] = execution[c] /\ attempt'[c] = attempt[c]
        /\ \A n \in AttemptNumbers : attempt'[d][n] # attempt[d][n] =>
               execution[d].state = "CLAIMED" /\ n = execution[d].attempt_count
    BY <2>1, RowStepFrame
  <2>3. CASE e = d /\ execution[e].state = "CLAIMED"
    BY <1>2, <2>2, <2>3
  <2>4. CASE e # d \/ execution[e].state # "CLAIMED"
    BY <2>2, <2>4 DEF Appends
  <2> QED
    BY <2>3, <2>4
<1>4. CASE \E r \in Runs, d \in Executions, t \in Tasks, k \in 0..MaxRetries :
               ClaimExecution(r, d, t, k)
  <2>1. PICK r \in Runs, d \in Executions, t \in Tasks, k \in 0..MaxRetries :
                 ClaimExecution(r, d, t, k)
    BY <1>4
  <2> DEFINE n == execution[d].attempt_count + 1
             row == [execution[d] EXCEPT !.state = "CLAIMED", !.attempt_count = n,
                                         !.worker_id = t, !.claimed_at = "leased"]
             fresh == [state |-> "RUNNING", worker_id |-> t, retry_requested |-> FALSE]
  <2>2. /\ execution' = [execution EXCEPT ![d] = row]
        /\ attempt' = [attempt EXCEPT ![d][n] = fresh]
    BY <2>1 DEF ClaimExecution, NextNumber
  <2>3. row.attempt_count = n
    BY DEF RowInv, TypeOK, ExecutionRow
  <2>4. n > execution[d].attempt_count /\ execution[d].attempt_count \in Nat
    BY BoundAssumption DEF RowInv, TypeOK, ExecutionRow
  <2>5. n \in AttemptNumbers => attempt[d][n] = AbsentAttempt
    BY <2>4 DEF RowInv, AttemptLineage, Lineage
  <2> HIDE DEF row, fresh, n
  <2>6. /\ execution'[d].attempt_count = n
        /\ \A c \in Executions \ {d} : execution'[c] = execution[c] /\ attempt'[c] = attempt[c]
        /\ \A i \in AttemptNumbers \ {n} : attempt'[d][i] = attempt[d][i]
    BY <2>2, <2>3 DEF RowInv, TypeOK
  <2>7. n \in AttemptNumbers => attempt[d][n].state \notin TerminalStates
    BY <2>5 DEF AbsentAttempt, TerminalStates
  <2>8. CASE e = d
    <3>1. execution'[e].attempt_count = execution[e].attempt_count + 1
      BY <2>6, <2>8 DEF n
    <3>2. \A i \in AttemptNumbers : attempt'[e][i] # attempt[e][i] =>
              i = execution[e].attempt_count + 1 /\ attempt[e][i].state \notin TerminalStates
      BY <2>6, <2>7, <2>8 DEF n
    <3> QED
      BY <3>1, <3>2 DEF Appends
  <2>9. CASE e # d
    BY <2>6, <2>9 DEF Appends
  <2> QED
    BY <2>8, <2>9
<1>5. CASE \E r \in Runs : WorkStep(r)
  <2>1. PICK r \in Runs : WorkStep(r)
    BY <1>5
  <2>2. CASE UNCHANGED <<execution, attempt>>
    BY <1>1, <2>2
  <2>3. CASE Owns(r) /\ SettledBy(r)
    <3>1. /\ run[r].stage # "idle"
          /\ run[r].number = execution[run[r].execution].attempt_count
      BY <2>1, <2>3, WorkStepShape, OwnerIsCurrent DEF RowInv
    <3>2. /\ execution[run[r].execution].state = "CLAIMED"
          /\ \A c \in Executions :
                 /\ execution'[c].attempt_count = execution[c].attempt_count
                 /\ c # run[r].execution => attempt'[c] = attempt[c]
          /\ \A i \in AttemptNumbers \ {run[r].number} :
                 attempt'[run[r].execution][i] = attempt[run[r].execution][i]
      BY <2>3, <3>1, SettleFrame DEF SettledBy
    <3>3. CASE e = run[r].execution
      BY <1>2, <3>1, <3>2, <3>3
    <3>4. CASE e # run[r].execution
      BY <3>2, <3>4 DEF Appends
    <3> QED
      BY <3>3, <3>4
  <2> QED
    BY <2>1, <2>2, <2>3, WorkStepShape
<1>6. CASE \E r \in Runs : Acknowledge(r) \/ Crash(r)
  BY <1>1, <1>6 DEF Acknowledge, Crash
<1>7. CASE UNCHANGED vars
  BY <1>1, <1>7 DEF vars
<1> QED
  BY <1>3, <1>4, <1>5, <1>6, <1>7 DEF Next

\* The attempt history is append-only: what the reconciliation of attempts and
\* the forensic record of a failure rest on.
THEOREM HistoryOnlyGrows == Spec => AttemptHistoryAppends
<1>1. RowInv /\ [Next]_vars =>
        [\A e \in Executions :
           /\ execution'[e].attempt_count \in
                  {execution[e].attempt_count, execution[e].attempt_count + 1}
           /\ \A n \in AttemptNumbers :
                  /\ attempt[e][n].state \in TerminalStates => attempt'[e][n] = attempt[e][n]
                  /\ attempt[e][n] = AbsentAttempt /\ attempt'[e][n] # AbsentAttempt =>
                         n = execution[e].attempt_count + 1]_vars
  BY StepAppends DEF Appends
<1> QED
  BY <1>1, InitRowInv, NextRowInv, PTL DEF Spec, AttemptHistoryAppends

=============================================================================
