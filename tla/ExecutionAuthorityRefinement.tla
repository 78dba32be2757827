--------------------- MODULE ExecutionAuthorityRefinement ---------------------
(***************************************************************************)
(* The execution authority implements the ExecutionContract: its initial   *)
(* state is one of the contract's, and every step of its rows, its worker  *)
(* and its recovery is a step of the contract or leaves it unchanged.      *)
(***************************************************************************)
EXTENDS ExecutionAuthorityProofs

\* A step that keeps what the contract sees is no step of the contract.
LEMMA StutterOfContract ==
    ASSUME \A d \in Executions : /\ Status(execution[d])' = Status(execution[d])
                                 /\ execution'[d].attempt_count = execution[d].attempt_count,
           \A r \in Runs : Token(r)' = Token(r),
           commits' = commits
    PROVE  UNCHANGED Contract!vars
BY DEF Contract!vars

\* Before the first request nothing is open, granted or committed.
LEMMA InitContract == Init => Contract!Init
BY DEF Init, Contract!Init, Status, Token, AbsentExecution, IdleRun

\* A request opens the execution and a recovery takes its grant back.
LEMMA RowStepContract ==
    ASSUME RowInv, NEW e \in Executions, RowStep(e)
    PROVE  [Contract!Next]_Contract!vars
<1>1. /\ UNCHANGED <<run, commits>>
      /\ execution'[e].attempt_count = execution[e].attempt_count
      /\ execution[e].state \in {"ABSENT", "CLAIMED"}
      /\ execution'[e].state \in {"REQUESTED", "CLAIMED"}
      /\ \A d \in Executions \ {e} : execution'[d] = execution[d]
  BY RowStepFrame
<1>2. \A r \in Runs : Token(r)' = Token(r)
  BY <1>1 DEF Token
<1>3. execution[e].state = "ABSENT" => execution'[e].state = "REQUESTED"
  BY DEF RowStep, RequestExecution, LeaseExpires, RecoverStaleExecution, Recoverable,
         RowInv, TypeOK, AbsentExecution
<1>4. CASE execution[e].state = "ABSENT"
  <2>1. Contract!Request(e)
    BY <1>1, <1>2, <1>3, <1>4 DEF Contract!Request, Status
  <2> QED
    BY <2>1 DEF Contract!Next
<1>5. CASE execution[e].state = "CLAIMED" /\ execution'[e].state = "REQUESTED"
  <2>1. Contract!Revoke(e)
    BY <1>1, <1>2, <1>5 DEF Contract!Revoke, Status
  <2> QED
    BY <2>1 DEF Contract!Next
<1>6. CASE execution[e].state = "CLAIMED" /\ execution'[e].state = "CLAIMED"
  <2>1. \A d \in Executions : /\ Status(execution[d])' = Status(execution[d])
                              /\ execution'[d].attempt_count = execution[d].attempt_count
    BY <1>1, <1>6 DEF Status
  <2> QED
    BY <1>1, <1>2, <2>1, StutterOfContract
<1> QED
  BY <1>1, <1>4, <1>5, <1>6

\* A claim is a grant under the next token.
LEMMA ClaimContract ==
    ASSUME RowInv, NEW r \in Runs, NEW e \in Executions, NEW t \in Tasks,
           NEW k \in 0..MaxRetries, ClaimExecution(r, e, t, k)
    PROVE  Contract!Grant(r, e)
<1> DEFINE n == execution[e].attempt_count + 1
           row == [execution[e] EXCEPT !.state = "CLAIMED", !.attempt_count = n,
                                       !.worker_id = t, !.claimed_at = "leased"]
           busy == [stage |-> "claimed", execution |-> e, task |-> t, number |-> n, retries |-> k]
<1>1. /\ run[r] = IdleRun
      /\ execution[e].state = "REQUESTED"
      /\ execution' = [execution EXCEPT ![e] = row]
      /\ run' = [run EXCEPT ![r] = busy]
      /\ commits' = commits
  BY DEF ClaimExecution, NextNumber, Claimable
<1>2. row.state = "CLAIMED" /\ row.attempt_count = n
  BY DEF RowInv, TypeOK, ExecutionRow
<1>3. busy.stage = "claimed" /\ busy.execution = e /\ busy.number = n
  OBVIOUS
<1> HIDE DEF row, busy, n
<1>4. /\ execution'[e] = row
      /\ \A d \in Executions \ {e} : execution'[d] = execution[d]
      /\ run'[r] = busy
      /\ \A s \in Runs \ {r} : run'[s] = run[s]
  BY <1>1 DEF RowInv, TypeOK
<1>5. /\ Token(r) = <<>>
      /\ Token(r)' = <<e, n>>
      /\ \A s \in Runs \ {r} : Token(s)' = Token(s)
  BY <1>1, <1>3, <1>4 DEF Token, IdleRun
<1>6. /\ Status(execution[e]) = "open"
      /\ Status(execution[e])' = "held"
      /\ \A d \in Executions \ {e} : Status(execution[d])' = Status(execution[d])
  BY <1>1, <1>2, <1>4 DEF Status
<1>7. [d \in Executions |-> Status(execution[d])]' =
          [[d \in Executions |-> Status(execution[d])] EXCEPT ![e] = "held"]
  BY <1>6
<1>8. [d \in Executions |-> execution[d].attempt_count]' =
          [[d \in Executions |-> execution[d].attempt_count] EXCEPT ![e] = n]
  BY <1>2, <1>4
<1>9. [s \in Runs |-> Token(s)]' = [[s \in Runs |-> Token(s)] EXCEPT ![r] = <<e, n>>]
  BY <1>5
<1>10. n = [d \in Executions |-> execution[d].attempt_count][e] + 1
  BY DEF n
<1> QED
  BY <1>1, <1>5, <1>6, <1>7, <1>8, <1>9, <1>10 DEF Contract!Grant

\* The owner of an attempt holds the current token.
LEMMA OwnerIsCurrentHolder ==
    ASSUME RowInv, NEW r \in Runs, run[r].stage # "idle", Owns(r)
    PROVE  Contract!IsCurrent(r, run[r].execution)
<1>1. /\ run[r].execution \in Executions
      /\ run[r].number = execution[run[r].execution].attempt_count
      /\ execution[run[r].execution].state = "CLAIMED"
  BY OwnerIsCurrent DEF RowInv
<1> QED
  BY <1>1 DEF Contract!IsCurrent, Status, Token

\* A worker's transaction concludes or returns the grant that its run holds, or
\* leaves every grant as it is.
LEMMA WorkStepContract ==
    ASSUME RowInv, HistoryInv, NEW r \in Runs, WorkStep(r)
    PROVE  [Contract!Next]_Contract!vars
<1> DEFINE e == run[r].execution
<1>1. run[r].stage # "idle" /\ e \in Executions
  BY WorkStepShape DEF RowInv, RunsAreBound
<1>2. ASSUME NEW s \in RunStages \ {"idle"}, Advance(r, s)
      PROVE  \A q \in Runs : Token(q)' = Token(q)
  BY <1>1, <1>2 DEF RowInv, TypeOK, Advance, RunState, Token
<1>3. \A q \in Runs : Token(q)' = Token(q)
  <2>1. PICK s \in RunStages \ {"idle", run[r].stage} : Advance(r, s)
    BY WorkStepShape
  <2> QED
    BY <1>2, <2>1
<1>4. ASSUME Owns(r), NEW x, NEW a, NEW q, Settle(r, x, a, q)
      PROVE  /\ execution[e].state = "CLAIMED"
             /\ execution'[e].state = x
             /\ \A d \in Executions :
                    /\ execution'[d].attempt_count = execution[d].attempt_count
                    /\ d # e => execution'[d] = execution[d]
  BY <1>1, <1>4, SettleFrame
<1>5. CASE UNCHANGED <<execution, commits>>
  BY <1>3, <1>5, StutterOfContract
<1>6. CASE /\ Owns(r)
           /\ Settle(r, "COMPLETED", "COMPLETED", FALSE)
           /\ commits' = [commits EXCEPT ![e] = @ + 1]
  <2>1. /\ execution'[e].state = "COMPLETED"
        /\ \A d \in Executions :
               /\ execution'[d].attempt_count = execution[d].attempt_count
               /\ d # e => execution'[d] = execution[d]
    BY <1>4, <1>6
  <2>2. Contract!IsCurrent(r, e)
    BY <1>1, <1>6, OwnerIsCurrentHolder
  <2>3. Contract!Complete(r, e)
    BY <1>1, <1>3, <1>6, <2>1, <2>2 DEF Contract!Complete, Status
  <2> QED
    BY <1>1, <2>3 DEF Contract!Next
<1>7. CASE /\ Owns(r)
           /\ \E x \in {"REQUESTED", "FAILED", "DEAD_LETTERED"},
                 a \in {"FAILED", "DEAD_LETTERED"}, q \in BOOLEAN : Settle(r, x, a, q)
           /\ UNCHANGED commits
  <2>1. PICK x \in {"REQUESTED", "FAILED", "DEAD_LETTERED"},
             a \in {"FAILED", "DEAD_LETTERED"}, q \in BOOLEAN : Settle(r, x, a, q)
    BY <1>7
  <2>2. /\ execution'[e].state = x
        /\ \A d \in Executions :
               /\ execution'[d].attempt_count = execution[d].attempt_count
               /\ d # e => execution'[d] = execution[d]
    BY <1>4, <1>7, <2>1
  <2>3. Contract!IsCurrent(r, e)
    BY <1>1, <1>7, OwnerIsCurrentHolder
  <2>4. CASE x = "REQUESTED"
    <3>1. Contract!Return(r, e)
      BY <1>1, <1>3, <1>7, <2>2, <2>3, <2>4 DEF Contract!Return, Status
    <3> QED
      BY <1>1, <3>1 DEF Contract!Next
  <2>5. CASE x \in {"FAILED", "DEAD_LETTERED"}
    <3>1. Contract!Abandon(r, e)
      BY <1>1, <1>3, <1>7, <2>2, <2>3, <2>5 DEF Contract!Abandon, Status
    <3> QED
      BY <1>1, <3>1 DEF Contract!Next
  <2> QED
    BY <2>1, <2>4, <2>5
<1> QED
  BY <1>5, <1>6, <1>7, WorkStepEffect

\* A slot that is emptied drops its token.
LEMMA ReleaseContract ==
    ASSUME RowInv, NEW r \in Runs, Acknowledge(r) \/ Crash(r)
    PROVE  Contract!Drop(r)
<1>1. /\ run[r].stage # "idle"
      /\ run' = [run EXCEPT ![r] = IdleRun]
      /\ UNCHANGED <<execution, commits>>
  BY DEF Acknowledge, Crash
<1>2. /\ run'[r] = IdleRun
      /\ \A s \in Runs \ {r} : run'[s] = run[s]
  BY <1>1 DEF RowInv, TypeOK
<1>3. Token(r) # <<>> /\ Token(r)' = <<>> /\ \A s \in Runs \ {r} : Token(s)' = Token(s)
  BY <1>1, <1>2 DEF Token, IdleRun
<1> QED
  BY <1>1, <1>3 DEF Contract!Drop

\* Every step of the authority is a step of the contract or a stutter.
LEMMA NextContract == IInv /\ [Next]_vars => [Contract!Next]_Contract!vars
<1> SUFFICES ASSUME IInv, [Next]_vars PROVE [Contract!Next]_Contract!vars
  OBVIOUS
<1> USE DEF IInv
<1>1. CASE \E e \in Executions : RowStep(e)
  BY <1>1, RowStepContract
<1>2. CASE \E r \in Runs, e \in Executions, t \in Tasks, k \in 0..MaxRetries :
               ClaimExecution(r, e, t, k)
  BY <1>2, ClaimContract DEF Contract!Next
<1>3. CASE \E r \in Runs : WorkStep(r)
  BY <1>3, WorkStepContract
<1>4. CASE \E r \in Runs : Acknowledge(r) \/ Crash(r)
  BY <1>4, ReleaseContract DEF Contract!Next
<1>5. CASE UNCHANGED vars
  BY <1>5, StutterOfContract DEF vars, Token
<1> QED
  BY <1>1, <1>2, <1>3, <1>4, <1>5 DEF Next

\* Only the holder of the current attempt concludes an execution, and only the
\* completion commits effects: the authority's rows and transactions implement
\* the fenced grant that dispatch and the diagnosis rely on.
THEOREM Refinement == Spec => ImplementsContract
<1> QED
  BY InitContract, NextContract, Invariance, PTL DEF Spec, ImplementsContract, Contract!Spec

=============================================================================
