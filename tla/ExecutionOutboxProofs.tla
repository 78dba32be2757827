------------------------ MODULE ExecutionOutboxProofs ------------------------
(***************************************************************************)
(* Theorems of ExecutionOutbox, for every number of executions,            *)
(* publishers, sweeps and identities, and every budget.                    *)
(*                                                                         *)
(* The safety of publication rests on three things that no single          *)
(* statement of the code shows: a sweep's row lock keeps its row PENDING   *)
(* (LockInv), a claim id never runs ahead of the row's count (ClaimInv),   *)
(* and a publisher that has claimed and not yet called the broker has      *)
(* already paid for the message it will send (AccountInv).                 *)
(***************************************************************************)
EXTENDS ExecutionOutbox, TLAPS, FiniteSetTheorems

-----------------------------------------------------------------------------
(* The inductive invariant *)

\* A sweep whose transaction is open on a row.
Locking(s) == sweep[s].stage \in {"holding", "sent", "raised"}

\* A publisher that has committed its claim and not yet marked the row.
Claiming(p) == publisher[p].stage \in {"publishing", "sent", "raised"}

\* A row that may be claimed leaves room for one more attempt, by dispatch or by a
\* sweep.
RowInv ==
    \A e \in Executions :
        /\ outbox[e].state = "ABSENT" => outbox[e].count = 0 /\ ~outbox[e].recovered
        /\ outbox[e].state \in {"PENDING", "PUBLISHING"} => outbox[e].count <= PublishBound

\* What a busy publisher holds: an existing row, and a claim id derived from a count
\* that the row has reached.
ClaimInv ==
    \A p \in Publishers : publisher[p].stage # "idle" =>
        LET e == publisher[p].execution
        IN  /\ e \in Executions
            /\ publisher[p].claim \in ClaimIds
            /\ outbox[e].state # "ABSENT"
            /\ publisher[p].stage = "reading" =>
                   e \in Ingress /\ publisher[p].claim[2] <= outbox[e].count + 1
            /\ Claiming(p) => publisher[p].claim[2] <= outbox[e].count

\* Two publishers with one claim id derived it from a count that is out of date.
EqualClaimsAreOld ==
    \A p, q \in Publishers :
        /\ p # q /\ Claiming(p) /\ Claiming(q)
        /\ publisher[p].execution = publisher[q].execution
        /\ publisher[p].claim = publisher[q].claim
        => publisher[p].claim[2] < outbox[publisher[p].execution].count

\* A row under a sweep's lock stays PENDING, and no other sweep has it.
LockInv ==
    /\ \A s \in Sweeps : sweep[s].stage # "idle" =>
           sweep[s].execution \in Executions /\ outbox[sweep[s].execution].recovered
    /\ \A s \in Sweeps : Locking(s) => outbox[sweep[s].execution].state = "PENDING"
    /\ \A s, z \in Sweeps :
           Locking(s) /\ Locking(z) /\ sweep[s].execution = sweep[z].execution => s = z

\* Whoever can still mark a row PUBLISHED, the broker has accepted a message.
SentInv ==
    /\ \A e \in Executions : outbox[e].state = "PUBLISHED" => sent[e] > 0
    /\ \A p \in Publishers :
           publisher[p].stage = "sent" => sent[publisher[p].execution] > 0
    /\ \A s \in Sweeps : sweep[s].stage = "sent" => sent[sweep[s].execution] > 0

\* Outside ingress a row is claimed once by its request and from then on only by
\* sweeps, which find it with attempts left.
SweptInv ==
    \A e \in Executions \ Ingress :
        /\ outbox[e].state = "PUBLISHING" => ~outbox[e].recovered
        /\ outbox[e].state = "PENDING" /\ outbox[e].recovered
               => outbox[e].count < MaxPublishAttempts

\* Publishers that have paid for a message of e and may still send it, and sweeps
\* that have sent one and not yet paid.
Paid(e) == {p \in Publishers : publisher[p].stage = "publishing" /\ publisher[p].execution = e}
Unpaid(e) == {s \in Sweeps : sweep[s].execution = e /\ sweep[s].stage \in {"sent", "raised"}}

Balanced(e) ==
    /\ IsFiniteSet(Paid(e)) /\ IsFiniteSet(Unpaid(e))
    /\ sent[e] + Cardinality(Paid(e)) <= outbox[e].count + rolledBack[e] + Cardinality(Unpaid(e))

AccountInv == \A e \in Executions : Balanced(e)

Core == TypeOK /\ RowInv /\ ClaimInv /\ LockInv
IInv == Core /\ EqualClaimsAreOld /\ SentInv /\ SweptInv /\ AccountInv

-----------------------------------------------------------------------------
(* What one step may do to one row *)

Timed(e) ==
    \/ outbox[e].state = "PUBLISHING" /\ outbox'[e] = [outbox[e] EXCEPT !.lease = "expired"]
    \/ outbox[e].state = "FAILED" /\ outbox'[e] = [outbox[e] EXCEPT !.cooled = TRUE]

Marked(e) ==
    /\ outbox[e].state = "PUBLISHING"
    /\ \/ /\ outbox'[e] = [outbox[e] EXCEPT !.state = "PUBLISHED"]
          /\ \E p \in Publishers : publisher[p].stage = "sent" /\ publisher[p].execution = e
       \/ outbox'[e] = [outbox[e] EXCEPT !.state = "FAILED", !.cooled = FALSE]

Released(e) ==
    \/ /\ outbox[e].state = "PUBLISHING"
       /\ outbox'[e] = [outbox[e] EXCEPT !.state = "PENDING", !.claim = <<>>, !.lease = "null"]
    \/ /\ outbox[e].state = "FAILED"
       /\ outbox[e].count < MaxPublishAttempts
       /\ outbox'[e] = [outbox[e] EXCEPT !.state = "PENDING", !.claim = <<>>, !.lease = "null",
                                         !.recovered = TRUE]

Claimed(e) ==
    /\ \/ outbox[e].state = "ABSENT" /\ outbox[e].count = 0
       \/ outbox[e].state = "PENDING" /\ ~Locked(e) /\ e \in Ingress
    /\ outbox[e].count < PublishBound
    /\ \E claim \in ClaimIds :
           \/ outbox'[e] = [outbox[e] EXCEPT !.state = "PUBLISHING", !.claim = claim,
                                             !.count = @ + 1, !.lease = "running"]
           \/ outbox'[e] = [outbox[e] EXCEPT !.state = "FAILED", !.claim = claim,
                                             !.count = @ + 1, !.lease = "running",
                                             !.cooled = FALSE]

Swept(e) ==
    \E s \in Sweeps, state \in {"PUBLISHED", "FAILED"} :
        /\ sweep[s].execution = e
        /\ sweep[s].stage \in {"sent", "raised"}
        /\ state = "PUBLISHED" => sweep[s].stage = "sent"
        /\ sweep' = [sweep EXCEPT ![s] = IdleSweep]
        /\ outbox'[e] = [outbox[e] EXCEPT !.state = state, !.claim = ClaimId(s, outbox[e].count),
                                          !.count = @ + 1, !.lease = "running", !.cooled = FALSE]

RowMove(e) == Timed(e) \/ Marked(e) \/ Released(e) \/ Claimed(e) \/ Swept(e)

\* One row moves and the others stay.
OneRowMoves ==
    \E e \in Executions :
        /\ outbox' = [outbox EXCEPT ![e] = outbox'[e]]
        /\ RowMove(e)

\* Claim ids are well typed as long as the count has room.
LEMMA ClaimIdType ==
    ASSUME NEW p \in Publishers \cup Sweeps, NEW n \in 0 .. PublishBound
    PROVE  ClaimId(p, n) \in ClaimIds
    BY OutboxAssumption DEF ClaimId, ClaimIds

\* A publisher that claims updates the row as Claimed says.
LEMMA CommitClaimMoves ==
    ASSUME TypeOK, NEW p \in Publishers, NEW e \in Executions, NEW claim \in ClaimIds,
           CommitClaim(p, e, claim), outbox[e].count < PublishBound,
           \/ outbox[e].state = "ABSENT" /\ outbox[e].count = 0
           \/ outbox[e].state = "PENDING" /\ ~Locked(e) /\ e \in Ingress
    PROVE  OneRowMoves
<1>1. outbox \in [Executions -> OutboxRow] /\ outbox[e] \in OutboxRow
    BY DEF TypeOK
<1>2. CASE outbox' = [outbox EXCEPT ![e].state = "PUBLISHING", ![e].claim = claim,
                                    ![e].count = @ + 1, ![e].lease = "running"]
    <2>1. outbox'[e] = [outbox[e] EXCEPT !.state = "PUBLISHING", !.claim = claim,
                                         !.count = @ + 1, !.lease = "running"]
        BY <1>1, <1>2
    <2>2. outbox' = [outbox EXCEPT ![e] = outbox'[e]]
        BY <1>1, <1>2
    <2> QED
        BY <2>1, <2>2 DEF OneRowMoves, RowMove, Claimed
<1>3. CASE outbox' = [outbox EXCEPT ![e].state = "FAILED", ![e].claim = claim,
                                    ![e].count = @ + 1, ![e].lease = "running",
                                    ![e].cooled = FALSE]
    <2>1. outbox'[e] = [outbox[e] EXCEPT !.state = "FAILED", !.claim = claim,
                                         !.count = @ + 1, !.lease = "running",
                                         !.cooled = FALSE]
        BY <1>1, <1>3
    <2>2. outbox' = [outbox EXCEPT ![e] = outbox'[e]]
        BY <1>1, <1>3
    <2> QED
        BY <2>1, <2>2 DEF OneRowMoves, RowMove, Claimed
<1> QED
    BY <1>2, <1>3 DEF CommitClaim

\* Every step leaves the rows alone or moves one of them.
LEMMA RowMoves ==
    ASSUME Core, [Next]_vars
    PROVE  UNCHANGED outbox \/ OneRowMoves
<1> USE OutboxAssumption
<1>1. outbox \in [Executions -> OutboxRow]
    BY DEF Core, TypeOK
<1>2. ASSUME NEW p \in Publishers, NEW e \in Executions, RequestExecution(p, e)
      PROVE  OneRowMoves
    <2>1. outbox[e].state = "ABSENT" /\ outbox[e].count = 0 /\ CommitClaim(p, e, ClaimId(p, 0))
        BY <1>2 DEF Core, RowInv, RequestExecution
    <2>2. 0 \in 0 .. PublishBound /\ 0 < PublishBound
        OBVIOUS
    <2> QED
        BY <2>1, <2>2, ClaimIdType, CommitClaimMoves DEF Core
<1>3. ASSUME NEW p \in Publishers, ClaimPending(p)
      PROVE  UNCHANGED outbox \/ OneRowMoves
    <2> DEFINE e == publisher[p].execution
    <2>1. /\ e \in Executions /\ e \in Ingress
          /\ publisher[p].claim \in ClaimIds
        BY <1>3 DEF Core, ClaimInv, ClaimPending
    <2>2. CASE /\ outbox[e].state = "PENDING" /\ outbox[e].count < PublishBound
               /\ CommitClaim(p, e, publisher[p].claim)
        BY <1>3, <2>1, <2>2, CommitClaimMoves DEF Core, ClaimPending
    <2> QED
        BY <1>3, <2>2 DEF ClaimPending
<1>4. ASSUME NEW p \in Publishers, MarkPublished(p)
      PROVE  UNCHANGED outbox \/ OneRowMoves
    <2> DEFINE e == publisher[p].execution
    <2>1. e \in Executions /\ publisher[p].stage = "sent"
        BY <1>4 DEF Core, ClaimInv, MarkPublished
    <2>2. CASE Holds(p) /\ outbox' = [outbox EXCEPT ![e].state = "PUBLISHED"]
        <3>1. /\ outbox[e].state = "PUBLISHING"
              /\ outbox'[e] = [outbox[e] EXCEPT !.state = "PUBLISHED"]
              /\ outbox' = [outbox EXCEPT ![e] = outbox'[e]]
            BY <1>1, <2>1, <2>2 DEF Holds
        <3> QED
            BY <2>1, <3>1 DEF OneRowMoves, RowMove, Marked
    <2> QED
        BY <1>4, <2>2 DEF MarkPublished
<1>5. ASSUME NEW p \in Publishers, MarkFailed(p)
      PROVE  UNCHANGED outbox \/ OneRowMoves
    <2> DEFINE e == publisher[p].execution
    <2>1. e \in Executions
        BY <1>5 DEF Core, ClaimInv, MarkFailed
    <2>2. CASE Holds(p) /\ outbox' = [outbox EXCEPT ![e].state = "FAILED", ![e].cooled = FALSE]
        <3>1. /\ outbox[e].state = "PUBLISHING"
              /\ outbox'[e] = [outbox[e] EXCEPT !.state = "FAILED", !.cooled = FALSE]
              /\ outbox' = [outbox EXCEPT ![e] = outbox'[e]]
            BY <1>1, <2>1, <2>2 DEF Holds
        <3> QED
            BY <2>1, <3>1 DEF OneRowMoves, RowMove, Marked
    <2> QED
        BY <1>5, <2>2 DEF MarkFailed
<1>6. ASSUME NEW e \in Executions, Reconcile(e)
      PROVE  OneRowMoves
    <2>1. CASE LeaseExpires(e)
        <3>1. /\ outbox[e].state = "PUBLISHING"
              /\ outbox'[e] = [outbox[e] EXCEPT !.lease = "expired"]
              /\ outbox' = [outbox EXCEPT ![e] = outbox'[e]]
            BY <1>1, <2>1 DEF LeaseExpires
        <3> QED
            BY <3>1 DEF OneRowMoves, RowMove, Timed
    <2>2. CASE CooldownEnds(e)
        <3>1. /\ outbox[e].state = "FAILED"
              /\ outbox'[e] = [outbox[e] EXCEPT !.cooled = TRUE]
              /\ outbox' = [outbox EXCEPT ![e] = outbox'[e]]
            BY <1>1, <2>2 DEF CooldownEnds
        <3> QED
            BY <3>1 DEF OneRowMoves, RowMove, Timed
    <2>3. CASE RequeueStale(e)
        <3>1. /\ outbox[e].state = "PUBLISHING"
              /\ outbox'[e] = [outbox[e] EXCEPT !.state = "PENDING", !.claim = <<>>,
                                                !.lease = "null"]
              /\ outbox' = [outbox EXCEPT ![e] = outbox'[e]]
            BY <1>1, <2>3 DEF RequeueStale, Stale
        <3> QED
            BY <3>1 DEF OneRowMoves, RowMove, Released
    <2>4. CASE RequeueFailed(e)
        <3>1. /\ outbox[e].state = "FAILED" /\ outbox[e].count < MaxPublishAttempts
              /\ outbox'[e] = [outbox[e] EXCEPT !.state = "PENDING", !.claim = <<>>,
                                                !.lease = "null", !.recovered = TRUE]
              /\ outbox' = [outbox EXCEPT ![e] = outbox'[e]]
            BY <1>1, <2>4 DEF RequeueFailed, Retryable
        <3> QED
            BY <3>1 DEF OneRowMoves, RowMove, Released
    <2> QED
        BY <1>6, <2>1, <2>2, <2>3, <2>4 DEF Reconcile
<1>7. ASSUME NEW s \in Sweeps, CommitStuckPending(s)
      PROVE  OneRowMoves
    <2> DEFINE e == sweep[s].execution
               state == IF sweep[s].stage = "sent" THEN "PUBLISHED" ELSE "FAILED"
    <2>1. e \in Executions /\ sweep[s].stage \in {"sent", "raised"}
        BY <1>7 DEF Core, LockInv, CommitStuckPending
    <2>2. /\ outbox'[e] = [outbox[e] EXCEPT !.state = state, !.claim = ClaimId(s, outbox[e].count),
                                            !.count = @ + 1, !.lease = "running",
                                            !.cooled = FALSE]
          /\ outbox' = [outbox EXCEPT ![e] = outbox'[e]]
        BY <1>1, <1>7, <2>1 DEF CommitStuckPending
    <2>3. state \in {"PUBLISHED", "FAILED"} /\ (state = "PUBLISHED" => sweep[s].stage = "sent")
        OBVIOUS
    <2> HIDE DEF state
    <2>4. Swept(e)
        BY <1>7, <2>1, <2>2, <2>3 DEF Swept, CommitStuckPending
    <2> QED
        BY <2>1, <2>2, <2>4 DEF OneRowMoves, RowMove
<1>8. CASE \/ UNCHANGED vars
           \/ \E p \in Publishers :
                  \/ \E e \in Executions : ReadPending(p, e)
                  \/ PublishExecution(p)
                  \/ CrashPublisher(p)
           \/ \E e \in Executions : SettleExecution(e)
           \/ \E s \in Sweeps :
                  \/ \E e \in Executions : ListStuckPending(s, e)
                  \/ ClaimStuckPending(s)
                  \/ PublishStuckPending(s)
                  \/ RollBackSweep(s)
    BY <1>8
    DEF vars, ReadPending, PublishExecution, CrashPublisher, SettleExecution,
        ListStuckPending, ClaimStuckPending, PublishStuckPending, RollBackSweep
<1> QED
    BY <1>2, <1>3, <1>4, <1>5, <1>6, <1>7, <1>8 DEF Next, Dispatch, SweepStep

\* What the moves of rows have in common: a row exists for good and its count, which
\* has room for one more attempt, never falls.
LEMMA RowsOnlyGrow ==
    ASSUME Core, [Next]_vars
    PROVE  /\ outbox' \in [Executions -> OutboxRow]
           /\ RowInv'
           /\ \A e \in Executions :
                  /\ outbox'[e].count >= outbox[e].count
                  /\ outbox[e].state # "ABSENT" => outbox'[e].state # "ABSENT"
                  /\ outbox[e].recovered => outbox'[e].recovered
<1> USE OutboxAssumption
<1>1. outbox \in [Executions -> OutboxRow]
    BY DEF Core, TypeOK
<1>2. CASE UNCHANGED outbox
    BY <1>1, <1>2 DEF Core, RowInv, OutboxRow
<1>3. ASSUME NEW e \in Executions, outbox' = [outbox EXCEPT ![e] = outbox'[e]], RowMove(e)
      PROVE  /\ outbox'[e] \in OutboxRow
             /\ outbox'[e].state # "ABSENT"
             /\ outbox'[e].state \in {"PENDING", "PUBLISHING"} =>
                    outbox'[e].count <= PublishBound
             /\ outbox'[e].count >= outbox[e].count
             /\ outbox[e].recovered => outbox'[e].recovered
    <2>1. /\ outbox[e] \in OutboxRow
          /\ outbox[e].state \in {"PENDING", "PUBLISHING"} => outbox[e].count <= PublishBound
        BY <1>1 DEF Core, RowInv
    <2>2. CASE Timed(e)
        <3>1. outbox'[e] \in OutboxRow
            BY <2>1, <2>2 DEF Timed, OutboxRow
        <3>2. /\ outbox'[e].state # "ABSENT"
              /\ outbox'[e].state = outbox[e].state
              /\ outbox'[e].count = outbox[e].count
              /\ outbox'[e].recovered = outbox[e].recovered
            BY <2>1, <2>2 DEF Timed, OutboxRow
        <3>3. outbox[e].count \in Int
            BY <2>1 DEF OutboxRow
        <3> QED
            BY <2>1, <3>1, <3>2, <3>3
    <2>3. CASE Marked(e)
        <3>1. outbox'[e] \in OutboxRow
            BY <2>1, <2>3 DEF Marked, OutboxRow
        <3>2. /\ outbox'[e].state \in {"PUBLISHED", "FAILED"}
              /\ outbox'[e].count = outbox[e].count
              /\ outbox'[e].recovered = outbox[e].recovered
            BY <2>1, <2>3 DEF Marked, OutboxRow
        <3>3. outbox[e].count \in Int
            BY <2>1 DEF OutboxRow
        <3> QED
            BY <2>1, <3>1, <3>2, <3>3
    <2>4. CASE Released(e)
        <3>1. outbox'[e] \in OutboxRow
            BY <2>1, <2>4 DEF Released, OutboxRow
        <3>2. /\ outbox'[e].state = "PENDING"
              /\ outbox[e].state = "PUBLISHING" \/ outbox[e].count < MaxPublishAttempts
              /\ outbox'[e].count = outbox[e].count
              /\ outbox[e].recovered => outbox'[e].recovered
            BY <2>1, <2>4 DEF Released, OutboxRow
        <3>3. outbox[e].count \in Int
            BY <2>1 DEF OutboxRow
        <3> QED
            BY <2>1, <3>1, <3>2, <3>3
    <2>5. CASE Claimed(e)
        <3>1. outbox[e].count + 1 \in 0 .. (PublishBound + 1)
            BY <2>1, <2>5 DEF Claimed, OutboxRow
        <3>2. /\ outbox'[e].state \in {"PUBLISHING", "FAILED"}
              /\ outbox[e].count < PublishBound
              /\ outbox'[e].count = outbox[e].count + 1
              /\ outbox'[e].recovered = outbox[e].recovered
            BY <2>1, <2>5 DEF Claimed, OutboxRow
        <3>3. outbox'[e] \in OutboxRow
            BY <2>1, <2>5, <3>1 DEF Claimed, OutboxRow
        <3>4. outbox[e].count \in Int
            BY <2>1 DEF OutboxRow
        <3> QED
            BY <2>1, <3>2, <3>3, <3>4
    <2>6. CASE Swept(e)
        <3>1. PICK s \in Sweeps, state \in {"PUBLISHED", "FAILED"} :
                  /\ sweep[s].execution = e
                  /\ sweep[s].stage \in {"sent", "raised"}
                  /\ outbox'[e] = [outbox[e] EXCEPT
                         !.state = state, !.claim = ClaimId(s, outbox[e].count),
                         !.count = @ + 1, !.lease = "running", !.cooled = FALSE]
            BY <2>6 DEF Swept
        <3>2. outbox[e].state = "PENDING"
            BY <3>1 DEF Core, LockInv, Locking
        <3>3. outbox[e].count \in 0 .. PublishBound
            BY <2>1, <3>2 DEF OutboxRow
        <3>4. ClaimId(s, outbox[e].count) \in ClaimIds
            BY <3>3, ClaimIdType
        <3> HIDE DEF ClaimId
        <3>5. outbox'[e] \in OutboxRow
            <4>1. outbox[e].count + 1 \in 0 .. (PublishBound + 1)
                BY <3>3
            <4> QED
                BY <2>1, <3>1, <3>4, <4>1 DEF OutboxRow
        <3>6. /\ outbox'[e].state = state
              /\ outbox'[e].count = outbox[e].count + 1
              /\ outbox'[e].recovered = outbox[e].recovered
            BY <2>1, <3>1 DEF OutboxRow
        <3> QED
            BY <3>3, <3>5, <3>6
    <2> QED
        BY <1>3, <2>2, <2>3, <2>4, <2>5, <2>6 DEF RowMove
<1>4. CASE OneRowMoves
    <2>1. PICK e \in Executions : outbox' = [outbox EXCEPT ![e] = outbox'[e]] /\ RowMove(e)
        BY <1>4 DEF OneRowMoves
    <2>2. \A x \in Executions : x # e => outbox'[x] = outbox[x]
        BY <1>1, <2>1
    <2>3. outbox' \in [Executions -> OutboxRow]
        BY <1>1, <1>3, <2>1
    <2>4. \A x \in Executions : outbox[x].count \in Nat
        BY <1>1 DEF OutboxRow
    <2> QED
        BY <1>3, <2>1, <2>2, <2>3, <2>4 DEF Core, RowInv
<1> QED
    BY <1>2, <1>4, RowMoves

-----------------------------------------------------------------------------
(* What one step may do to one publisher *)

Reads(p) ==
    \E e \in Ingress :
        /\ outbox[e].state = "PENDING"
        /\ outbox[e].count < PublishBound
        /\ publisher'[p] = [stage |-> "reading", execution |-> e,
                            claim |-> ClaimId(p, outbox[e].count)]

Commits(p) ==
    \E e \in Executions, claim \in ClaimIds :
        /\ publisher'[p] = [stage |-> "publishing", execution |-> e, claim |-> claim]
        /\ claim[2] <= outbox[e].count + 1
        /\ outbox'[e].count = outbox[e].count + 1
        /\ outbox'[e].state = "PUBLISHING"

Calls(p) ==
    /\ publisher[p].stage = "publishing"
    /\ \E stage \in {"sent", "raised"} :
           /\ publisher'[p] = [publisher[p] EXCEPT !.stage = stage]
           /\ stage = "sent" =>
                  sent' = [sent EXCEPT ![publisher[p].execution] = @ + 1]

PublisherMove(p) ==
    publisher'[p] = IdlePublisher \/ Reads(p) \/ Commits(p) \/ Calls(p)

OnePublisherMoves ==
    \E p \in Publishers :
        /\ publisher' = [publisher EXCEPT ![p] = publisher'[p]]
        /\ PublisherMove(p)

\* CommitClaim moves its publisher as Commits says, or ends its work.
LEMMA CommitClaimCommits ==
    ASSUME TypeOK, NEW p \in Publishers, NEW e \in Executions, NEW claim \in ClaimIds,
           CommitClaim(p, e, claim), claim[2] <= outbox[e].count + 1
    PROVE  OnePublisherMoves
<1>1. /\ publisher \in [Publishers -> PublisherState]
      /\ outbox \in [Executions -> OutboxRow] /\ outbox[e] \in OutboxRow
    BY DEF TypeOK
<1>2. CASE /\ outbox' = [outbox EXCEPT ![e].state = "PUBLISHING", ![e].claim = claim,
                                       ![e].count = @ + 1, ![e].lease = "running"]
           /\ publisher' = [publisher EXCEPT ![p] =
                  [stage |-> "publishing", execution |-> e, claim |-> claim]]
    <2>1. /\ publisher'[p] = [stage |-> "publishing", execution |-> e, claim |-> claim]
          /\ publisher' = [publisher EXCEPT ![p] = publisher'[p]]
        BY <1>1, <1>2
    <2>2. outbox'[e].count = outbox[e].count + 1 /\ outbox'[e].state = "PUBLISHING"
        BY <1>1, <1>2 DEF OutboxRow
    <2> QED
        BY <2>1, <2>2 DEF OnePublisherMoves, PublisherMove, Commits
<1>3. CASE publisher' = [publisher EXCEPT ![p] = IdlePublisher]
    <2>1. publisher'[p] = IdlePublisher /\ publisher' = [publisher EXCEPT ![p] = publisher'[p]]
        BY <1>1, <1>3
    <2> QED
        BY <2>1 DEF OnePublisherMoves, PublisherMove
<1> QED
    BY <1>2, <1>3 DEF CommitClaim

\* Every step leaves the publishers alone or moves one of them.
LEMMA PublisherMoves ==
    ASSUME Core, [Next]_vars
    PROVE  UNCHANGED publisher \/ OnePublisherMoves
<1> USE OutboxAssumption
<1>1. /\ publisher \in [Publishers -> PublisherState]
      /\ \A e \in Executions : outbox[e] \in OutboxRow /\ outbox[e].count \in Nat
      /\ \A p \in Publishers : publisher[p] \in PublisherState
    BY DEF Core, TypeOK, OutboxRow
<1>2. ASSUME NEW p \in Publishers, NEW e \in Executions, RequestExecution(p, e)
      PROVE  OnePublisherMoves
    <2>1. ClaimId(p, 0) \in ClaimIds /\ ClaimId(p, 0)[2] <= outbox[e].count + 1
        BY <1>1, ClaimIdType DEF ClaimId
    <2> QED
        BY <1>2, <2>1, CommitClaimCommits DEF Core, RequestExecution
<1>3. ASSUME NEW p \in Publishers, NEW e \in Executions, ReadPending(p, e)
      PROVE  OnePublisherMoves
    <2>1. /\ publisher'[p] = [stage |-> "reading", execution |-> e,
                              claim |-> ClaimId(p, outbox[e].count)]
          /\ publisher' = [publisher EXCEPT ![p] = publisher'[p]]
        BY <1>1, <1>3 DEF ReadPending
    <2> QED
        BY <1>3, <2>1 DEF OnePublisherMoves, PublisherMove, Reads, ReadPending
<1>4. ASSUME NEW p \in Publishers, ClaimPending(p)
      PROVE  OnePublisherMoves
    <2> DEFINE e == publisher[p].execution
    <2>1. /\ e \in Executions /\ publisher[p].claim \in ClaimIds
          /\ publisher[p].claim[2] <= outbox[e].count + 1
        BY <1>4 DEF Core, ClaimInv, ClaimPending
    <2>2. CASE CommitClaim(p, e, publisher[p].claim)
        BY <2>1, <2>2, CommitClaimCommits DEF Core
    <2>3. CASE publisher' = [publisher EXCEPT ![p] = IdlePublisher]
        <3>1. /\ publisher'[p] = IdlePublisher
              /\ publisher' = [publisher EXCEPT ![p] = publisher'[p]]
            BY <1>1, <2>3
        <3> QED
            BY <3>1 DEF OnePublisherMoves, PublisherMove
    <2> QED
        BY <1>4, <2>2, <2>3 DEF ClaimPending
<1>5. ASSUME NEW p \in Publishers, PublishExecution(p)
      PROVE  OnePublisherMoves
    <2>1. PICK stage \in {"sent", "raised"} :
              /\ publisher' = [publisher EXCEPT ![p].stage = stage]
              /\ BrokerCall(publisher[p].execution, stage = "sent", stage = "raised")
        BY <1>5 DEF PublishExecution
    <2>2. /\ publisher'[p] = [publisher[p] EXCEPT !.stage = stage]
          /\ publisher' = [publisher EXCEPT ![p] = publisher'[p]]
        BY <1>1, <2>1
    <2>3. stage = "sent" => sent' = [sent EXCEPT ![publisher[p].execution] = @ + 1]
        BY <2>1 DEF BrokerCall
    <2>4. Calls(p)
        BY <1>5, <2>2, <2>3 DEF Calls, PublishExecution
    <2> QED
        BY <2>2, <2>4 DEF OnePublisherMoves, PublisherMove
<1>6. ASSUME NEW p \in Publishers, MarkPublished(p) \/ MarkFailed(p) \/ CrashPublisher(p)
      PROVE  OnePublisherMoves
    <2>1. publisher' = [publisher EXCEPT ![p] = IdlePublisher]
        BY <1>6 DEF MarkPublished, MarkFailed, CrashPublisher
    <2>2. publisher'[p] = IdlePublisher /\ publisher' = [publisher EXCEPT ![p] = publisher'[p]]
        BY <1>1, <2>1
    <2> QED
        BY <2>2 DEF OnePublisherMoves, PublisherMove
<1>7. CASE \/ UNCHANGED vars
           \/ \E e \in Executions : Reconcile(e) \/ SettleExecution(e)
           \/ \E s \in Sweeps :
                  \/ \E e \in Executions : ListStuckPending(s, e)
                  \/ SweepStep(s)
                  \/ RollBackSweep(s)
    BY <1>7
    DEF vars, Reconcile, LeaseExpires, CooldownEnds, RequeueStale, RequeueFailed,
        SettleExecution, ListStuckPending, SweepStep, ClaimStuckPending,
        PublishStuckPending, CommitStuckPending, RollBackSweep
<1> QED
    BY <1>2, <1>3, <1>4, <1>5, <1>6, <1>7 DEF Next, Dispatch

-----------------------------------------------------------------------------
(* What one step may do to one sweep *)

Lists(s) ==
    \E e \in Executions :
        /\ outbox[e].recovered
        /\ sweep'[s] = [stage |-> "listed", execution |-> e, count |-> outbox[e].count]

Locks(s) ==
    /\ sweep[s].stage = "listed"
    /\ ~Locked(sweep[s].execution)
    /\ outbox[sweep[s].execution].state = "PENDING"
    /\ sweep'[s] = [sweep[s] EXCEPT !.stage = "holding"]
    /\ UNCHANGED outbox

Sends(s) ==
    /\ sweep[s].stage = "holding"
    /\ UNCHANGED outbox
    /\ \E stage \in {"sent", "raised"} :
           /\ sweep'[s] = [sweep[s] EXCEPT !.stage = stage]
           /\ stage = "sent" => sent' = [sent EXCEPT ![sweep[s].execution] = @ + 1]

SweepMove(s) == sweep'[s] = IdleSweep \/ Lists(s) \/ Locks(s) \/ Sends(s)

OneSweepMoves ==
    \E s \in Sweeps :
        /\ sweep' = [sweep EXCEPT ![s] = sweep'[s]]
        /\ SweepMove(s)

\* Every step leaves the sweeps alone or moves one of them.
LEMMA SweepMoves ==
    ASSUME Core, [Next]_vars
    PROVE  UNCHANGED sweep \/ OneSweepMoves
<1>1. sweep \in [Sweeps -> SweepState]
    BY DEF Core, TypeOK
<1>2. ASSUME NEW s \in Sweeps, NEW e \in Executions, ListStuckPending(s, e)
      PROVE  OneSweepMoves
    <2>1. /\ sweep'[s] = [stage |-> "listed", execution |-> e, count |-> outbox[e].count]
          /\ sweep' = [sweep EXCEPT ![s] = sweep'[s]]
        BY <1>1, <1>2 DEF ListStuckPending
    <2> QED
        BY <1>2, <2>1 DEF OneSweepMoves, SweepMove, Lists, ListStuckPending
<1>3. ASSUME NEW s \in Sweeps, ClaimStuckPending(s)
      PROVE  OneSweepMoves
    <2> DEFINE e == sweep[s].execution
    <2>1. CASE outbox[e].state = "PENDING" /\ sweep' = [sweep EXCEPT ![s].stage = "holding"]
        <3>1. /\ sweep'[s] = [sweep[s] EXCEPT !.stage = "holding"]
              /\ sweep' = [sweep EXCEPT ![s] = sweep'[s]]
            BY <1>1, <2>1
        <3> QED
            BY <1>3, <2>1, <3>1 DEF OneSweepMoves, SweepMove, Locks, ClaimStuckPending
    <2>2. CASE sweep' = [sweep EXCEPT ![s] = IdleSweep]
        <3>1. sweep'[s] = IdleSweep /\ sweep' = [sweep EXCEPT ![s] = sweep'[s]]
            BY <1>1, <2>2
        <3> QED
            BY <3>1 DEF OneSweepMoves, SweepMove
    <2> QED
        BY <1>3, <2>1, <2>2 DEF ClaimStuckPending
<1>4. ASSUME NEW s \in Sweeps, PublishStuckPending(s)
      PROVE  OneSweepMoves
    <2>1. PICK stage \in {"sent", "raised"} :
              /\ sweep' = [sweep EXCEPT ![s].stage = stage]
              /\ IF sweep[s].count < MaxPublishAttempts
                 THEN BrokerCall(sweep[s].execution, stage = "sent", stage = "raised")
                 ELSE stage = "raised" /\ UNCHANGED sent
        BY <1>4 DEF PublishStuckPending
    <2>2. /\ sweep'[s] = [sweep[s] EXCEPT !.stage = stage]
          /\ sweep' = [sweep EXCEPT ![s] = sweep'[s]]
        BY <1>1, <2>1
    <2>3. stage = "sent" => sent' = [sent EXCEPT ![sweep[s].execution] = @ + 1]
        BY <2>1 DEF BrokerCall
    <2>4. Sends(s)
        BY <1>4, <2>2, <2>3 DEF Sends, PublishStuckPending
    <2> QED
        BY <2>2, <2>4 DEF OneSweepMoves, SweepMove
<1>5. ASSUME NEW s \in Sweeps, CommitStuckPending(s) \/ RollBackSweep(s)
      PROVE  OneSweepMoves
    <2>1. sweep' = [sweep EXCEPT ![s] = IdleSweep]
        BY <1>5 DEF CommitStuckPending, RollBackSweep
    <2>2. sweep'[s] = IdleSweep /\ sweep' = [sweep EXCEPT ![s] = sweep'[s]]
        BY <1>1, <2>1
    <2> QED
        BY <2>2 DEF OneSweepMoves, SweepMove
<1>6. CASE \/ UNCHANGED vars
           \/ \E p \in Publishers : Dispatch(p)
           \/ \E e \in Executions : Reconcile(e) \/ SettleExecution(e)
    BY <1>6
    DEF vars, Dispatch, RequestExecution, ReadPending, ClaimPending, PublishExecution,
        MarkPublished, MarkFailed, CrashPublisher, Reconcile, LeaseExpires, CooldownEnds,
        RequeueStale, RequeueFailed, SettleExecution
<1> QED
    BY <1>2, <1>3, <1>4, <1>5, <1>6 DEF Next, SweepStep

\* The broker accepts at most one message in a step, and none is taken back.
LEMMA SentGrows ==
    ASSUME Core, [Next]_vars
    PROVE  /\ sent' \in [Executions -> Nat]
           /\ \A e \in Executions : sent'[e] >= sent[e]
           /\ sent' = sent \/ \E e \in Executions : sent' = [sent EXCEPT ![e] = @ + 1]
<1>1. sent \in [Executions -> Nat]
    BY DEF Core, TypeOK
<1>2. ASSUME NEW e \in Executions, NEW accepted, NEW raised, BrokerCall(e, accepted, raised)
      PROVE  sent' = sent \/ sent' = [sent EXCEPT ![e] = @ + 1]
    BY <1>2 DEF BrokerCall
<1>3. sent' = sent \/ \E e \in Executions : sent' = [sent EXCEPT ![e] = @ + 1]
    <2>1. ASSUME NEW p \in Publishers, PublishExecution(p)
          PROVE  sent' = sent \/ \E e \in Executions : sent' = [sent EXCEPT ![e] = @ + 1]
        <3>1. publisher[p].execution \in Executions
            BY <2>1 DEF Core, ClaimInv, PublishExecution
        <3>2. PICK stage : BrokerCall(publisher[p].execution, stage = "sent", stage = "raised")
            BY <2>1 DEF PublishExecution
        <3> QED
            BY <1>2, <3>1, <3>2
    <2>2. ASSUME NEW s \in Sweeps, PublishStuckPending(s)
          PROVE  sent' = sent \/ \E e \in Executions : sent' = [sent EXCEPT ![e] = @ + 1]
        <3>1. sweep[s].execution \in Executions
            BY <2>2 DEF Core, LockInv, PublishStuckPending
        <3>2. CASE UNCHANGED sent
            BY <3>2
        <3>3. CASE \E stage : BrokerCall(sweep[s].execution, stage = "sent", stage = "raised")
            BY <1>2, <3>1, <3>3
        <3> QED
            BY <2>2, <3>2, <3>3 DEF PublishStuckPending
    <2>3. CASE \/ UNCHANGED vars
               \/ \E p \in Publishers :
                      \/ \E e \in Executions : RequestExecution(p, e) \/ ReadPending(p, e)
                      \/ ClaimPending(p)
                      \/ MarkPublished(p)
                      \/ MarkFailed(p)
                      \/ CrashPublisher(p)
               \/ \E e \in Executions : Reconcile(e) \/ SettleExecution(e)
               \/ \E s \in Sweeps :
                      \/ \E e \in Executions : ListStuckPending(s, e)
                      \/ ClaimStuckPending(s)
                      \/ CommitStuckPending(s)
                      \/ RollBackSweep(s)
        BY <2>3
        DEF vars, RequestExecution, ReadPending, ClaimPending, MarkPublished, MarkFailed,
            CrashPublisher, Reconcile, LeaseExpires, CooldownEnds, RequeueStale,
            RequeueFailed, SettleExecution, ListStuckPending, ClaimStuckPending,
            CommitStuckPending, RollBackSweep
    <2> QED
        BY <2>1, <2>2, <2>3 DEF Next, Dispatch, SweepStep
<1> QED
    BY <1>1, <1>3

-----------------------------------------------------------------------------
(* The invariant is inductive *)

\* Nothing has been requested.
LEMMA InitInv == Init => IInv
<1> SUFFICES ASSUME Init PROVE IInv
    OBVIOUS
<1>1. TypeOK
    BY OutboxAssumption
    DEF Init, TypeOK, OutboxRow, PublisherState, SweepState, AbsentRow, IdlePublisher,
        IdleSweep
<1>2. RowInv /\ ClaimInv /\ LockInv /\ EqualClaimsAreOld /\ SentInv /\ SweptInv
    BY DEF Init, RowInv, ClaimInv, LockInv, EqualClaimsAreOld, SentInv, SweptInv, AbsentRow,
           IdlePublisher, IdleSweep, Locking, Claiming
<1>3. AccountInv
    <2> SUFFICES ASSUME NEW e \in Executions PROVE Balanced(e)
        BY DEF AccountInv
    <2>1. Paid(e) = {} /\ Unpaid(e) = {}
        BY DEF Init, Paid, Unpaid, IdlePublisher, IdleSweep
    <2>2. sent[e] = 0 /\ outbox[e].count = 0 /\ rolledBack[e] = 0
        BY DEF Init, AbsentRow
    <2> QED
        BY <2>1, <2>2, FS_EmptySet DEF Balanced
<1> QED
    BY <1>1, <1>2, <1>3 DEF IInv, Core

\* The types of the processes and of the history.
LEMMA TypesStep ==
    ASSUME Core, [Next]_vars
    PROVE  TypeOK'
<1> USE OutboxAssumption
<1>1. /\ publisher \in [Publishers -> PublisherState]
      /\ sweep \in [Sweeps -> SweepState]
      /\ rolledBack \in [Executions -> 0 .. RollbackBound]
      /\ settled \subseteq Executions
      /\ \A e \in Executions : outbox[e] \in OutboxRow
    BY DEF Core, TypeOK
<1>2. publisher' \in [Publishers -> PublisherState]
    <2>1. ASSUME NEW p \in Publishers, PublisherMove(p) PROVE publisher'[p] \in PublisherState
        <3>1. publisher[p] \in PublisherState
            BY <1>1
        <3>2. CASE publisher'[p] = IdlePublisher
            BY <3>2 DEF IdlePublisher, PublisherState
        <3>3. CASE Reads(p)
            <4>1. PICK e \in Ingress :
                      /\ outbox[e].count < PublishBound
                      /\ publisher'[p] = [stage |-> "reading", execution |-> e,
                                          claim |-> ClaimId(p, outbox[e].count)]
                BY <3>3 DEF Reads
            <4>2. e \in Executions /\ outbox[e].count \in 0 .. PublishBound
                BY <1>1, <4>1 DEF OutboxRow
            <4>3. ClaimId(p, outbox[e].count) \in ClaimIds
                BY <4>2, ClaimIdType
            <4> QED
                BY <4>1, <4>2, <4>3 DEF PublisherState
        <3>4. CASE Commits(p)
            BY <3>4 DEF Commits, PublisherState
        <3>5. CASE Calls(p)
            BY <3>1, <3>5 DEF Calls, PublisherState
        <3> QED
            BY <2>1, <3>2, <3>3, <3>4, <3>5 DEF PublisherMove
    <2> QED
        BY <1>1, <2>1, PublisherMoves DEF OnePublisherMoves
<1>3. sweep' \in [Sweeps -> SweepState]
    <2>1. ASSUME NEW s \in Sweeps, SweepMove(s) PROVE sweep'[s] \in SweepState
        <3>1. sweep[s] \in SweepState
            BY <1>1
        <3>2. CASE sweep'[s] = IdleSweep
            BY <3>2 DEF IdleSweep, SweepState
        <3>3. CASE Lists(s)
            BY <1>1, <3>3 DEF Lists, SweepState, OutboxRow
        <3>4. CASE Locks(s) \/ Sends(s)
            BY <3>1, <3>4 DEF Locks, Sends, SweepState
        <3> QED
            BY <2>1, <3>2, <3>3, <3>4 DEF SweepMove
    <2> QED
        BY <1>1, <2>1, SweepMoves DEF OneSweepMoves
<1>4. rolledBack' \in [Executions -> 0 .. RollbackBound]
    <2>1. ASSUME NEW s \in Sweeps, RollBackSweep(s)
          PROVE  rolledBack' \in [Executions -> 0 .. RollbackBound]
        <3> DEFINE e == sweep[s].execution
        <3>1. e \in Executions
            BY <2>1 DEF Core, LockInv, RollBackSweep
        <3>2. rolledBack[e] + 1 \in 0 .. RollbackBound
            BY <1>1, <2>1, <3>1 DEF RollBackSweep
        <3> QED
            BY <1>1, <2>1, <3>1, <3>2 DEF RollBackSweep
    <2>2. (\E s \in Sweeps : RollBackSweep(s)) \/ UNCHANGED rolledBack
        BY DEF vars, Next, Dispatch, RequestExecution, ReadPending, ClaimPending,
               PublishExecution, MarkPublished, MarkFailed, CrashPublisher, Reconcile,
               LeaseExpires, CooldownEnds, RequeueStale, RequeueFailed, SettleExecution,
               ListStuckPending, SweepStep, ClaimStuckPending, PublishStuckPending,
               CommitStuckPending
    <2> QED
        BY <1>1, <2>1, <2>2
<1>5. settled' \subseteq Executions
    <2>1. ASSUME NEW e \in Executions, SettleExecution(e) PROVE settled' \subseteq Executions
        BY <1>1, <2>1 DEF SettleExecution
    <2>2. CASE \/ UNCHANGED vars
               \/ \E p \in Publishers : Dispatch(p)
               \/ \E e \in Executions : Reconcile(e)
        BY <1>1, <2>2
        DEF vars, Dispatch, RequestExecution, ReadPending, ClaimPending, PublishExecution,
            MarkPublished, MarkFailed, CrashPublisher, Reconcile, LeaseExpires, CooldownEnds,
            RequeueStale, RequeueFailed
    <2>3. CASE \E s \in Sweeps :
                   \/ \E e \in Executions : ListStuckPending(s, e)
                   \/ SweepStep(s)
                   \/ RollBackSweep(s)
        BY <1>1, <2>3
        DEF ListStuckPending, SweepStep, ClaimStuckPending, PublishStuckPending,
            CommitStuckPending, RollBackSweep
    <2> QED
        BY <2>1, <2>2, <2>3 DEF Next
<1> QED
    BY <1>2, <1>3, <1>4, <1>5, RowsOnlyGrow, SentGrows DEF TypeOK

\* What publishers hold stays in step with the rows.
LEMMA ClaimStep ==
    ASSUME Core, [Next]_vars
    PROVE  ClaimInv'
<1> USE OutboxAssumption
<1>1. /\ publisher \in [Publishers -> PublisherState]
      /\ \A e \in Executions : outbox[e] \in OutboxRow /\ outbox[e].count \in Nat
      /\ \A e \in Executions :
             /\ outbox'[e].count \in Nat /\ outbox'[e].count >= outbox[e].count
             /\ outbox[e].state # "ABSENT" => outbox'[e].state # "ABSENT"
    BY RowsOnlyGrow DEF Core, TypeOK, OutboxRow
<1>2. \A p \in Publishers : publisher'[p] = publisher[p] \/ PublisherMove(p)
    BY <1>1, PublisherMoves DEF OnePublisherMoves
<1> SUFFICES ASSUME NEW p \in Publishers, publisher'[p].stage # "idle"
             PROVE  LET e == publisher'[p].execution
                    IN  /\ e \in Executions
                        /\ publisher'[p].claim \in ClaimIds
                        /\ outbox'[e].state # "ABSENT"
                        /\ publisher'[p].stage = "reading" =>
                               e \in Ingress /\ publisher'[p].claim[2] <= outbox'[e].count + 1
                        /\ publisher'[p].stage \in {"publishing", "sent", "raised"} =>
                               publisher'[p].claim[2] <= outbox'[e].count
    BY DEF ClaimInv, Claiming
<1> DEFINE e == publisher'[p].execution
           Good == /\ e \in Executions
                   /\ publisher'[p].claim \in ClaimIds
                   /\ outbox'[e].state # "ABSENT"
                   /\ publisher'[p].stage = "reading" =>
                          e \in Ingress /\ publisher'[p].claim[2] <= outbox'[e].count + 1
                   /\ publisher'[p].stage \in {"publishing", "sent", "raised"} =>
                          publisher'[p].claim[2] <= outbox'[e].count
<1> SUFFICES Good
    OBVIOUS
<1>3. ASSUME NEW claim \in ClaimIds PROVE claim[2] \in Nat
    BY <1>3 DEF ClaimIds
<1>4. ASSUME publisher[p].stage # "idle", publisher'[p].execution = publisher[p].execution,
             publisher'[p].claim = publisher[p].claim,
             publisher'[p].stage = "reading" => publisher[p].stage = "reading",
             publisher'[p].stage \in {"publishing", "sent", "raised"} =>
                 publisher[p].stage \in {"publishing", "sent", "raised"}
      PROVE  Good
    <2>1. /\ publisher[p].execution \in Executions
          /\ publisher[p].claim \in ClaimIds /\ publisher[p].claim[2] \in Nat
          /\ outbox[publisher[p].execution].state # "ABSENT"
          /\ publisher[p].stage = "reading" =>
                 /\ publisher[p].execution \in Ingress
                 /\ publisher[p].claim[2] <= outbox[publisher[p].execution].count + 1
          /\ Claiming(p) => publisher[p].claim[2] <= outbox[publisher[p].execution].count
        BY <1>3, <1>4 DEF Core, ClaimInv
    <2>2. /\ outbox'[publisher[p].execution].count \in Nat
          /\ outbox'[publisher[p].execution].count >= outbox[publisher[p].execution].count
          /\ outbox'[publisher[p].execution].state # "ABSENT"
        BY <1>1, <2>1
    <2>3. outbox[publisher[p].execution].count \in Nat
        BY <1>1, <2>1
    <2> QED
        BY <1>4, <2>1, <2>2, <2>3 DEF Claiming
<1>5. ASSUME publisher'[p] = publisher[p] PROVE Good
    <2>1. /\ publisher[p].stage # "idle"
          /\ publisher'[p].stage = publisher[p].stage
          /\ publisher'[p].execution = publisher[p].execution
          /\ publisher'[p].claim = publisher[p].claim
        BY <1>5
    <2> QED
        BY <1>4, <2>1
<1>6. CASE publisher'[p] = IdlePublisher
    BY <1>6 DEF IdlePublisher
<1>7. CASE Reads(p)
    <2>1. PICK x \in Ingress :
              /\ outbox[x].state = "PENDING"
              /\ outbox[x].count < PublishBound
              /\ publisher'[p] = [stage |-> "reading", execution |-> x,
                                  claim |-> ClaimId(p, outbox[x].count)]
        BY <1>7 DEF Reads
    <2>2. x \in Executions /\ outbox[x].count \in 0 .. PublishBound
        BY <1>1, <2>1
    <2>3. ClaimId(p, outbox[x].count) \in ClaimIds
        BY <2>2, ClaimIdType
    <2>4. ClaimId(p, outbox[x].count)[2] <= outbox'[x].count + 1
        BY <1>1, <2>2 DEF ClaimId
    <2> QED
        BY <1>1, <2>1, <2>2, <2>3, <2>4
<1>8. CASE Commits(p)
    <2>1. PICK x \in Executions, claim \in ClaimIds :
              /\ publisher'[p] = [stage |-> "publishing", execution |-> x, claim |-> claim]
              /\ claim[2] <= outbox[x].count + 1
              /\ outbox'[x].count = outbox[x].count + 1
              /\ outbox'[x].state = "PUBLISHING"
        BY <1>8 DEF Commits
    <2> QED
        BY <2>1
<1>9. CASE Calls(p)
    <2>1. publisher[p] \in PublisherState
        BY <1>1
    <2>2. /\ publisher[p].stage = "publishing"
          /\ publisher'[p].stage \in {"sent", "raised"}
          /\ publisher'[p].execution = publisher[p].execution
          /\ publisher'[p].claim = publisher[p].claim
        BY <1>9, <2>1 DEF Calls, PublisherState
    <2> QED
        BY <1>4, <2>2 DEF Claiming
<1> QED
    BY <1>2, <1>5, <1>6, <1>7, <1>8, <1>9 DEF PublisherMove

\* The row lock of a sweep's transaction keeps dispatch, reconcilers and other
\* sweeps away from its row.
LEMMA LockStep ==
    ASSUME Core, [Next]_vars
    PROVE  LockInv'
<1>1. /\ sweep \in [Sweeps -> SweepState]
      /\ outbox \in [Executions -> OutboxRow]
      /\ \A e \in Executions : outbox[e].recovered => outbox'[e].recovered
    BY RowsOnlyGrow DEF Core, TypeOK
<1>2. ASSUME NEW s \in Sweeps, Locking(s), sweep'[s] = sweep[s]
      PROVE  outbox'[sweep[s].execution].state = "PENDING"
    <2> DEFINE e == sweep[s].execution
    <2>1. e \in Executions /\ outbox[e].state = "PENDING" /\ Locked(e)
        BY <1>2 DEF Core, LockInv, Locking, Locked
    <2>2. CASE UNCHANGED outbox
        BY <2>1, <2>2
    <2>3. CASE OneRowMoves
        <3>1. PICK x \in Executions : outbox' = [outbox EXCEPT ![x] = outbox'[x]] /\ RowMove(x)
            BY <2>3 DEF OneRowMoves
        <3>2. CASE x = e
            <4>1. PICK z \in Sweeps :
                      /\ sweep[z].execution = e
                      /\ sweep[z].stage \in {"sent", "raised"}
                      /\ sweep' = [sweep EXCEPT ![z] = IdleSweep]
                BY <2>1, <3>1, <3>2 DEF RowMove, Timed, Marked, Released, Claimed, Swept
            <4>2. z = s
                BY <1>2, <4>1 DEF Core, LockInv, Locking
            <4>3. sweep'[s].stage = "idle"
                BY <1>1, <4>1, <4>2 DEF IdleSweep
            <4> QED
                BY <1>2, <4>3 DEF Locking
        <3> QED
            BY <1>1, <2>1, <3>1, <3>2
    <2> QED
        BY <2>2, <2>3, RowMoves
<1>3. CASE UNCHANGED sweep
    BY <1>1, <1>2, <1>3 DEF Core, LockInv, Locking
<1>4. CASE OneSweepMoves
    <2>1. PICK s \in Sweeps : sweep' = [sweep EXCEPT ![s] = sweep'[s]] /\ SweepMove(s)
        BY <1>4 DEF OneSweepMoves
    <2>2. \A z \in Sweeps : z # s => sweep'[z] = sweep[z]
        BY <1>1, <2>1
    <2>3. sweep[s] \in SweepState
        BY <1>1
    <2>4. CASE sweep'[s] = IdleSweep \/ Lists(s)
        <3>1. CASE sweep'[s] = IdleSweep
            <4>1. sweep'[s].stage = "idle"
                BY <3>1 DEF IdleSweep
            <4> QED
                BY <1>1, <1>2, <2>2, <4>1 DEF Core, LockInv, Locking
        <3>2. CASE Lists(s)
            <4>1. /\ sweep'[s].stage = "listed"
                  /\ sweep'[s].execution \in Executions
                  /\ outbox[sweep'[s].execution].recovered
                BY <3>2 DEF Lists
            <4> QED
                BY <1>1, <1>2, <2>2, <4>1 DEF Core, LockInv, Locking
        <3> QED
            BY <2>4, <3>1, <3>2
    <2>5. CASE Locks(s)
        <3>1. /\ sweep'[s].stage = "holding" /\ sweep'[s].execution = sweep[s].execution
              /\ sweep[s].stage = "listed"
              /\ outbox[sweep[s].execution].state = "PENDING"
              /\ ~Locked(sweep[s].execution)
              /\ UNCHANGED outbox
            BY <2>3, <2>5 DEF Locks, SweepState
        <3> QED
            BY <2>2, <3>1 DEF Core, LockInv, Locking, Locked
    <2>6. CASE Sends(s)
        <3>1. /\ sweep'[s].stage \in {"sent", "raised"}
              /\ sweep'[s].execution = sweep[s].execution
              /\ sweep[s].stage = "holding"
              /\ UNCHANGED outbox
            BY <2>3, <2>6 DEF Sends, SweepState
        <3> QED
            BY <2>2, <3>1 DEF Core, LockInv, Locking
    <2> QED
        BY <2>1, <2>4, <2>5, <2>6 DEF SweepMove
<1> QED
    BY <1>3, <1>4, SweepMoves

\* The core of the invariant is inductive by itself.
LEMMA CoreStep ==
    ASSUME Core, [Next]_vars
    PROVE  Core'
    BY TypesStep, RowsOnlyGrow, ClaimStep, LockStep DEF Core

\* The claim that dispatch commits is the first with its number, so a claim id that
\* equals another has a number that the row has passed.
LEMMA EqualClaimsStep ==
    ASSUME Core, EqualClaimsAreOld, [Next]_vars
    PROVE  EqualClaimsAreOld'
<1>1. /\ publisher \in [Publishers -> PublisherState]
      /\ \A e \in Executions : /\ outbox[e].count \in Nat /\ outbox'[e].count \in Nat
                               /\ outbox'[e].count >= outbox[e].count
    BY RowsOnlyGrow DEF Core, TypeOK, OutboxRow
<1> DEFINE HasClaim(p) == publisher'[p].stage \in {"publishing", "sent", "raised"}
           Kept(p) == /\ Claiming(p)
                      /\ publisher'[p].execution = publisher[p].execution
                      /\ publisher'[p].claim = publisher[p].claim
           Number(p) == publisher'[p].claim[2]
           Count(p) == outbox'[publisher'[p].execution].count
<1>2. ASSUME NEW p \in Publishers, HasClaim(p), publisher'[p] = publisher[p]
      PROVE  Kept(p)
    BY <1>2 DEF Claiming
<1>3. ASSUME NEW p \in Publishers, HasClaim(p), PublisherMove(p)
      PROVE  Commits(p) \/ Kept(p)
    <2>1. publisher[p] \in PublisherState
        BY <1>1
    <2>2. CASE publisher'[p] = IdlePublisher
        BY <1>3, <2>2 DEF IdlePublisher
    <2>3. CASE Reads(p)
        BY <1>3, <2>3 DEF Reads
    <2>4. CASE Calls(p)
        BY <2>1, <2>4 DEF Calls, PublisherState, Claiming
    <2> QED
        BY <1>3, <2>2, <2>3, <2>4 DEF PublisherMove
<1>4. ASSUME NEW p \in Publishers, Kept(p)
      PROVE  /\ publisher[p].execution \in Executions
             /\ Number(p) \in Nat
             /\ Number(p) <= outbox[publisher[p].execution].count
    <2>1. /\ publisher[p].execution \in Executions
          /\ publisher[p].claim \in ClaimIds
          /\ publisher[p].claim[2] <= outbox[publisher[p].execution].count
        BY <1>4 DEF Core, ClaimInv, Claiming
    <2>2. publisher[p].claim[2] \in Nat
        BY <2>1, OutboxAssumption DEF ClaimIds
    <2> QED
        BY <1>4, <2>1, <2>2
\* A claim that is committed now has passed every claim held before on its row.
<1>5. ASSUME NEW m \in Publishers, Commits(m), NEW p \in Publishers, Kept(p),
             publisher'[p].execution = publisher'[m].execution
      PROVE  Number(p) < Count(p)
    <2>1. outbox'[publisher'[m].execution].count = outbox[publisher'[m].execution].count + 1
        BY <1>5 DEF Commits
    <2>2. publisher[p].execution = publisher'[m].execution
        BY <1>5
    <2>3. /\ publisher[p].execution \in Executions /\ Number(p) \in Nat
          /\ Number(p) <= outbox[publisher[p].execution].count
        BY <1>4, <1>5
    <2>4. outbox[publisher[p].execution].count \in Nat
        BY <1>1, <2>3
    <2> HIDE DEF Number, Kept
    <2> QED
        BY <1>5, <2>1, <2>2, <2>3, <2>4
<1> SUFFICES ASSUME NEW p \in Publishers, NEW q \in Publishers, p # q,
                    HasClaim(p), HasClaim(q),
                    publisher'[p].execution = publisher'[q].execution,
                    publisher'[p].claim = publisher'[q].claim
             PROVE  Number(p) < Count(p)
    BY DEF EqualClaimsAreOld, Claiming
<1>6. CASE Kept(p) /\ Kept(q)
    <2>1. publisher[p].claim[2] < outbox[publisher[p].execution].count
        BY <1>6 DEF EqualClaimsAreOld
    <2>2. /\ publisher[p].execution \in Executions
          /\ Number(p) \in Nat
        BY <1>4, <1>6
    <2>3. /\ outbox[publisher[p].execution].count \in Nat
          /\ outbox'[publisher[p].execution].count \in Nat
          /\ outbox'[publisher[p].execution].count >= outbox[publisher[p].execution].count
        BY <1>1, <2>2
    <2> QED
        BY <1>6, <2>1, <2>2, <2>3
<1>7. CASE UNCHANGED publisher
    BY <1>2, <1>6, <1>7
<1>8. CASE OnePublisherMoves
    <2>1. PICK m \in Publishers : publisher' = [publisher EXCEPT ![m] = publisher'[m]]
                                  /\ PublisherMove(m)
        BY <1>8 DEF OnePublisherMoves
    <2>2. \A x \in Publishers : x # m => publisher'[x] = publisher[x]
        BY <1>1, <2>1
    <2>3. CASE m = p
        <3>1. Kept(q)
            BY <1>2, <2>2, <2>3
        <3>2. CASE Commits(p)
            <4>1. Number(q) < Count(q)
                BY <1>5, <3>1, <3>2
            <4> QED
                BY <4>1
        <3> QED
            BY <1>3, <1>6, <2>1, <2>3, <3>1, <3>2
    <2>4. CASE m = q
        <3>1. Kept(p)
            BY <1>2, <2>2, <2>4
        <3>2. CASE Commits(q)
            BY <1>5, <3>1, <3>2
        <3> QED
            BY <1>3, <1>6, <2>1, <2>4, <3>1, <3>2
    <2>5. CASE m # p /\ m # q
        BY <1>2, <1>6, <2>2, <2>5
    <2> QED
        BY <2>3, <2>4, <2>5
<1> QED
    BY <1>7, <1>8, PublisherMoves

\* A message is in the broker before any publisher or sweep can mark the row.
LEMMA SentStep ==
    ASSUME Core, SentInv, [Next]_vars
    PROVE  SentInv'
<1>1. /\ publisher \in [Publishers -> PublisherState]
      /\ sweep \in [Sweeps -> SweepState]
      /\ outbox \in [Executions -> OutboxRow]
      /\ sent \in [Executions -> Nat]
      /\ \A e \in Executions : sent'[e] \in Nat /\ sent'[e] >= sent[e]
    BY SentGrows DEF Core, TypeOK
<1>2. ASSUME NEW e \in Executions, sent[e] > 0 PROVE sent'[e] > 0
    BY <1>1, <1>2
<1>3. ASSUME NEW e \in Executions, sent' = [sent EXCEPT ![e] = @ + 1] PROVE sent'[e] > 0
    BY <1>1, <1>3
<1>4. ASSUME NEW e \in Executions, outbox'[e].state = "PUBLISHED"
      PROVE  sent'[e] > 0
    <2>1. CASE outbox'[e] = outbox[e]
        BY <1>2, <1>4, <2>1 DEF SentInv
    <2>2. CASE RowMove(e)
        <3>1. outbox[e] \in OutboxRow
            BY <1>1
        <3>2. CASE Timed(e)
            BY <1>4, <3>1, <3>2 DEF Timed, OutboxRow
        <3>3. CASE Marked(e)
            <4>1. \E p \in Publishers : publisher[p].stage = "sent" /\ publisher[p].execution = e
                BY <1>4, <3>1, <3>3 DEF Marked, OutboxRow
            <4> QED
                BY <1>2, <4>1 DEF SentInv
        <3>4. CASE Released(e) \/ Claimed(e)
            BY <1>4, <3>1, <3>4 DEF Released, Claimed, OutboxRow
        <3>5. CASE Swept(e)
            <4>1. \E s \in Sweeps : sweep[s].stage = "sent" /\ sweep[s].execution = e
                BY <1>4, <3>1, <3>5 DEF Swept, OutboxRow
            <4> QED
                BY <1>2, <4>1 DEF SentInv
        <3> QED
            BY <2>2, <3>2, <3>3, <3>4, <3>5 DEF RowMove
    <2>3. outbox'[e] = outbox[e] \/ RowMove(e)
        BY <1>1, RowMoves DEF OneRowMoves
    <2> QED
        BY <2>1, <2>2, <2>3
<1>5. ASSUME NEW p \in Publishers, publisher'[p].stage = "sent"
      PROVE  sent'[publisher'[p].execution] > 0
    <2>1. publisher[p] \in PublisherState
        BY <1>1
    <2>2. CASE publisher'[p] = publisher[p]
        <3>1. publisher[p].execution \in Executions /\ sent[publisher[p].execution] > 0
            BY <1>5, <2>2 DEF Core, ClaimInv, SentInv
        <3> QED
            BY <1>2, <2>2, <3>1
    <2>3. CASE Calls(p)
        <3>1. /\ publisher[p].stage = "publishing"
              /\ publisher'[p].execution = publisher[p].execution
              /\ sent' = [sent EXCEPT ![publisher[p].execution] = @ + 1]
            BY <1>5, <2>1, <2>3 DEF Calls, PublisherState
        <3>2. publisher[p].execution \in Executions
            BY <3>1 DEF Core, ClaimInv
        <3> QED
            BY <1>3, <3>1, <3>2
    <2>4. publisher'[p] = publisher[p] \/ PublisherMove(p)
        BY <1>1, PublisherMoves DEF OnePublisherMoves
    <2>5. CASE publisher'[p] = IdlePublisher
        BY <1>5, <2>5 DEF IdlePublisher
    <2>6. CASE Reads(p)
        BY <1>5, <2>6 DEF Reads
    <2>7. CASE Commits(p)
        BY <1>5, <2>7 DEF Commits
    <2> QED
        BY <2>2, <2>3, <2>4, <2>5, <2>6, <2>7 DEF PublisherMove
<1>6. ASSUME NEW s \in Sweeps, sweep'[s].stage = "sent"
      PROVE  sent'[sweep'[s].execution] > 0
    <2>1. sweep[s] \in SweepState
        BY <1>1
    <2>2. CASE sweep'[s] = sweep[s]
        <3>1. sweep[s].execution \in Executions /\ sent[sweep[s].execution] > 0
            BY <1>6, <2>2 DEF Core, LockInv, SentInv
        <3> QED
            BY <1>2, <2>2, <3>1
    <2>3. CASE Sends(s)
        <3>1. /\ sweep[s].stage = "holding"
              /\ sweep'[s].execution = sweep[s].execution
              /\ sent' = [sent EXCEPT ![sweep[s].execution] = @ + 1]
            BY <1>6, <2>1, <2>3 DEF Sends, SweepState
        <3>2. sweep[s].execution \in Executions
            BY <3>1 DEF Core, LockInv
        <3> QED
            BY <1>3, <3>1, <3>2
    <2>4. sweep'[s] = sweep[s] \/ SweepMove(s)
        BY <1>1, SweepMoves DEF OneSweepMoves
    <2>5. CASE sweep'[s] = IdleSweep
        BY <1>6, <2>5 DEF IdleSweep
    <2>6. CASE Lists(s)
        BY <1>6, <2>6 DEF Lists
    <2>7. CASE Locks(s)
        BY <1>6, <2>1, <2>7 DEF Locks, SweepState
    <2> QED
        BY <2>2, <2>3, <2>4, <2>5, <2>6, <2>7 DEF SweepMove
<1> QED
    BY <1>4, <1>5, <1>6 DEF SentInv

\* Outside ingress only the requeue of a failed row makes it PENDING again with a
\* trace, and it checks the budget.
LEMMA SweptStep ==
    ASSUME Core, SweptInv, [Next]_vars
    PROVE  SweptInv'
<1>1. outbox \in [Executions -> OutboxRow]
    BY DEF Core, TypeOK
<1> SUFFICES ASSUME NEW e \in Executions \ Ingress
             PROVE  /\ outbox'[e].state = "PUBLISHING" => ~outbox'[e].recovered
                    /\ outbox'[e].state = "PENDING" /\ outbox'[e].recovered
                           => outbox'[e].count < MaxPublishAttempts
    BY DEF SweptInv
<1>2. outbox[e] \in OutboxRow
    BY <1>1
<1>3. /\ outbox[e].state = "PUBLISHING" => ~outbox[e].recovered
      /\ outbox[e].state = "PENDING" /\ outbox[e].recovered
             => outbox[e].count < MaxPublishAttempts
    BY DEF SweptInv
<1>4. CASE outbox'[e] = outbox[e]
    BY <1>3, <1>4
<1>5. CASE Timed(e)
    BY <1>2, <1>3, <1>5 DEF Timed, OutboxRow
<1>6. CASE Marked(e)
    BY <1>2, <1>6 DEF Marked, OutboxRow
<1>7. CASE Released(e)
    BY <1>2, <1>3, <1>7 DEF Released, OutboxRow
<1>8. CASE Claimed(e)
    <2>1. outbox[e].state = "ABSENT"
        BY <1>8 DEF Claimed
    <2>2. ~outbox[e].recovered
        BY <2>1 DEF Core, RowInv
    <2> QED
        BY <1>2, <1>8, <2>2 DEF Claimed, OutboxRow
<1>9. CASE Swept(e)
    BY <1>2, <1>9 DEF Swept, OutboxRow
<1> QED
    BY <1>1, <1>4, <1>5, <1>6, <1>7, <1>8, <1>9, RowMoves DEF OneRowMoves, RowMove

-----------------------------------------------------------------------------
(* Accounts: every message is paid for with an attempt, before or after it is sent *)

\* A finite set that gains or loses one member.
LEMMA OneMemberMoves ==
    ASSUME NEW S, NEW T, NEW x, IsFiniteSet(S), T \cup {x} = S \cup {x}
    PROVE  /\ IsFiniteSet(T)
           /\ Cardinality(S) \in Nat /\ Cardinality(T) \in Nat
           /\ (x \in S <=> x \in T) => Cardinality(T) = Cardinality(S)
           /\ x \in S /\ x \notin T => Cardinality(S) = Cardinality(T) + 1
           /\ x \notin S /\ x \in T => Cardinality(T) = Cardinality(S) + 1
<1>1. Cardinality(S) \in Nat
    BY FS_CardinalityType
<1>2. CASE x \in S <=> x \in T
    <2>1. T = S
        BY <1>2
    <2> QED
        BY <1>1, <1>2, <2>1
<1>3. CASE x \in S /\ x \notin T
    <2>1. T = S \ {x}
        BY <1>3
    <2>2. IsFiniteSet(T) /\ Cardinality(T) = Cardinality(S) - 1
        BY <1>3, <2>1, FS_RemoveElement
    <2>3. Cardinality(T) \in Nat
        BY <2>2, FS_CardinalityType
    <2> QED
        BY <1>1, <1>3, <2>2, <2>3
<1>4. CASE x \notin S /\ x \in T
    <2>1. T = S \cup {x}
        BY <1>4
    <2>2. IsFiniteSet(T) /\ Cardinality(T) = Cardinality(S) + 1
        BY <1>4, <2>1, FS_AddElement
    <2> QED
        BY <1>1, <1>4, <2>2
<1> QED
    BY <1>2, <1>3, <1>4

\* What the accounts are made of.
LEMMA AccountTypes ==
    ASSUME Core, [Next]_vars, NEW e \in Executions
    PROVE  /\ sent[e] \in Nat /\ sent'[e] \in Nat
           /\ outbox[e].count \in Nat /\ outbox'[e].count \in Nat
           /\ outbox'[e].count >= outbox[e].count
           /\ rolledBack[e] \in Nat /\ rolledBack'[e] \in Nat
<1>1. /\ sent[e] \in Nat /\ outbox[e].count \in Nat /\ rolledBack[e] \in Nat
    BY DEF Core, TypeOK, OutboxRow
<1>2. sent'[e] \in Nat
    BY SentGrows
<1>3. outbox'[e].count \in Nat /\ outbox'[e].count >= outbox[e].count
    BY RowsOnlyGrow DEF OutboxRow
<1>4. rolledBack'[e] \in Nat
    BY TypesStep DEF TypeOK
<1> QED
    BY <1>1, <1>2, <1>3, <1>4

\* A publisher pays with the count that its claim raises, and spends what it paid
\* with its one broker call.
LEMMA PublisherKeepsBalance ==
    ASSUME Core, [Next]_vars, NEW e \in Executions, Balanced(e), NEW p \in Publishers,
           publisher' = [publisher EXCEPT ![p] = publisher'[p]],
           UNCHANGED <<sweep, rolledBack>>,
           p \in Paid(e)' => outbox'[e].count = outbox[e].count + 1 /\ sent'[e] = sent[e],
           p \notin Paid(e) => sent'[e] = sent[e],
           sent'[e] <= sent[e] + 1
    PROVE  Balanced(e)'
<1>1. publisher \in [Publishers -> PublisherState]
    BY DEF Core, TypeOK
<1>2. Paid(e)' \cup {p} = Paid(e) \cup {p}
    BY <1>1 DEF Paid
<1>3. Unpaid(e)' = Unpaid(e)
    BY DEF Unpaid
<1>4. IsFiniteSet(Paid(e)) /\ IsFiniteSet(Unpaid(e))
    BY DEF Balanced
<1> DEFINE paid == Cardinality(Paid(e))
           unpaid == Cardinality(Unpaid(e))
           paid2 == Cardinality(Paid(e)')
<1>5. /\ IsFiniteSet(Paid(e)')
      /\ paid \in Nat /\ paid2 \in Nat
      /\ (p \in Paid(e) <=> p \in Paid(e)') => paid2 = paid
      /\ p \in Paid(e) /\ p \notin Paid(e)' => paid = paid2 + 1
      /\ p \notin Paid(e) /\ p \in Paid(e)' => paid2 = paid + 1
    BY <1>2, <1>4, OneMemberMoves
<1>6. unpaid \in Nat
    BY <1>4, FS_CardinalityType
<1>7. sent[e] + paid <= outbox[e].count + rolledBack[e] + unpaid
    BY DEF Balanced
<1>8. sent'[e] + paid2 <= outbox'[e].count + rolledBack[e] + unpaid
    <2> HIDE DEF paid, paid2, unpaid
    <2> QED
        BY <1>5, <1>6, <1>7, AccountTypes
<1> QED
    BY <1>3, <1>4, <1>5, <1>8 DEF Balanced

\* A sweep pays after its broker call: with the count when it commits, and else its
\* transaction is one that was lost.
LEMMA SweepKeepsBalance ==
    ASSUME Core, [Next]_vars, NEW e \in Executions, Balanced(e), NEW s \in Sweeps,
           sweep' = [sweep EXCEPT ![s] = sweep'[s]],
           UNCHANGED publisher,
           rolledBack'[e] >= rolledBack[e],
           s \in Unpaid(e) => /\ sent'[e] = sent[e]
                              /\ outbox'[e].count + rolledBack'[e]
                                     >= outbox[e].count + rolledBack[e] + 1,
           s \notin Unpaid(e)' => sent'[e] = sent[e],
           sent'[e] <= sent[e] + 1
    PROVE  Balanced(e)'
<1>1. sweep \in [Sweeps -> SweepState]
    BY DEF Core, TypeOK
<1>2. Unpaid(e)' \cup {s} = Unpaid(e) \cup {s}
    BY <1>1 DEF Unpaid
<1>3. Paid(e)' = Paid(e)
    BY DEF Paid
<1>4. IsFiniteSet(Paid(e)) /\ IsFiniteSet(Unpaid(e))
    BY DEF Balanced
<1> DEFINE paid == Cardinality(Paid(e))
           unpaid == Cardinality(Unpaid(e))
           unpaid2 == Cardinality(Unpaid(e)')
<1>5. /\ IsFiniteSet(Unpaid(e)')
      /\ unpaid \in Nat /\ unpaid2 \in Nat
      /\ (s \in Unpaid(e) <=> s \in Unpaid(e)') => unpaid2 = unpaid
      /\ s \in Unpaid(e) /\ s \notin Unpaid(e)' => unpaid = unpaid2 + 1
      /\ s \notin Unpaid(e) /\ s \in Unpaid(e)' => unpaid2 = unpaid + 1
    BY <1>2, <1>4, OneMemberMoves
<1>6. paid \in Nat
    BY <1>4, FS_CardinalityType
<1>7. sent[e] + paid <= outbox[e].count + rolledBack[e] + unpaid
    BY DEF Balanced
<1>8. sent'[e] + paid <= outbox'[e].count + rolledBack'[e] + unpaid2
    <2> HIDE DEF paid, unpaid2, unpaid
    <2> QED
        BY <1>5, <1>6, <1>7, AccountTypes
<1> QED
    BY <1>3, <1>4, <1>5, <1>8 DEF Balanced

\* The accounts of every row stay balanced.
LEMMA AccountStep ==
    ASSUME Core, AccountInv, [Next]_vars
    PROVE  AccountInv'
<1> SUFFICES ASSUME NEW e \in Executions PROVE Balanced(e)'
    BY DEF AccountInv
<1>1. /\ publisher \in [Publishers -> PublisherState]
      /\ sweep \in [Sweeps -> SweepState]
      /\ outbox \in [Executions -> OutboxRow]
      /\ sent \in [Executions -> Nat]
      /\ rolledBack \in [Executions -> 0 .. RollbackBound]
    BY DEF Core, TypeOK
<1>2. /\ Balanced(e)
      /\ sent[e] \in Nat /\ sent'[e] \in Nat
      /\ outbox[e].count \in Nat /\ outbox'[e].count \in Nat
      /\ outbox'[e].count >= outbox[e].count
      /\ rolledBack[e] \in Nat /\ rolledBack'[e] \in Nat
    BY AccountTypes DEF AccountInv
<1>3. ASSUME NEW x \in Executions, sent' \in {sent, [sent EXCEPT ![x] = @ + 1]}
      PROVE  sent'[e] <= sent[e] + 1 /\ (x # e => sent'[e] = sent[e])
    BY <1>1, <1>2, <1>3
<1>4. ASSUME NEW p \in Publishers, NEW x \in Executions, NEW claim,
             CommitClaim(p, x, claim), UNCHANGED <<sweep, sent, rolledBack>>
      PROVE  Balanced(e)'
    <2>1. CASE /\ outbox' = [outbox EXCEPT ![x].state = "PUBLISHING", ![x].claim = claim,
                                           ![x].count = @ + 1, ![x].lease = "running"]
               /\ publisher' = [publisher EXCEPT ![p] =
                      [stage |-> "publishing", execution |-> x, claim |-> claim]]
        <3>1. publisher' = [publisher EXCEPT ![p] = publisher'[p]] /\ publisher'[p].execution = x
            BY <1>1, <2>1
        <3>2. x = e => outbox'[e].count = outbox[e].count + 1
            BY <1>1, <2>1 DEF OutboxRow
        <3>3. p \in Paid(e)' => x = e
            BY <3>1 DEF Paid
        <3> QED
            BY <1>2, <1>4, <3>1, <3>2, <3>3, PublisherKeepsBalance
    <2>2. CASE publisher' = [publisher EXCEPT ![p] = IdlePublisher]
        <3>1. publisher' = [publisher EXCEPT ![p] = publisher'[p]] /\ p \notin Paid(e)'
            BY <1>1, <2>2 DEF Paid, IdlePublisher
        <3> QED
            BY <1>2, <1>4, <3>1, PublisherKeepsBalance
    <2> QED
        BY <1>4, <2>1, <2>2 DEF CommitClaim
<1>5. ASSUME NEW p \in Publishers, Dispatch(p) PROVE Balanced(e)'
    <2>1. CASE \E x \in Executions : RequestExecution(p, x)
        BY <1>4, <2>1 DEF RequestExecution
    <2>2. CASE ClaimPending(p)
        <3>1. publisher[p].execution \in Executions
            BY <2>2 DEF Core, ClaimInv, ClaimPending
        <3>2. CASE CommitClaim(p, publisher[p].execution, publisher[p].claim)
            BY <1>4, <2>2, <3>1, <3>2 DEF ClaimPending
        <3>3. CASE publisher' = [publisher EXCEPT ![p] = IdlePublisher]
            <4>1. publisher' = [publisher EXCEPT ![p] = publisher'[p]] /\ p \notin Paid(e)'
                BY <1>1, <3>3 DEF Paid, IdlePublisher
            <4> QED
                BY <1>2, <2>2, <4>1, PublisherKeepsBalance DEF ClaimPending
        <3> QED
            BY <2>2, <3>2, <3>3 DEF ClaimPending
    <2>3. CASE \E x \in Executions : ReadPending(p, x)
        <3>1. publisher' = [publisher EXCEPT ![p] = publisher'[p]] /\ p \notin Paid(e)'
            BY <1>1, <2>3 DEF Paid, ReadPending
        <3>2. UNCHANGED <<outbox, sweep, sent, rolledBack>>
            BY <2>3 DEF ReadPending
        <3> QED
            BY <1>2, <3>1, <3>2, PublisherKeepsBalance
    <2>4. CASE PublishExecution(p)
        <3> DEFINE x == publisher[p].execution
        <3>1. x \in Executions
            BY <2>4 DEF Core, ClaimInv, PublishExecution
        <3>2. PICK stage \in {"sent", "raised"} :
                  /\ publisher' = [publisher EXCEPT ![p].stage = stage]
                  /\ BrokerCall(x, stage = "sent", stage = "raised")
            BY <2>4 DEF PublishExecution
        <3>3. publisher' = [publisher EXCEPT ![p] = publisher'[p]] /\ p \notin Paid(e)'
            BY <1>1, <3>2 DEF Paid, PublisherState
        <3>4. sent' \in {sent, [sent EXCEPT ![x] = @ + 1]}
            BY <3>2 DEF BrokerCall
        <3>5. sent'[e] <= sent[e] + 1 /\ (x # e => sent'[e] = sent[e])
            BY <1>3, <3>1, <3>4
        <3>6. x = e => p \in Paid(e)
            BY <2>4 DEF Paid, PublishExecution
        <3> QED
            BY <1>2, <2>4, <3>3, <3>5, <3>6, PublisherKeepsBalance DEF PublishExecution
    <2>5. CASE MarkPublished(p) \/ MarkFailed(p) \/ CrashPublisher(p)
        <3>1. /\ publisher' = [publisher EXCEPT ![p] = IdlePublisher]
              /\ UNCHANGED <<sweep, sent, rolledBack>>
            BY <2>5 DEF MarkPublished, MarkFailed, CrashPublisher
        <3>2. publisher' = [publisher EXCEPT ![p] = publisher'[p]] /\ p \notin Paid(e)'
            BY <1>1, <3>1 DEF Paid, IdlePublisher
        <3>3. sent'[e] = sent[e] /\ sent'[e] <= sent[e] + 1
            BY <1>2, <3>1
        <3> QED
            BY <1>2, <3>1, <3>2, <3>3, PublisherKeepsBalance
    <2> QED
        BY <1>5, <2>1, <2>2, <2>3, <2>4, <2>5 DEF Dispatch
<1>6. ASSUME NEW s \in Sweeps, NEW x \in Executions, ListStuckPending(s, x)
      PROVE  Balanced(e)'
    <2>1. sweep' = [sweep EXCEPT ![s] = sweep'[s]] /\ s \notin Unpaid(e)
        BY <1>1, <1>6 DEF Unpaid, ListStuckPending
    <2>2. /\ UNCHANGED publisher
          /\ sent'[e] = sent[e] /\ rolledBack'[e] = rolledBack[e]
        BY <1>6 DEF ListStuckPending
    <2>3. sent'[e] <= sent[e] + 1 /\ rolledBack'[e] >= rolledBack[e]
        BY <1>2, <2>2
    <2> QED
        BY <1>2, <2>1, <2>2, <2>3, SweepKeepsBalance
<1>7. ASSUME NEW s \in Sweeps, SweepStep(s) PROVE Balanced(e)'
    <2> DEFINE x == sweep[s].execution
    <2>1. x \in Executions
        BY <1>7 DEF Core, LockInv, SweepStep, ClaimStuckPending, PublishStuckPending,
                    CommitStuckPending
    <2>2. CASE ClaimStuckPending(s)
        <3>1. sweep' = [sweep EXCEPT ![s] = sweep'[s]] /\ s \notin Unpaid(e)
            BY <1>1, <2>2 DEF Unpaid, ClaimStuckPending
        <3>2. /\ UNCHANGED publisher
              /\ sent'[e] = sent[e] /\ rolledBack'[e] = rolledBack[e]
            BY <2>2 DEF ClaimStuckPending
        <3>3. sent'[e] <= sent[e] + 1 /\ rolledBack'[e] >= rolledBack[e]
            BY <1>2, <3>2
        <3> QED
            BY <1>2, <3>1, <3>2, <3>3, SweepKeepsBalance
    <2>3. CASE PublishStuckPending(s)
        <3>1. PICK stage \in {"sent", "raised"} :
                  /\ sweep' = [sweep EXCEPT ![s].stage = stage]
                  /\ sent' \in {sent, [sent EXCEPT ![x] = @ + 1]}
            BY <2>3 DEF PublishStuckPending, BrokerCall
        <3>2. sweep' = [sweep EXCEPT ![s] = sweep'[s]] /\ s \notin Unpaid(e)
            BY <1>1, <2>3, <3>1 DEF Unpaid, PublishStuckPending
        <3>3. x = e => s \in Unpaid(e)'
            BY <1>1, <3>1 DEF Unpaid, SweepState
        <3>4. sent'[e] <= sent[e] + 1 /\ (x # e => sent'[e] = sent[e])
            BY <1>3, <2>1, <3>1
        <3>5. UNCHANGED publisher /\ rolledBack'[e] >= rolledBack[e]
            BY <1>2, <2>3 DEF PublishStuckPending
        <3> HIDE DEF x
        <3> QED
            BY <1>2, <3>2, <3>3, <3>4, <3>5, SweepKeepsBalance
    <2>4. CASE CommitStuckPending(s)
        <3>1. sweep' = [sweep EXCEPT ![s] = sweep'[s]]
            BY <1>1, <2>4 DEF CommitStuckPending
        <3>2. x = e => outbox'[e].count = outbox[e].count + 1
            BY <1>1, <2>1, <2>4 DEF CommitStuckPending, OutboxRow
        <3>3. s \in Unpaid(e) => x = e
            BY DEF Unpaid
        <3>4. /\ UNCHANGED publisher
              /\ sent'[e] = sent[e] /\ rolledBack'[e] = rolledBack[e]
            BY <2>4 DEF CommitStuckPending
        <3>5. /\ sent'[e] <= sent[e] + 1 /\ rolledBack'[e] >= rolledBack[e]
              /\ s \in Unpaid(e) => outbox'[e].count + rolledBack'[e]
                                        >= outbox[e].count + rolledBack[e] + 1
            BY <1>2, <3>2, <3>3, <3>4
        <3> QED
            BY <1>2, <3>1, <3>4, <3>5, SweepKeepsBalance
    <2> QED
        BY <1>7, <2>2, <2>3, <2>4 DEF SweepStep
<1>8. ASSUME NEW s \in Sweeps, RollBackSweep(s) PROVE Balanced(e)'
    <2> DEFINE x == sweep[s].execution
    <2>1. x \in Executions /\ sweep' = [sweep EXCEPT ![s] = sweep'[s]]
        BY <1>1, <1>8 DEF Core, LockInv, RollBackSweep
    <2>2. rolledBack' = [rolledBack EXCEPT ![x] = @ + 1]
        BY <1>8 DEF RollBackSweep
    <2>3. rolledBack'[e] >= rolledBack[e] /\ (x = e => rolledBack'[e] = rolledBack[e] + 1)
        BY <1>1, <1>2, <2>1, <2>2
    <2>4. s \in Unpaid(e) => x = e
        BY DEF Unpaid
    <2>5. /\ UNCHANGED publisher
          /\ sent'[e] = sent[e] /\ outbox'[e] = outbox[e]
        BY <1>8 DEF RollBackSweep
    <2>6. /\ sent'[e] <= sent[e] + 1
          /\ s \in Unpaid(e) => outbox'[e].count + rolledBack'[e]
                                    >= outbox[e].count + rolledBack[e] + 1
        BY <1>2, <2>3, <2>4, <2>5
    <2> QED
        BY <1>2, <2>1, <2>3, <2>5, <2>6, SweepKeepsBalance
<1>9. CASE UNCHANGED vars \/ \E x \in Executions : Reconcile(x) \/ SettleExecution(x)
    <2>1. UNCHANGED <<publisher, sweep, sent, rolledBack>>
        BY <1>9 DEF vars, Reconcile, LeaseExpires, CooldownEnds, RequeueStale, RequeueFailed,
                    SettleExecution
    <2>2. Paid(e)' = Paid(e) /\ Unpaid(e)' = Unpaid(e)
        BY <2>1 DEF Paid, Unpaid
    <2>3. Cardinality(Paid(e)) \in Nat /\ Cardinality(Unpaid(e)) \in Nat
        BY <1>2, FS_CardinalityType DEF Balanced
    <2> QED
        BY <1>2, <2>1, <2>2, <2>3 DEF Balanced
<1> QED
    BY <1>5, <1>6, <1>7, <1>8, <1>9 DEF Next

\* The invariant is inductive.
LEMMA NextInv ==
    ASSUME IInv, [Next]_vars
    PROVE  IInv'
    BY CoreStep, EqualClaimsStep, SentStep, SweptStep, AccountStep DEF IInv

-----------------------------------------------------------------------------
(* The theorems *)

\* The inductive invariant holds in every reachable state.
THEOREM OutboxInvariant == Spec => []IInv
<1>1. IInv /\ [Next]_vars => IInv'
    BY NextInv
<1> QED
    BY InitInv, <1>1, PTL DEF Spec

\* Rows, processes and the history keep their types: publish_attempt_count stays
\* within the budget of dispatch and one sweep more.
THEOREM TypesHold == Spec => []TypeOK
    BY OutboxInvariant, PTL DEF IInv, Core

\* A row is marked PUBLISHED, by mark_outbox_published or by a sweep's commit, only
\* after the broker has accepted a message for its execution.
THEOREM PublishedIsSent == Spec => []PublishedWasSent
<1>1. IInv => PublishedWasSent
    BY DEF IInv, SentInv, PublishedWasSent
<1> QED
    BY OutboxInvariant, <1>1, PTL

\* publish_attempt_count accounts for every message in the broker, except for the
\* sweeps whose transaction was lost after their broker call.
THEOREM SendsAreAccounted == Spec => []SendsAreCounted
<1>1. ASSUME IInv PROVE SendsAreCounted
    <2> SUFFICES ASSUME NEW e \in Executions
                 PROVE  sent[e] <= outbox[e].count + rolledBack[e] + Cardinality(Unpaid(e))
        BY DEF SendsAreCounted, Unpaid
    <2>1. /\ sent[e] \in Nat /\ outbox[e].count \in Nat /\ rolledBack[e] \in Nat
          /\ Balanced(e)
        BY <1>1 DEF IInv, Core, TypeOK, OutboxRow, AccountInv
    <2>2. Cardinality(Paid(e)) \in Nat /\ Cardinality(Unpaid(e)) \in Nat
        BY <2>1, FS_CardinalityType DEF Balanced
    <2> QED
        BY <2>1, <2>2 DEF Balanced
<1> QED
    BY OutboxInvariant, <1>1, PTL

\* Two processes that share a publisher_id hold one claim only if it was derived from
\* a count that the row has passed: claim_outbox_for_execution raises the count.
THEOREM ClaimsAreExclusive == Spec => []FreshClaimIsExclusive
<1>1. ASSUME IInv PROVE FreshClaimIsExclusive
    <2> SUFFICES ASSUME NEW p \in Publishers, NEW q \in Publishers, p # q,
                        publisher[p].stage \in {"publishing", "sent", "raised"},
                        publisher[q].stage \in {"publishing", "sent", "raised"},
                        publisher[q].execution = publisher[p].execution,
                        outbox[publisher[p].execution].claim[2]
                            = outbox[publisher[p].execution].count,
                        Holds(p), Holds(q)
                 PROVE  FALSE
        BY DEF FreshClaimIsExclusive
    <2>1. publisher[p].execution \in Executions
        BY <1>1 DEF IInv, Core, ClaimInv
    <2>2. outbox[publisher[p].execution].count \in Nat
        BY <1>1, <2>1 DEF IInv, Core, TypeOK, OutboxRow
    <2>3. /\ publisher[p].claim = outbox[publisher[p].execution].claim
          /\ publisher[q].claim = outbox[publisher[p].execution].claim
        BY DEF Holds
    <2>4. publisher[p].claim[2] < outbox[publisher[p].execution].count
        BY <1>1, <2>3 DEF IInv, EqualClaimsAreOld, Claiming
    <2> QED
        BY <2>2, <2>3, <2>4
<1> QED
    BY OutboxInvariant, <1>1, PTL

StaysPublished == \A e \in Executions : outbox[e].state = "PUBLISHED" => outbox'[e] = outbox[e]

\* A published row is never claimed, failed or requeued again, whichever publisher or
\* sweep still holds an older view of it.
THEOREM PublishedStaysFinal == Spec => PublishedIsFinal
<1>1. ASSUME IInv, [Next]_vars PROVE StaysPublished
    <2> SUFFICES ASSUME NEW e \in Executions, outbox[e].state = "PUBLISHED", RowMove(e)
                 PROVE  FALSE
        <3>1. outbox \in [Executions -> OutboxRow]
            BY <1>1 DEF IInv, Core, TypeOK
        <3> QED
            BY <1>1, <3>1, RowMoves DEF IInv, StaysPublished, OneRowMoves
    <2>1. ~Swept(e)
        <3> SUFFICES ASSUME Swept(e) PROVE FALSE
            OBVIOUS
        <3>1. PICK s \in Sweeps : sweep[s].execution = e /\ sweep[s].stage \in {"sent", "raised"}
            BY DEF Swept
        <3> QED
            BY <1>1, <3>1 DEF IInv, Core, LockInv, Locking
    <2> QED
        BY <2>1 DEF RowMove, Timed, Marked, Released, Claimed
<1>2. IInv /\ [Next]_vars => [StaysPublished]_vars
    BY <1>1
<1> QED
    BY OutboxInvariant, <1>2, PTL DEF Spec, PublishedIsFinal, StaysPublished

SendsWithinBudget ==
    \A s \in Sweeps :
        /\ sweep[s].stage = "holding"
        /\ sweep[s].execution \notin Ingress
        /\ sweep' # sweep /\ sent' # sent
        => outbox[sweep[s].execution].count < MaxPublishAttempts

\* Where only the sweeps publish again, a sweep never sends for a row whose committed
\* attempts have spent max_publish_attempts, although it checked the count it listed.
THEOREM SweepsStayInBudget == Spec => SweepsKeepBudget
<1>1. ASSUME IInv PROVE SendsWithinBudget
    <2> SUFFICES ASSUME NEW s \in Sweeps, sweep[s].stage = "holding",
                        sweep[s].execution \notin Ingress
                 PROVE  outbox[sweep[s].execution].count < MaxPublishAttempts
        BY DEF SendsWithinBudget
    <2>1. /\ sweep[s].execution \in Executions
          /\ outbox[sweep[s].execution].recovered
          /\ outbox[sweep[s].execution].state = "PENDING"
        BY <1>1 DEF IInv, Core, LockInv, Locking
    <2> QED
        BY <1>1, <2>1 DEF IInv, SweptInv
<1>2. IInv /\ [Next]_vars => [SendsWithinBudget]_vars
    BY <1>1
<1> QED
    BY OutboxInvariant, <1>2, PTL DEF Spec, SweepsKeepBudget, SendsWithinBudget

=============================================================================
