------------------------- MODULE OutboundSendProofs -------------------------
(***************************************************************************)
(* Theorems of OutboundSend, for every number of replies, workers,         *)
(* operators, reconcilers and tasks, and every attempt budget.             *)
(*                                                                         *)
(* SentIsTrue rests on the evidence that a process or a row carries        *)
(* (EvidenceInv); DuplicateNeedsRetry on the ledger row, which admits one  *)
(* first sender (FirstSendInv).  Neither needs the outbox to be exclusive. *)
(***************************************************************************)
EXTENDS OutboundSend, TLAPS

-----------------------------------------------------------------------------
(* The inductive invariant *)

\* TypeOK without its bound on the attempt count, which is left to TLC.
Row ==
    [status : {"absent", "pending", "claimed", "sent", "dead_lettered",
               "needs_reconciliation"},
     claim : ClaimIds \cup {<<>>}, count : Nat, due : BOOLEAN,
     stale : BOOLEAN, attempted : BOOLEAN, evidence : BOOLEAN]

RowTypes == outbox \in [Replies -> Row]

\* A busy process works on a reply.
SenderTypes ==
    /\ sender \in [Senders -> SenderState]
    /\ \A p \in Senders : sender[p].stage # "idle" => sender[p].reply \in Replies

LedgerTypes ==
    /\ delivery \in [Replies -> DeliveryStates]
    /\ accepted \in [Replies -> Nat]
    /\ lapse \in [Replies -> SUBSET Lapses]

\* A listed row has a verdict.
SweepTypes ==
    /\ sweep \in [Sweeps -> SweepState]
    /\ \A s \in Sweeps : sweep[s].reply # None => sweep[s].verdict # "none"

Types == RowTypes /\ SenderTypes /\ LedgerTypes /\ SweepTypes

\* Whoever can still report the message as sent, the provider has accepted it.
EvidenceInv ==
    /\ \A d \in Replies :
           outbox[d].status = "sent" \/ outbox[d].evidence \/ delivery[d] = "sent"
               => accepted[d] > 0
    /\ \A p \in Senders :
           sender[p].stage \in {"accepted", "delivered", "marking"}
               => accepted[sender[p].reply] > 0

\* Before any retry, one process at most is about to call the provider, nobody
\* has called it, and the ledger row has been taken.
FirstSendInv ==
    \A d \in Replies : "retried" \notin lapse[d] =>
        /\ accepted[d] <= 1
        /\ delivery[d] = "absent" => accepted[d] = 0
        /\ \A p \in Senders : sender[p].stage = "sending" /\ sender[p].reply = d =>
               /\ accepted[d] = 0
               /\ delivery[d] # "absent"
               /\ \A q \in Senders :
                      sender[q].stage = "sending" /\ sender[q].reply = d => q = p

IInv == Types /\ EvidenceInv /\ FirstSendInv

-----------------------------------------------------------------------------
(* How processes move *)

Stages ==
    {"idle", "reading", "claimed", "preparing", "sending", "accepted", "failed",
     "rejected", "delivered", "marking", "settling"}

\* A process moves from stage to stage without changing its reply.
LEMMA AdvanceMoves ==
    ASSUME SenderTypes, NEW p \in Senders, NEW stage \in Stages, Advance(p, stage),
           sender[p].stage # "idle"
    PROVE  /\ SenderTypes'
           /\ sender'[p].stage = stage /\ sender'[p].reply = sender[p].reply
           /\ \A q \in Senders : q # p => sender'[q] = sender[q]
<1>1. sender \in [Senders -> SenderState]
    BY DEF SenderTypes
<1>2. sender' = [sender EXCEPT ![p].stage = stage]
    BY DEF Advance
<1>3. sender[p] \in SenderState
    BY <1>1
<1>4. /\ [sender[p] EXCEPT !.stage = stage] \in SenderState
      /\ [sender[p] EXCEPT !.stage = stage].stage = stage
      /\ [sender[p] EXCEPT !.stage = stage].reply = sender[p].reply
    BY <1>3 DEF SenderState, Stages
<1>5. sender'[p] = [sender[p] EXCEPT !.stage = stage]
    BY <1>1, <1>2
<1>6. \A q \in Senders : q # p => sender'[q] = sender[q]
    BY <1>1, <1>2
<1>7. sender' \in [Senders -> SenderState]
    BY <1>1, <1>2, <1>4
<1> QED
    BY <1>4, <1>5, <1>6, <1>7 DEF SenderTypes

\* A process that ends is idle.
LEMMA FinishMoves ==
    ASSUME SenderTypes, NEW p \in Senders, Finish(p)
    PROVE  /\ SenderTypes'
           /\ sender'[p].stage = "idle"
           /\ \A q \in Senders : q # p => sender'[q] = sender[q]
<1>1. IdleSender \in SenderState /\ IdleSender.stage = "idle"
    BY DEF IdleSender, SenderState
<1> QED
    BY <1>1 DEF SenderTypes, Finish

\* A failed send ends an operator's call or sends a worker to settle its row.
LEMMA FailMoves ==
    ASSUME SenderTypes, NEW p \in Senders, Fail(p), sender[p].stage # "idle"
    PROVE  /\ SenderTypes'
           /\ sender'[p].stage \in {"idle", "settling"}
           /\ \A q \in Senders : q # p => sender'[q] = sender[q]
<1>1. CASE Finish(p)
    BY <1>1, FinishMoves
<1>2. CASE Advance(p, "settling")
    BY <1>2, AdvanceMoves DEF Stages
<1> QED
    BY <1>1, <1>2 DEF Fail

-----------------------------------------------------------------------------
(* The invariant is inductive *)

\* Nothing has been sent or started.
LEMMA InitInv == Init => IInv
<1> SUFFICES ASSUME Init PROVE IInv
    OBVIOUS
<1>1. Types
    BY SendAssumption
    DEF Init, Types, RowTypes, Row, SenderTypes, LedgerTypes, SweepTypes, AbsentRow,
        IdleSender, IdleSweep, DeliveryStates, SenderState, SweepState, Lapses
<1>2. EvidenceInv
    BY DEF Init, EvidenceInv, AbsentRow, IdleSender
<1>3. FirstSendInv
    BY DEF Init, FirstSendInv, IdleSender
<1> QED
    BY <1>1, <1>2, <1>3 DEF IInv

\* An UPDATE of one row by a row of the type keeps the types.
LEMMA RowUpdate ==
    ASSUME RowTypes, NEW d, NEW row \in Row, outbox' = [outbox EXCEPT ![d] = row]
    PROVE  RowTypes'
    BY DEF RowTypes

\* Every step keeps the types of the outbox rows.
LEMMA RowStep ==
    ASSUME Types, [Next]_vars
    PROVE  RowTypes'
<1>1. ASSUME NEW d \in Replies, CreateIntent(d) PROVE RowTypes'
    <2>1. [outbox[d] EXCEPT !.status = "pending", !.due = TRUE] \in Row
        BY DEF Types, RowTypes, Row
    <2> QED
        BY <1>1, <2>1, RowUpdate DEF Types, CreateIntent
<1>2. ASSUME NEW p \in Senders, ClaimIntent(p) PROVE RowTypes'
    <2> DEFINE d == sender[p].reply
    <2>1. CASE UNCHANGED outbox
        BY <2>1 DEF Types, RowTypes
    <2>2. CASE outbox' = [outbox EXCEPT ![d] =
                   [@ EXCEPT !.status = "claimed", !.claim = sender[p].claim,
                             !.count = outbox[d].count + 1, !.stale = FALSE]]
        <3>1. outbox[d] \in Row /\ sender[p].claim \in ClaimIds \cup {<<>>}
            BY <1>2 DEF Types, RowTypes, SenderTypes, SenderState, ClaimIntent
        <3>2. outbox[d].count + 1 \in Nat
            BY <3>1 DEF Row
        <3> DEFINE row == [outbox[d] EXCEPT !.status = "claimed", !.claim = sender[p].claim,
                                            !.count = outbox[d].count + 1, !.stale = FALSE]
        <3>3. row \in Row
            BY <3>1, <3>2 DEF Row
        <3>4. outbox' = [outbox EXCEPT ![d] = row]
            BY <2>2
        <3> HIDE DEF row
        <3> QED
            BY <3>3, <3>4, RowUpdate DEF Types
    <2> QED
        BY <1>2, <2>1, <2>2 DEF ClaimIntent
<1>3. ASSUME NEW p \in Senders, MarkAttempted(p) PROVE RowTypes'
    <2>1. outbox[sender[p].reply] \in Row
        BY <1>3 DEF Types, RowTypes, SenderTypes, MarkAttempted
    <2>2. [outbox[sender[p].reply] EXCEPT !.attempted = TRUE] \in Row
        BY <2>1 DEF Row
    <2>3. CASE UNCHANGED outbox
        BY <2>3 DEF Types, RowTypes
    <2>4. CASE outbox' = [outbox EXCEPT ![sender[p].reply].attempted = TRUE]
        BY <2>2, <2>4, RowUpdate DEF Types
    <2> QED
        BY <1>3, <2>3, <2>4 DEF MarkAttempted
<1>4. ASSUME NEW p \in Senders, RecordEvidence(p) PROVE RowTypes'
    <2>1. outbox[sender[p].reply] \in Row
        BY <1>4 DEF Types, RowTypes, SenderTypes, RecordEvidence
    <2>2. [outbox[sender[p].reply] EXCEPT !.evidence = TRUE] \in Row
        BY <2>1 DEF Row
    <2>3. CASE UNCHANGED outbox
        BY <2>3 DEF Types, RowTypes
    <2>4. CASE outbox' = [outbox EXCEPT ![sender[p].reply].evidence = TRUE]
        BY <2>2, <2>4, RowUpdate DEF Types
    <2> QED
        BY <1>4, <2>3, <2>4 DEF RecordEvidence
<1>5. ASSUME NEW p \in Senders, MarkSent(p) PROVE RowTypes'
    <2>1. outbox[sender[p].reply] \in Row
        BY <1>5 DEF Types, RowTypes, SenderTypes, MarkSent
    <2>2. [outbox[sender[p].reply] EXCEPT !.status = "sent", !.evidence = TRUE] \in Row
        BY <2>1 DEF Row
    <2>3. CASE UNCHANGED outbox
        BY <2>3 DEF Types, RowTypes
    <2>4. CASE outbox' = [outbox EXCEPT ![sender[p].reply] =
                              [@ EXCEPT !.status = "sent", !.evidence = TRUE]]
        BY <2>2, <2>4, RowUpdate DEF Types
    <2> QED
        BY <1>5, <2>3, <2>4 DEF MarkSent
<1>6. ASSUME NEW p \in Senders, SettleFailure(p) PROVE RowTypes'
    <2> DEFINE d == sender[p].reply
    <2>1. outbox[d] \in Row
        BY <1>6 DEF Types, RowTypes, SenderTypes, SettleFailure
    <2>2. /\ [outbox[d] EXCEPT !.status = "dead_lettered"] \in Row
          /\ [outbox[d] EXCEPT !.status = "pending", !.claim = <<>>,
                               !.due = FALSE, !.stale = FALSE] \in Row
        BY <2>1 DEF Row
    <2>3. CASE UNCHANGED outbox
        BY <2>3 DEF Types, RowTypes
    <2>4. CASE outbox' = [outbox EXCEPT ![d].status = "dead_lettered"]
        BY <2>2, <2>4, RowUpdate DEF Types
    <2>5. CASE outbox' = [outbox EXCEPT ![d] =
                              [@ EXCEPT !.status = "pending", !.claim = <<>>,
                                        !.due = FALSE, !.stale = FALSE]]
        BY <2>2, <2>5, RowUpdate DEF Types
    <2> QED
        BY <1>6, <2>3, <2>4, <2>5 DEF SettleFailure
<1>7. ASSUME NEW d \in Replies, BecomesDue(d) PROVE RowTypes'
    <2>1. [outbox[d] EXCEPT !.due = TRUE] \in Row
        BY DEF Types, RowTypes, Row
    <2> QED
        BY <1>7, <2>1, RowUpdate DEF Types, BecomesDue
<1>8. ASSUME NEW d \in Replies, LeaseExpires(d) PROVE RowTypes'
    <2>1. [outbox[d] EXCEPT !.stale = TRUE] \in Row
        BY DEF Types, RowTypes, Row
    <2> QED
        BY <1>8, <2>1, RowUpdate DEF Types, LeaseExpires
<1>9. ASSUME NEW s \in Sweeps, ResolveStale(s) PROVE RowTypes'
    <2> DEFINE d == sweep[s].reply
    <2>1. /\ d \in Replies
          /\ sweep[s].verdict \in {"sent", "pending", "needs_reconciliation"}
        BY <1>9 DEF Types, SweepTypes, SweepState, ResolveStale
    <2>2. outbox[d] \in Row
        BY <2>1 DEF Types, RowTypes
    <2>3. /\ [outbox[d] EXCEPT !.status = sweep[s].verdict] \in Row
          /\ [outbox[d] EXCEPT !.status = sweep[s].verdict, !.claim = <<>>,
                               !.stale = FALSE] \in Row
        BY <2>1, <2>2 DEF Row
    <2>4. CASE UNCHANGED outbox
        BY <2>4 DEF Types, RowTypes
    <2>5. CASE outbox' = [outbox EXCEPT ![d].status = sweep[s].verdict]
        BY <2>3, <2>5, RowUpdate DEF Types
    <2>6. CASE outbox' = [outbox EXCEPT ![d] =
                   [@ EXCEPT !.status = sweep[s].verdict, !.claim = <<>>, !.stale = FALSE]]
        BY <2>3, <2>6, RowUpdate DEF Types
    <2> QED
        BY <1>9, <2>4, <2>5, <2>6 DEF ResolveStale
<1>10. ASSUME NEW d \in Replies, DeadLetterExhausted(d) PROVE RowTypes'
    <2>1. outbox[d] \in Row /\ outbox[d].count + 1 \in Nat
        BY DEF Types, RowTypes, Row
    <2> DEFINE row == [outbox[d] EXCEPT !.status = "dead_lettered", !.count = outbox[d].count + 1]
    <2>2. row \in Row
        BY <2>1 DEF Row
    <2>3. outbox' = [outbox EXCEPT ![d] = row]
        BY <1>10 DEF DeadLetterExhausted
    <2> HIDE DEF row
    <2> QED
        BY <2>2, <2>3, RowUpdate DEF Types
<1>11. CASE \/ UNCHANGED vars
            \/ \E p \in Senders, d \in Replies, t \in Tasks : ReadIntent(p, d, t)
            \/ \E p \in Senders, d \in Replies : SendDirectly(p, d)
            \/ \E p \in Senders :
                   \/ RefuseToSend(p)
                   \/ ReserveDelivery(p)
                   \/ ProviderAccepts(p)
                   \/ ProviderRefuses(p)
                   \/ RecordDelivery(p)
                   \/ Crash(p)
            \/ \E d \in Replies : GrowsOld(d)
            \/ \E s \in Sweeps, d \in Replies : ListStale(s, d)
    BY <1>11
    DEF vars, Types, RowTypes, ReadIntent, SendDirectly, RefuseToSend,
        ReserveDelivery, ProviderAccepts, ProviderRefuses, RecordDelivery, Crash,
        GrowsOld, ListStale
<1> QED
    BY <1>1, <1>2, <1>3, <1>4, <1>5, <1>6, <1>7, <1>8, <1>9, <1>10, <1>11
    DEF Next, Step, Deliver, Pass, Senders

\* Every step keeps the types of the processes.
LEMMA SenderStep ==
    ASSUME Types, [Next]_vars
    PROVE  SenderTypes'
<1>1. ASSUME NEW p \in Senders, NEW d \in Replies, NEW t \in Tasks, ReadIntent(p, d, t)
      PROVE  SenderTypes'
    BY <1>1 DEF Types, SenderTypes, SenderState, ClaimIds, RowTypes, Row, ReadIntent
<1>2. ASSUME NEW p \in Senders, ClaimIntent(p) PROVE SenderTypes'
    <2>1. CASE Finish(p)
        BY <2>1, FinishMoves DEF Types
    <2>2. CASE sender' = [sender EXCEPT ![p] =
                   [@ EXCEPT !.stage = "claimed", !.count = outbox[sender[p].reply].count + 1]]
        <3>1. sender[p] \in SenderState /\ sender[p].reply \in Replies
            BY <1>2 DEF Types, SenderTypes, ClaimIntent
        <3>2. outbox[sender[p].reply].count + 1 \in Nat
            BY <3>1 DEF Types, RowTypes, Row
        <3> QED
            BY <2>2, <3>1, <3>2 DEF Types, SenderTypes, SenderState
    <2> QED
        BY <1>2, <2>1, <2>2 DEF ClaimIntent
<1>3. ASSUME NEW p \in Senders, MarkAttempted(p) PROVE SenderTypes'
    BY <1>3, AdvanceMoves DEF Types, Stages, MarkAttempted
<1>4. ASSUME NEW p \in Senders, NEW d \in Replies, SendDirectly(p, d)
      PROVE  SenderTypes'
    BY <1>4 DEF Types, SenderTypes, SenderState, IdleSender, SendDirectly
<1>5. ASSUME NEW p \in Senders, RefuseToSend(p) PROVE SenderTypes'
    BY <1>5, FailMoves DEF Types, RefuseToSend
<1>6. ASSUME NEW p \in Senders, ReserveDelivery(p) PROVE SenderTypes'
    BY <1>6, AdvanceMoves, FailMoves DEF Types, Stages, ReserveDelivery
<1>7. ASSUME NEW p \in Senders, ProviderAccepts(p) PROVE SenderTypes'
    BY <1>7, AdvanceMoves DEF Types, Stages, ProviderAccepts
<1>8. ASSUME NEW p \in Senders, ProviderRefuses(p) PROVE SenderTypes'
    BY <1>8, AdvanceMoves DEF Types, Stages, ProviderRefuses
<1>9. ASSUME NEW p \in Senders, RecordDelivery(p) PROVE SenderTypes'
    BY <1>9, AdvanceMoves, FailMoves DEF Types, Stages, RecordDelivery
<1>10. ASSUME NEW p \in Senders, RecordEvidence(p) PROVE SenderTypes'
    BY <1>10, AdvanceMoves DEF Types, Stages, RecordEvidence
<1>11. ASSUME NEW p \in Senders, MarkSent(p) PROVE SenderTypes'
    BY <1>11, AdvanceMoves, FinishMoves DEF Types, Stages, MarkSent
<1>12. ASSUME NEW p \in Senders, SettleFailure(p) PROVE SenderTypes'
    BY <1>12, FinishMoves DEF Types, SettleFailure
<1>13. ASSUME NEW p \in Senders, Crash(p) PROVE SenderTypes'
    BY <1>13, FinishMoves DEF Types, Crash
<1>14. CASE \/ UNCHANGED vars
            \/ \E d \in Replies :
                   \/ CreateIntent(d)
                   \/ BecomesDue(d)
                   \/ LeaseExpires(d)
                   \/ GrowsOld(d)
                   \/ DeadLetterExhausted(d)
            \/ \E s \in Sweeps, d \in Replies : ListStale(s, d)
            \/ \E s \in Sweeps : ResolveStale(s)
    BY <1>14
    DEF vars, Types, SenderTypes, CreateIntent, BecomesDue, LeaseExpires, GrowsOld,
        ListStale, ResolveStale, DeadLetterExhausted
<1> QED
    BY <1>1, <1>2, <1>3, <1>4, <1>5, <1>6, <1>7, <1>8, <1>9, <1>10, <1>11, <1>12,
       <1>13, <1>14
    DEF Next, Step, Deliver, Pass, Senders

\* Every step keeps the types of the ledger and the history.
LEMMA LedgerStep ==
    ASSUME Types, [Next]_vars
    PROVE  LedgerTypes'
<1>1. ASSUME NEW p \in Senders, ReserveDelivery(p) PROVE LedgerTypes'
    BY <1>1
    DEF Types, LedgerTypes, SenderTypes, DeliveryStates, Lapses, ReserveDelivery,
        Lapsed
<1>2. ASSUME NEW p \in Senders, ProviderAccepts(p) PROVE LedgerTypes'
    BY <1>2
    DEF Types, LedgerTypes, SenderTypes, DeliveryStates, Lapses, ProviderAccepts,
        Lapsed, CallLapses
<1>3. ASSUME NEW p \in Senders, ProviderRefuses(p) PROVE LedgerTypes'
    BY <1>3
    DEF Types, LedgerTypes, SenderTypes, DeliveryStates, Lapses, ProviderRefuses,
        Lapsed, CallLapses
<1>4. ASSUME NEW p \in Senders, RecordDelivery(p) PROVE LedgerTypes'
    BY <1>4
    DEF Types, LedgerTypes, SenderTypes, DeliveryStates, Lapses, RecordDelivery,
        Lapsed
<1>5. ASSUME NEW p \in Senders, Crash(p) PROVE LedgerTypes'
    BY <1>5
    DEF Types, LedgerTypes, SenderTypes, DeliveryStates, Lapses, Crash, Lapsed
<1>6. ASSUME NEW s \in Sweeps, ResolveStale(s) PROVE LedgerTypes'
    BY <1>6
    DEF Types, LedgerTypes, SenderTypes, DeliveryStates, Lapses, ResolveStale,
        Lapsed
<1>7. CASE \/ UNCHANGED vars
           \/ \E d \in Replies :
                  \/ CreateIntent(d)
                  \/ BecomesDue(d)
                  \/ LeaseExpires(d)
                  \/ GrowsOld(d)
                  \/ DeadLetterExhausted(d)
           \/ \E p \in Senders, d \in Replies, t \in Tasks : ReadIntent(p, d, t)
           \/ \E p \in Senders :
                  \/ ClaimIntent(p)
                  \/ MarkAttempted(p)
                  \/ RefuseToSend(p)
                  \/ RecordEvidence(p)
                  \/ MarkSent(p)
           \/ \E p \in Senders, d \in Replies : SendDirectly(p, d)
           \/ \E s \in Sweeps, d \in Replies : ListStale(s, d)
    BY <1>7
    DEF vars, Types, LedgerTypes, CreateIntent, ReadIntent, ClaimIntent,
        MarkAttempted, SendDirectly, RefuseToSend, RecordEvidence, MarkSent,
        BecomesDue, LeaseExpires, GrowsOld, ListStale, DeadLetterExhausted
<1>8. ASSUME NEW p \in Senders, SettleFailure(p) PROVE LedgerTypes'
    BY <1>8
    DEF Types, LedgerTypes, SenderTypes, DeliveryStates, Lapses, SettleFailure,
        Lapsed
<1> QED
    BY <1>1, <1>2, <1>3, <1>4, <1>5, <1>6, <1>7, <1>8
    DEF Next, Step, Deliver, Pass, Senders

\* Every step keeps the types of the reconcilers.
LEMMA SweepStep ==
    ASSUME Types, [Next]_vars
    PROVE  SweepTypes'
<1>1. ASSUME NEW s \in Sweeps, NEW d \in Replies, ListStale(s, d) PROVE SweepTypes'
    BY <1>1 DEF Types, RowTypes, Row, SweepTypes, SweepState, ListStale, Verdict
<1>2. ASSUME NEW s \in Sweeps, ResolveStale(s) PROVE SweepTypes'
    BY <1>2 DEF Types, SweepTypes, SweepState, IdleSweep, ResolveStale
<1>3. CASE \/ UNCHANGED vars
           \/ \E d \in Replies :
                  \/ CreateIntent(d)
                  \/ BecomesDue(d)
                  \/ LeaseExpires(d)
                  \/ GrowsOld(d)
                  \/ DeadLetterExhausted(d)
           \/ \E p \in Senders, d \in Replies, t \in Tasks : ReadIntent(p, d, t)
           \/ \E p \in Senders :
                  \/ ClaimIntent(p)
                  \/ MarkAttempted(p)
                  \/ RefuseToSend(p)
                  \/ ReserveDelivery(p)
                  \/ ProviderAccepts(p)
                  \/ ProviderRefuses(p)
                  \/ RecordDelivery(p)
                  \/ RecordEvidence(p)
                  \/ MarkSent(p)
                  \/ SettleFailure(p)
                  \/ Crash(p)
           \/ \E p \in Senders, d \in Replies : SendDirectly(p, d)
    BY <1>3
    DEF vars, Types, SweepTypes, CreateIntent, ReadIntent, ClaimIntent,
        MarkAttempted, SendDirectly, RefuseToSend, ReserveDelivery, ProviderAccepts,
        ProviderRefuses, RecordDelivery, RecordEvidence, MarkSent, SettleFailure,
        Crash, BecomesDue, LeaseExpires, GrowsOld, DeadLetterExhausted
<1> QED
    BY <1>1, <1>2, <1>3
    DEF Next, Step, Deliver, Pass, Senders

\* Every step keeps the evidence true.
LEMMA EvidenceStep ==
    ASSUME Types, EvidenceInv, [Next]_vars
    PROVE  EvidenceInv'
<1>1. ASSUME NEW d \in Replies, CreateIntent(d) PROVE EvidenceInv'
    BY <1>1 DEF Types, EvidenceInv, RowTypes, Row, CreateIntent
<1>2. ASSUME NEW p \in Senders, NEW d \in Replies, NEW t \in Tasks, ReadIntent(p, d, t)
      PROVE  EvidenceInv'
    BY <1>2 DEF Types, EvidenceInv, SenderTypes, ReadIntent
<1>3. ASSUME NEW p \in Senders, ClaimIntent(p) PROVE EvidenceInv'
    <2>1. \A q \in Senders :
              sender'[q] = sender[q] \/ sender'[q].stage \in {"idle", "claimed"}
        BY <1>3, FinishMoves DEF Types, SenderTypes, SenderState, ClaimIntent
    <2>3. \A d \in Replies :
              /\ outbox'[d].evidence = outbox[d].evidence
              /\ outbox'[d].status # "sent" \/ outbox[d].status = "sent"
        <3> DEFINE c == sender[p].reply
        <3>1. CASE UNCHANGED outbox
            BY <3>1
        <3>2. CASE outbox' = [outbox EXCEPT ![c] =
                       [@ EXCEPT !.status = "claimed", !.claim = sender[p].claim,
                                 !.count = outbox[c].count + 1, !.stale = FALSE]]
            BY <3>2 DEF Types, RowTypes, Row
        <3> QED
            BY <1>3, <3>1, <3>2 DEF ClaimIntent
    <2>4. UNCHANGED <<delivery, accepted>>
        BY <1>3 DEF ClaimIntent
    <2> QED
        BY <2>1, <2>3, <2>4 DEF EvidenceInv
<1>4. ASSUME NEW p \in Senders, MarkAttempted(p) PROVE EvidenceInv'
    <2>1. /\ sender'[p].stage = "preparing"
          /\ sender[p].stage # "idle" => sender[p].reply \in Replies
          /\ \A q \in Senders : q # p => sender'[q] = sender[q]
        BY <1>4, AdvanceMoves DEF Types, SenderTypes, Stages, MarkAttempted
    <2>2. \A d \in Replies :
              /\ outbox'[d].evidence = outbox[d].evidence
              /\ outbox'[d].status = outbox[d].status
        BY <1>4 DEF Types, RowTypes, Row, MarkAttempted
    <2> QED
        BY <1>4, <2>1, <2>2 DEF EvidenceInv, MarkAttempted
<1>5. ASSUME NEW p \in Senders, NEW d \in Replies, SendDirectly(p, d)
      PROVE  EvidenceInv'
    BY <1>5 DEF Types, EvidenceInv, SenderTypes, IdleSender, SendDirectly
<1>6. ASSUME NEW p \in Senders, RefuseToSend(p) PROVE EvidenceInv'
    <2>1. /\ sender'[p].stage \in {"idle", "settling"}
          /\ \A q \in Senders : q # p => sender'[q] = sender[q]
        BY <1>6, FailMoves DEF Types, RefuseToSend
    <2>2. UNCHANGED <<outbox, delivery, accepted>>
        BY <1>6 DEF RefuseToSend
    <2> QED
        BY <2>1, <2>2 DEF EvidenceInv
<1>7. ASSUME NEW p \in Senders, ReserveDelivery(p) PROVE EvidenceInv'
    <2>1. /\ sender[p].stage # "idle" /\ sender[p].reply \in Replies
          /\ UNCHANGED <<outbox, accepted>>
        BY <1>7 DEF Types, SenderTypes, ReserveDelivery
    <2>2. \A d \in Replies : delivery'[d] = "sent" => delivery[d] = "sent"
        BY <1>7 DEF Types, LedgerTypes, ReserveDelivery
    <2>3. /\ \A q \in Senders : q # p => sender'[q] = sender[q]
          /\ \/ sender'[p].stage \in {"sending", "idle", "settling"}
             \/ /\ delivery[sender[p].reply] = "sent"
                /\ sender'[p].stage = "delivered" /\ sender'[p].reply = sender[p].reply
        <3>1. CASE Advance(p, "sending")
            BY <2>1, <3>1, AdvanceMoves DEF Types, Stages
        <3>2. CASE delivery[sender[p].reply] = "sent" /\ Advance(p, "delivered")
            BY <2>1, <3>2, AdvanceMoves DEF Types, Stages
        <3>3. CASE Fail(p)
            BY <2>1, <3>3, FailMoves DEF Types
        <3> QED
            BY <1>7, <3>1, <3>2, <3>3 DEF ReserveDelivery, AlreadySent
    <2> QED
        BY <2>1, <2>2, <2>3 DEF EvidenceInv
<1>8. ASSUME NEW p \in Senders, ProviderAccepts(p) PROVE EvidenceInv'
    <2>1. /\ sender[p].reply \in Replies /\ sender'[p].reply = sender[p].reply
          /\ \A q \in Senders : q # p => sender'[q] = sender[q]
        BY <1>8, AdvanceMoves DEF Types, SenderTypes, Stages, ProviderAccepts
    <2>2. accepted' =
              [accepted EXCEPT ![sender[p].reply] = accepted[sender[p].reply] + 1]
        BY <1>8 DEF ProviderAccepts
    <2>3. /\ \A d \in Replies : accepted[d] \in Nat
          /\ accepted'[sender[p].reply] = accepted[sender[p].reply] + 1
          /\ \A d \in Replies \ {sender[p].reply} : accepted'[d] = accepted[d]
        BY <2>1, <2>2 DEF Types, LedgerTypes
    <2>4. UNCHANGED <<outbox, delivery>>
        BY <1>8 DEF ProviderAccepts
    <2>5. \A q \in Senders : sender[q].stage # "idle" => sender[q].reply \in Replies
        BY DEF Types, SenderTypes
    <2> QED
        BY <2>1, <2>3, <2>4, <2>5 DEF EvidenceInv
<1>9. ASSUME NEW p \in Senders, ProviderRefuses(p) PROVE EvidenceInv'
    <2>1. /\ sender'[p].stage \in {"failed", "rejected"}
          /\ \A q \in Senders : q # p => sender'[q] = sender[q]
        BY <1>9, AdvanceMoves DEF Types, Stages, ProviderRefuses
    <2>2. UNCHANGED <<outbox, delivery, accepted>>
        BY <1>9 DEF ProviderRefuses
    <2> QED
        BY <2>1, <2>2 DEF EvidenceInv
<1>10. ASSUME NEW p \in Senders, RecordDelivery(p) PROVE EvidenceInv'
    BY <1>10, AdvanceMoves, FailMoves
    DEF Types, EvidenceInv, Stages, SenderTypes, RowTypes, Row, LedgerTypes,
        RecordDelivery
<1>11. ASSUME NEW p \in Senders, RecordEvidence(p) PROVE EvidenceInv'
    <2>1. /\ sender[p].stage = "delivered" /\ sender[p].reply \in Replies
          /\ sender'[p].reply = sender[p].reply
          /\ \A q \in Senders : q # p => sender'[q] = sender[q]
        BY <1>11, AdvanceMoves DEF Types, SenderTypes, Stages, RecordEvidence
    <2>2. \A d \in Replies :
              /\ outbox'[d].status = outbox[d].status
              /\ outbox'[d].evidence => outbox[d].evidence \/ d = sender[p].reply
        BY <1>11 DEF Types, RowTypes, Row, RecordEvidence
    <2>3. UNCHANGED <<delivery, accepted>>
        BY <1>11 DEF RecordEvidence
    <2> QED
        BY <2>1, <2>2, <2>3 DEF EvidenceInv
<1>12. ASSUME NEW p \in Senders, MarkSent(p) PROVE EvidenceInv'
    BY <1>12, AdvanceMoves, FinishMoves
    DEF Types, EvidenceInv, Stages, SenderTypes, RowTypes, Row, LedgerTypes, MarkSent
<1>13. ASSUME NEW p \in Senders, SettleFailure(p) PROVE EvidenceInv'
    <2>1. /\ sender'[p].stage = "idle"
          /\ sender[p].stage # "idle" => sender[p].reply \in Replies
          /\ \A q \in Senders : q # p => sender'[q] = sender[q]
        BY <1>13, FinishMoves DEF Types, SenderTypes, Stages, SettleFailure
    <2>2. \A d \in Replies :
              /\ outbox'[d].evidence = outbox[d].evidence
              /\ outbox'[d].status = "sent" => outbox[d].status = "sent"
        <3>1. CASE UNCHANGED outbox
            BY <3>1
        <3>2. CASE outbox' = [outbox EXCEPT ![sender[p].reply].status = "dead_lettered"]
            BY <3>2 DEF Types, RowTypes, Row
        <3>3. CASE outbox' = [outbox EXCEPT ![sender[p].reply] =
                                  [@ EXCEPT !.status = "pending", !.claim = <<>>,
                                            !.due = FALSE, !.stale = FALSE]]
            BY <3>3 DEF Types, RowTypes, Row
        <3> QED
            BY <1>13, <3>1, <3>2, <3>3 DEF SettleFailure
    <2> QED
        BY <1>13, <2>1, <2>2 DEF EvidenceInv, SettleFailure
<1>14. ASSUME NEW p \in Senders, Crash(p) PROVE EvidenceInv'
    BY <1>14, FinishMoves
    DEF Types, EvidenceInv, SenderTypes, RowTypes, Row, LedgerTypes, Crash
<1>15. ASSUME NEW d \in Replies, BecomesDue(d) PROVE EvidenceInv'
    BY <1>15 DEF Types, EvidenceInv, RowTypes, Row, BecomesDue
<1>16. ASSUME NEW d \in Replies, LeaseExpires(d) PROVE EvidenceInv'
    BY <1>16 DEF Types, EvidenceInv, RowTypes, Row, LeaseExpires
<1>17. ASSUME NEW s \in Sweeps, ResolveStale(s) PROVE EvidenceInv'
    BY <1>17
    DEF Types, EvidenceInv, RowTypes, Row, SweepTypes, SweepState, ResolveStale,
        StillStale
<1>18. ASSUME NEW d \in Replies, DeadLetterExhausted(d) PROVE EvidenceInv'
    BY <1>18 DEF Types, EvidenceInv, RowTypes, Row, DeadLetterExhausted
<1>19. CASE \/ UNCHANGED vars
            \/ \E d \in Replies : GrowsOld(d)
            \/ \E s \in Sweeps, d \in Replies : ListStale(s, d)
    BY <1>19 DEF vars, EvidenceInv, GrowsOld, ListStale
<1> QED
    BY <1>1, <1>2, <1>3, <1>4, <1>5, <1>6, <1>7, <1>8, <1>9, <1>10, <1>11, <1>12,
       <1>13, <1>14, <1>15, <1>16, <1>17, <1>18, <1>19
    DEF Next, Step, Deliver, Pass, Senders

\* Every step keeps the first send unique.
LEMMA FirstSendStep ==
    ASSUME Types, FirstSendInv, [Next]_vars
    PROVE  FirstSendInv'
<1>1. ASSUME NEW p \in Senders, NEW d \in Replies, NEW t \in Tasks, ReadIntent(p, d, t)
      PROVE  FirstSendInv'
    BY <1>1 DEF Types, FirstSendInv, SenderTypes, ReadIntent
<1>2. ASSUME NEW p \in Senders, ClaimIntent(p) PROVE FirstSendInv'
    <2>1. \A q \in Senders :
              sender'[q] = sender[q] \/ sender'[q].stage \in {"idle", "claimed"}
        BY <1>2, FinishMoves DEF Types, SenderTypes, SenderState, ClaimIntent
    <2> QED
        BY <1>2, <2>1 DEF FirstSendInv, ClaimIntent
<1>3. ASSUME NEW p \in Senders, MarkAttempted(p) PROVE FirstSendInv'
    BY <1>3, AdvanceMoves
    DEF Types, FirstSendInv, Stages, SenderTypes, LedgerTypes, MarkAttempted
<1>4. ASSUME NEW p \in Senders, NEW d \in Replies, SendDirectly(p, d)
      PROVE  FirstSendInv'
    BY <1>4 DEF Types, FirstSendInv, SenderTypes, IdleSender, SendDirectly
<1>5. ASSUME NEW p \in Senders, RefuseToSend(p) PROVE FirstSendInv'
    BY <1>5, AdvanceMoves, FailMoves
    DEF Types, FirstSendInv, Stages, SenderTypes, LedgerTypes, RefuseToSend
<1>6. ASSUME NEW p \in Senders, ReserveDelivery(p) PROVE FirstSendInv'
    BY <1>6, AdvanceMoves, FailMoves
    DEF Types, FirstSendInv, Stages, SenderTypes, LedgerTypes, ReserveDelivery,
        MayTransmit, Lapsed
<1>7. ASSUME NEW p \in Senders, ProviderAccepts(p) PROVE FirstSendInv'
    BY <1>7, AdvanceMoves
    DEF Types, FirstSendInv, Stages, SenderTypes, LedgerTypes, ProviderAccepts,
        Lapsed
<1>8. ASSUME NEW p \in Senders, ProviderRefuses(p) PROVE FirstSendInv'
    BY <1>8, AdvanceMoves
    DEF Types, FirstSendInv, Stages, SenderTypes, LedgerTypes, ProviderRefuses,
        Lapsed
<1>9. ASSUME NEW p \in Senders, RecordDelivery(p) PROVE FirstSendInv'
    BY <1>9, AdvanceMoves, FailMoves
    DEF Types, FirstSendInv, Stages, SenderTypes, LedgerTypes, RecordDelivery,
        Lapsed
<1>10. ASSUME NEW p \in Senders, RecordEvidence(p) PROVE FirstSendInv'
    BY <1>10, AdvanceMoves
    DEF Types, FirstSendInv, Stages, SenderTypes, LedgerTypes, RecordEvidence
<1>11. ASSUME NEW p \in Senders, MarkSent(p) PROVE FirstSendInv'
    BY <1>11, AdvanceMoves, FinishMoves
    DEF Types, FirstSendInv, Stages, SenderTypes, LedgerTypes, MarkSent
<1>12. ASSUME NEW p \in Senders, SettleFailure(p) PROVE FirstSendInv'
    <2>1. /\ sender'[p].stage = "idle"
          /\ \A q \in Senders : q # p => sender'[q] = sender[q]
        BY <1>12, FinishMoves DEF Types, SettleFailure
    <2>2. UNCHANGED <<delivery, accepted>>
        BY <1>12 DEF SettleFailure
    <2>3. \A d \in Replies : lapse[d] \subseteq lapse'[d]
        BY <1>12 DEF Types, LedgerTypes, SettleFailure, Lapsed
    <2> QED
        BY <2>1, <2>2, <2>3 DEF FirstSendInv
<1>13. ASSUME NEW p \in Senders, Crash(p) PROVE FirstSendInv'
    BY <1>13, FinishMoves
    DEF Types, FirstSendInv, SenderTypes, LedgerTypes, Crash, Lapsed
<1>14. ASSUME NEW s \in Sweeps, ResolveStale(s) PROVE FirstSendInv'
    BY <1>14
    DEF Types, FirstSendInv, LedgerTypes, SweepTypes, SweepState, ResolveStale,
        Lapsed
<1>15. CASE \/ UNCHANGED vars
            \/ \E d \in Replies :
                   \/ CreateIntent(d)
                   \/ BecomesDue(d)
                   \/ LeaseExpires(d)
                   \/ GrowsOld(d)
                   \/ DeadLetterExhausted(d)
            \/ \E s \in Sweeps, d \in Replies : ListStale(s, d)
    <2>1. UNCHANGED <<delivery, sender, accepted, lapse>>
        BY <1>15
        DEF vars, CreateIntent, BecomesDue, LeaseExpires, GrowsOld, ListStale,
            DeadLetterExhausted
    <2> QED
        BY <2>1 DEF FirstSendInv
<1> QED
    BY <1>1, <1>2, <1>3, <1>4, <1>5, <1>6, <1>7, <1>8, <1>9, <1>10, <1>11, <1>12,
       <1>13, <1>14, <1>15
    DEF Next, Step, Deliver, Pass, Senders

\* The invariant is inductive.
LEMMA NextInv == IInv /\ [Next]_vars => IInv'
    BY RowStep, SenderStep, LedgerStep, SweepStep, EvidenceStep, FirstSendStep
    DEF IInv, Types

\* It holds in every reachable state.
THEOREM Invariance == Spec => []IInv
    BY InitInv, NextInv, PTL DEF Spec

-----------------------------------------------------------------------------
(* The properties *)

\* No row of outbox or ledger says SENT before the provider accepted the message,
\* whatever crashes and whoever marks the row (mark_sent, the reconciler's
\* transition to SENT, the already_sent answer).
THEOREM SentImpliesAccepted == Spec => []SentIsTrue
<1>1. IInv => SentIsTrue
    BY DEF IInv, EvidenceInv, SentIsTrue
<1> QED
    BY <1>1, Invariance, PTL

\* The ledger's reservation (reserve_delivery) makes the first send of a reply
\* unique among all workers and operators: a second acceptance needs a retry.
THEOREM FirstSendIsUnique == Spec => []DuplicateNeedsRetry
<1>1. IInv => DuplicateNeedsRetry
    <2> SUFFICES ASSUME IInv, NEW d \in Replies, accepted[d] > 1
                 PROVE  "retried" \in lapse[d]
        BY DEF DuplicateNeedsRetry
    <2>1. accepted[d] \in Nat
        BY DEF IInv, Types, LedgerTypes
    <2> QED
        BY <2>1 DEF IInv, FirstSendInv
<1> QED
    BY <1>1, Invariance, PTL

\* What ResolvedIsFinal says of one step.
StaysResolved ==
    \A d \in Replies :
        outbox[d].status \in Resolved => outbox'[d].status = outbox[d].status

\* No step changes the status of a resolved row: each UPDATE asks for the status
\* that it leaves.
LEMMA ResolvedStep ==
    ASSUME Types, [Next]_vars
    PROVE  StaysResolved
<1>1. ASSUME NEW d \in Replies, CreateIntent(d) PROVE StaysResolved
    BY <1>1 DEF Types, RowTypes, Row, Resolved, StaysResolved, CreateIntent
<1>2. ASSUME NEW p \in Senders, ClaimIntent(p) PROVE StaysResolved
    BY <1>2 DEF Types, RowTypes, Row, Resolved, StaysResolved, ClaimIntent
<1>3. ASSUME NEW p \in Senders, MarkAttempted(p) PROVE StaysResolved
    BY <1>3 DEF Types, RowTypes, Row, Resolved, StaysResolved, MarkAttempted, Holds
<1>4. ASSUME NEW p \in Senders, RecordEvidence(p) PROVE StaysResolved
    BY <1>4 DEF Types, RowTypes, Row, Resolved, StaysResolved, RecordEvidence, Holds
<1>5. ASSUME NEW p \in Senders, MarkSent(p) PROVE StaysResolved
    BY <1>5 DEF Types, RowTypes, Row, Resolved, StaysResolved, MarkSent, Holds
<1>6. ASSUME NEW p \in Senders, SettleFailure(p) PROVE StaysResolved
    BY <1>6 DEF Types, RowTypes, Row, Resolved, StaysResolved, SettleFailure, Holds
<1>7. ASSUME NEW d \in Replies, BecomesDue(d) PROVE StaysResolved
    BY <1>7 DEF Types, RowTypes, Row, Resolved, StaysResolved, BecomesDue
<1>8. ASSUME NEW d \in Replies, LeaseExpires(d) PROVE StaysResolved
    BY <1>8 DEF Types, RowTypes, Row, Resolved, StaysResolved, LeaseExpires
<1>9. ASSUME NEW s \in Sweeps, ResolveStale(s) PROVE StaysResolved
    BY <1>9
    DEF Types, RowTypes, Row, Resolved, StaysResolved, ResolveStale, SweepTypes,
        SweepState, StillStale
<1>10. ASSUME NEW d \in Replies, DeadLetterExhausted(d) PROVE StaysResolved
    BY <1>10 DEF Types, RowTypes, Row, Resolved, StaysResolved, DeadLetterExhausted
<1>11. CASE \/ UNCHANGED vars
            \/ \E p \in Senders, d \in Replies, t \in Tasks : ReadIntent(p, d, t)
            \/ \E p \in Senders, d \in Replies : SendDirectly(p, d)
            \/ \E p \in Senders :
                   \/ RefuseToSend(p)
                   \/ ReserveDelivery(p)
                   \/ ProviderAccepts(p)
                   \/ ProviderRefuses(p)
                   \/ RecordDelivery(p)
                   \/ Crash(p)
            \/ \E d \in Replies : GrowsOld(d)
            \/ \E s \in Sweeps, d \in Replies : ListStale(s, d)
    BY <1>11
    DEF vars, StaysResolved, ReadIntent, SendDirectly, RefuseToSend,
        ReserveDelivery, ProviderAccepts, ProviderRefuses, RecordDelivery, Crash,
        GrowsOld, ListStale
<1> QED
    BY <1>1, <1>2, <1>3, <1>4, <1>5, <1>6, <1>7, <1>8, <1>9, <1>10, <1>11
    DEF Next, Step, Deliver, Pass, Senders

\* A row that is SENT, DEAD_LETTERED or NEEDS_RECONCILIATION stays so, whatever late
\* worker or reconciler still holds an older view of it.
THEOREM ResolvedStaysFinal == Spec => ResolvedIsFinal
<1>1. IInv /\ [Next]_vars => [StaysResolved]_vars
    BY ResolvedStep DEF IInv
<1> QED
    BY <1>1, Invariance, PTL DEF Spec, ResolvedIsFinal, StaysResolved

=============================================================================
