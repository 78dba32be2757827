----------------------- MODULE OutboundSendOnceProofs -----------------------
(***************************************************************************)
(* DuplicateNeedsMishap and TypeOK of OutboundSend as theorems.            *)
(*                                                                         *)
(* A reply that has met no mishap is accepted once, because an accepted    *)
(* reply leaves a retry no place: its ledger row is not FAILED, or its     *)
(* outbox row is still claimed, attempted, by the worker whose message was *)
(* accepted (OnceInv).  Underneath lies the numbering of claims            *)
(* (NumberInv): claim ids may be equal, the counts of claims are not.      *)
(***************************************************************************)
EXTENDS OutboundSendProofs, FiniteSetTheorems

-----------------------------------------------------------------------------
(* The inductive invariant *)

\* The mishaps that the markers do not cover.
Mishaps == {"unmarked", "overtaken", "unconfirmed", "unrecorded", "requeued", "released"}
Clean(d) == lapse[d] \cap Mishaps = {}

\* A process past its claim.
Engaged(p, d) == sender[p].reply = d /\ sender[p].stage \notin {"idle", "reading"}

\* A process between its reservation and the ledger write.
Caller(p, d) ==
    sender[p].reply = d /\ sender[p].stage \in {"sending", "accepted", "failed", "rejected"}

\* The row is CLAIMED, and p was the last to claim it.
Current(p, d) == outbox[d].status = "claimed" /\ outbox[d].count = sender[p].count

\* An operator reserves, calls and records, and has no row to settle.
OperatorInv ==
    \A p \in Operators :
        sender[p].stage \in {"idle", "preparing", "sending", "accepted", "failed", "rejected"}

\* Each claim raises the count, so no two workers have claimed with one count.
NumberInv ==
    \A d \in Replies, w, z \in Workers :
        Engaged(w, d) =>
            /\ sender[w].count <= outbox[d].count
            /\ Engaged(z, d) /\ sender[w].count = sender[z].count => w = z

\* A ledger row that is PENDING belongs to one call, an operator's call to such a row.
CallerInv ==
    \A d \in Replies :
        /\ delivery[d] = "absent" => accepted[d] = 0
        /\ \A p \in Senders : Caller(p, d) =>
               /\ delivery[d] # "absent"
               /\ p \in Operators => delivery[d] = "pending"
               /\ delivery[d] = "pending" => \A q \in Senders : Caller(q, d) => q = p
               /\ delivery[d] = "pending" /\ sender[p].stage \in {"sending", "failed"} /\ Clean(d)
                      => accepted[d] = 0

\* Without a mishap the row waits for the worker that has its answer.
AnsweredInv ==
    \A d \in Replies, w \in Workers :
        Clean(d) /\ Caller(w, d) /\ sender[w].stage # "sending"
            => outbox[d].status \in Resolved \/ (Current(w, d) /\ outbox[d].attempted)

\* Only workers that have lost their claim are about to call, and no answer asks for
\* a retry.
CallsLost(d) ==
    \A p \in Senders : Caller(p, d) =>
        /\ sender[p].stage # "failed"
        /\ sender[p].stage = "sending" => p \in Workers /\ ~(Holds(p) /\ Current(p, d))

\* A ledger row that may be retried is behind an outbox row that may not be claimed.
RetryBlocked(d) ==
    delivery[d] = "failed" =>
        \/ outbox[d].status \in Resolved
        \/ /\ outbox[d].status = "claimed" /\ outbox[d].attempted
           /\ \A w \in Workers : Engaged(w, d) /\ Current(w, d)
                  => sender[w].stage \in {"accepted", "rejected"}

\* An acceptance without mishap is the only one.
OnceInv ==
    \A d \in Replies :
        Clean(d) /\ accepted[d] > 0 => accepted[d] = 1 /\ CallsLost(d) /\ RetryBlocked(d)

Numbered == Types /\ OperatorInv /\ NumberInv
DInv == Numbered /\ CallerInv /\ AnsweredInv /\ OnceInv

-----------------------------------------------------------------------------
(* What one step may do to one process *)

Starts(p) ==
    /\ sender[p].stage = "idle"
    /\ \/ /\ sender'[p].stage = "reading" /\ p \in Workers
          /\ outbox[sender'[p].reply].count < MaxAttempts
       \/ sender'[p].stage = "preparing" /\ p \in Operators
    /\ UNCHANGED <<outbox, delivery, accepted>>

Claims(p) ==
    /\ p \in Workers
    /\ sender[p].stage = "reading"
    /\ sender'[p].stage = "claimed"
    /\ sender'[p].reply = sender[p].reply
    /\ sender'[p].count = outbox[sender[p].reply].count + 1
    /\ outbox[sender[p].reply].status = "pending"
    /\ outbox'[sender[p].reply].count = outbox[sender[p].reply].count + 1
    /\ UNCHANGED <<delivery, accepted>>

\* Every other step but those of the call itself.  Only a ledger write that failed
\* leads from an answer to the end of the attempt.
Proceeds(p) ==
    /\ sender'[p].stage \in {"idle", "preparing", "delivered", "marking", "settling"}
    /\ sender'[p].stage # "idle" =>
           /\ sender[p].stage \notin {"idle", "reading"}
           /\ sender'[p].reply = sender[p].reply
           /\ sender'[p].count = sender[p].count
           /\ p \notin Operators
           /\ sender[p].stage \in {"accepted", "failed", "rejected"} =>
                  "unrecorded" \in lapse'[sender[p].reply]
    /\ UNCHANGED <<delivery, accepted>>

Reserves(p) ==
    /\ sender[p].stage = "preparing"
    /\ sender'[p] = [sender[p] EXCEPT !.stage = "sending"]
    /\ MayTransmit(p, sender[p].reply)
    /\ delivery' = [delivery EXCEPT ![sender[p].reply] = IF @ = "absent" THEN "pending" ELSE @]
    /\ UNCHANGED <<outbox, accepted>>

Answers(p) ==
    /\ sender[p].stage = "sending"
    /\ CallLapses(p) \subseteq lapse'[sender[p].reply]
    /\ \E stage \in {"accepted", "failed", "rejected"} :
           /\ sender'[p] = [sender[p] EXCEPT !.stage = stage]
           /\ \/ UNCHANGED accepted
              \/ /\ accepted' = [accepted EXCEPT ![sender[p].reply] = @ + 1]
                 /\ stage = "failed" => "unconfirmed" \in lapse'[sender[p].reply]
    /\ UNCHANGED <<outbox, delivery>>

Records(p) ==
    /\ sender[p].stage \in {"accepted", "failed", "rejected"}
    /\ sender'[p].stage \in {"idle", "delivered", "settling"}
    /\ sender'[p].stage # "idle" =>
           /\ sender'[p].reply = sender[p].reply
           /\ sender'[p].count = sender[p].count
           /\ p \notin Operators
    /\ delivery' = [delivery EXCEPT ![sender[p].reply] =
           IF sender[p].stage = "accepted" THEN "sent" ELSE sender[p].stage]
    /\ UNCHANGED <<outbox, accepted>>

SenderMove(p) ==
    Starts(p) \/ Claims(p) \/ Proceeds(p) \/ Reserves(p) \/ Answers(p) \/ Records(p)

OneSenderMoves ==
    \E p \in Senders :
        /\ \A q \in Senders : q # p => sender'[q] = sender[q]
        /\ SenderMove(p)

NoSenderMoves == UNCHANGED <<sender, delivery, accepted>>

\* A process that advances keeps its reply and its count.
LEMMA AdvanceKeeps ==
    ASSUME SenderTypes, NEW p \in Senders, NEW stage \in Stages, Advance(p, stage)
    PROVE  /\ sender'[p] = [sender[p] EXCEPT !.stage = stage]
           /\ sender'[p].stage = stage
           /\ sender'[p].reply = sender[p].reply
           /\ sender'[p].count = sender[p].count
           /\ sender'[p].claim = sender[p].claim
           /\ \A q \in Senders : q # p => sender'[q] = sender[q]
<1>1. sender \in [Senders -> SenderState] /\ sender[p] \in SenderState
    BY DEF SenderTypes
<1>2. /\ sender'[p] = [sender[p] EXCEPT !.stage = stage]
      /\ \A q \in Senders : q # p => sender'[q] = sender[q]
    BY <1>1 DEF Advance
<1> QED
    BY <1>1, <1>2 DEF SenderState

\* A process that ends stops all it did.
LEMMA FinishProceeds ==
    ASSUME SenderTypes, NEW p \in Senders, Finish(p), UNCHANGED <<delivery, accepted>>
    PROVE  OneSenderMoves
<1>1. sender'[p].stage = "idle" /\ \A q \in Senders : q # p => sender'[q] = sender[q]
    BY FinishMoves
<1> QED
    BY <1>1 DEF OneSenderMoves, SenderMove, Proceeds

\* One that advances on its own side of the call goes on.
LEMMA AdvanceProceeds ==
    ASSUME SenderTypes, NEW p \in Senders, UNCHANGED <<delivery, accepted>>,
           NEW stage \in {"preparing", "delivered", "marking", "settling"}, Advance(p, stage),
           sender[p].stage \notin {"idle", "reading"}, p \notin Operators,
           sender[p].stage \in {"accepted", "failed", "rejected"} =>
               "unrecorded" \in lapse'[sender[p].reply]
    PROVE  OneSenderMoves
<1>1. /\ sender'[p].stage = stage
      /\ sender'[p].reply = sender[p].reply
      /\ sender'[p].count = sender[p].count
      /\ \A q \in Senders : q # p => sender'[q] = sender[q]
    BY AdvanceKeeps DEF Stages
<1> QED
    BY <1>1 DEF OneSenderMoves, SenderMove, Proceeds

\* And one that fails ends or settles.
LEMMA FailProceeds ==
    ASSUME SenderTypes, NEW p \in Senders, UNCHANGED <<delivery, accepted>>, Fail(p),
           sender[p].stage \notin {"idle", "reading"},
           sender[p].stage \in {"accepted", "failed", "rejected"} =>
               "unrecorded" \in lapse'[sender[p].reply]
    PROVE  OneSenderMoves
<1>1. CASE Finish(p)
    BY <1>1, FinishProceeds
<1>2. CASE Advance(p, "settling") /\ p \notin Operators
    BY <1>2, AdvanceProceeds
<1> QED
    BY <1>1, <1>2 DEF Fail

\* Every step leaves the processes and the ledger alone, or is the move of one process.
LEMMA SenderMoves ==
    ASSUME Types, OperatorInv, [Next]_vars
    PROVE  NoSenderMoves \/ OneSenderMoves
<1>1. /\ SenderTypes
      /\ sender \in [Senders -> SenderState]
      /\ delivery \in [Replies -> DeliveryStates]
      /\ accepted \in [Replies -> Nat]
      /\ outbox \in [Replies -> Row]
      /\ lapse \in [Replies -> SUBSET Lapses]
      /\ \A p \in Senders : sender[p] \in SenderState
      /\ \A p \in Senders : sender[p].stage # "idle" => sender[p].reply \in Replies
    BY DEF Types, RowTypes, SenderTypes, LedgerTypes
<1>2. ASSUME NEW p \in Workers, NEW d \in Replies, NEW t \in Tasks, ReadIntent(p, d, t)
      PROVE  OneSenderMoves
    <2>1. p \in Senders
        BY DEF Senders
    <2>2. /\ sender'[p].stage = "reading" /\ sender'[p].reply = d
          /\ \A q \in Senders : q # p => sender'[q] = sender[q]
        BY <1>1, <1>2, <2>1 DEF ReadIntent
    <2>3. outbox[d].count < MaxAttempts
        BY <1>1, <1>2, SendAssumption DEF ReadIntent, Exhausted, Row
    <2>4. Starts(p)
        BY <1>2, <2>2, <2>3 DEF Starts, ReadIntent
    <2> QED
        BY <2>1, <2>2, <2>4 DEF OneSenderMoves, SenderMove
<1>3. ASSUME NEW p \in Operators, NEW d \in Replies, SendDirectly(p, d)
      PROVE  OneSenderMoves
    <2>1. p \in Senders
        BY DEF Senders
    <2>2. /\ sender'[p].stage = "preparing"
          /\ \A q \in Senders : q # p => sender'[q] = sender[q]
        BY <1>1, <1>3, <2>1 DEF SendDirectly, IdleSender
    <2> QED
        BY <1>3, <2>1, <2>2 DEF OneSenderMoves, SenderMove, Starts, SendDirectly
<1>4. ASSUME NEW p \in Senders, ClaimIntent(p) PROVE OneSenderMoves
    <2> DEFINE d == sender[p].reply
    <2>1. CASE Finish(p)
        BY <1>1, <1>4, <2>1, FinishProceeds DEF ClaimIntent
    <2>2. CASE /\ outbox[d].status = "pending"
               /\ outbox' = [outbox EXCEPT ![d] =
                      [@ EXCEPT !.status = "claimed", !.claim = sender[p].claim,
                                !.count = outbox[d].count + 1, !.stale = FALSE]]
               /\ sender' = [sender EXCEPT ![p] =
                      [@ EXCEPT !.stage = "claimed", !.count = outbox[d].count + 1]]
        <3>1. p \in Workers /\ d \in Replies
            BY <1>1, <1>4 DEF OperatorInv, Senders, ClaimIntent
        <3>2. /\ sender'[p] = [sender[p] EXCEPT !.stage = "claimed",
                                                !.count = outbox[d].count + 1]
              /\ \A q \in Senders : q # p => sender'[q] = sender[q]
            BY <1>1, <2>2
        <3>3. /\ sender'[p].stage = "claimed" /\ sender'[p].reply = d
              /\ sender'[p].count = outbox[d].count + 1
            BY <1>1, <3>2 DEF SenderState
        <3>4. outbox'[d].count = outbox[d].count + 1
            BY <1>1, <2>2, <3>1 DEF Row
        <3>5. Claims(p)
            BY <1>4, <2>2, <3>1, <3>3, <3>4 DEF Claims, ClaimIntent
        <3> QED
            BY <3>2, <3>5 DEF OneSenderMoves, SenderMove
    <2> QED
        BY <1>4, <2>1, <2>2 DEF ClaimIntent
<1>5. ASSUME NEW p \in Senders, MarkAttempted(p) PROVE OneSenderMoves
    <2>1. p \notin Operators
        BY <1>5 DEF OperatorInv, MarkAttempted
    <2> QED
        BY <1>1, <1>5, <2>1, AdvanceProceeds DEF MarkAttempted
<1>6. ASSUME NEW p \in Senders, RefuseToSend(p) PROVE OneSenderMoves
    BY <1>1, <1>6, FailProceeds DEF RefuseToSend
<1>7. ASSUME NEW p \in Senders, ReserveDelivery(p) PROVE OneSenderMoves
    <2> DEFINE d == sender[p].reply
    <2>1. d \in Replies /\ sender[p].stage = "preparing"
        BY <1>1, <1>7 DEF ReserveDelivery
    <2>2. CASE MayTransmit(p, d)
        <3>1. Advance(p, "sending")
            BY <1>7, <2>2 DEF ReserveDelivery
        <3>2. /\ sender'[p] = [sender[p] EXCEPT !.stage = "sending"]
              /\ \A q \in Senders : q # p => sender'[q] = sender[q]
            BY <1>1, <3>1, AdvanceKeeps DEF Stages
        <3>3. Reserves(p)
            BY <1>7, <2>2, <3>2 DEF Reserves, ReserveDelivery
        <3> QED
            BY <3>2, <3>3 DEF OneSenderMoves, SenderMove
    <2>3. CASE ~MayTransmit(p, d)
        <3>1. delivery[d] # "absent"
            BY <2>3 DEF MayTransmit
        <3>2. UNCHANGED <<delivery, accepted>>
            BY <1>1, <1>7, <2>1, <3>1 DEF ReserveDelivery
        <3>3. CASE p \in Workers /\ Advance(p, "delivered")
            <4>1. p \notin Operators
                BY <3>3, SendAssumption
            <4> QED
                BY <1>1, <2>1, <3>2, <3>3, <4>1, AdvanceProceeds
        <3>4. CASE Fail(p)
            BY <1>1, <2>1, <3>2, <3>4, FailProceeds
        <3> QED
            BY <1>7, <2>3, <3>3, <3>4 DEF ReserveDelivery
    <2> QED
        BY <2>2, <2>3
<1>8. ASSUME NEW p \in Senders, ProviderAccepts(p) PROVE OneSenderMoves
    <2> DEFINE d == sender[p].reply
    <2>1. d \in Replies /\ sender[p].stage = "sending"
        BY <1>1, <1>8 DEF ProviderAccepts
    <2>2. PICK stage \in {"accepted", "failed", "rejected"} :
              /\ Advance(p, stage)
              /\ CallLapses(p) \subseteq lapse'[d]
              /\ stage = "failed" => "unconfirmed" \in lapse'[d]
        BY <1>1, <1>8, <2>1 DEF ProviderAccepts, Lapsed
    <2>3. /\ sender'[p] = [sender[p] EXCEPT !.stage = stage]
          /\ \A q \in Senders : q # p => sender'[q] = sender[q]
        <3>1. stage \in Stages /\ Advance(p, stage) /\ SenderTypes
            BY <1>1, <2>2 DEF Stages
        <3> QED
            BY <3>1, AdvanceKeeps
    <2>4. Answers(p)
        BY <1>8, <2>1, <2>2, <2>3 DEF Answers, ProviderAccepts
    <2> QED
        BY <2>3, <2>4 DEF OneSenderMoves, SenderMove
<1>9. ASSUME NEW p \in Senders, ProviderRefuses(p) PROVE OneSenderMoves
    <2> DEFINE d == sender[p].reply
    <2>1. d \in Replies /\ sender[p].stage = "sending"
        BY <1>1, <1>9 DEF ProviderRefuses
    <2>2. PICK stage \in {"failed", "rejected"} : Advance(p, stage)
        BY <1>9 DEF ProviderRefuses
    <2>3. CallLapses(p) \subseteq lapse'[d]
        BY <1>1, <1>9, <2>1 DEF ProviderRefuses, Lapsed
    <2>4. /\ sender'[p] = [sender[p] EXCEPT !.stage = stage]
          /\ \A q \in Senders : q # p => sender'[q] = sender[q]
        BY <1>1, <2>2, AdvanceKeeps DEF Stages
    <2>5. Answers(p)
        BY <1>9, <2>1, <2>3, <2>4 DEF Answers, ProviderRefuses
    <2> QED
        BY <2>4, <2>5 DEF OneSenderMoves, SenderMove
<1>10. ASSUME NEW p \in Senders, RecordDelivery(p) PROVE OneSenderMoves
    <2> DEFINE d == sender[p].reply
    <2>1. /\ d \in Replies /\ sender[p].stage \in {"accepted", "failed", "rejected"}
          /\ UNCHANGED <<outbox, accepted>>
        BY <1>1, <1>10 DEF RecordDelivery
    <2>2. CASE Fail(p) /\ UNCHANGED delivery /\ Lapsed(d, {"unrecorded"})
        <3>1. "unrecorded" \in lapse'[d]
            BY <1>1, <2>1, <2>2 DEF Lapsed
        <3> QED
            BY <1>1, <2>1, <2>2, <3>1, FailProceeds
    <2>3. CASE /\ delivery' = [delivery EXCEPT ![d] =
                      IF sender[p].stage = "accepted" THEN "sent" ELSE sender[p].stage]
               /\ IF sender[p].stage = "accepted" /\ p \in Workers
                  THEN Advance(p, "delivered")
                  ELSE Fail(p)
        <3>1. CASE Finish(p)
            <4>1. sender'[p].stage = "idle" /\ \A q \in Senders : q # p => sender'[q] = sender[q]
                BY <1>1, <3>1, FinishMoves
            <4>2. Records(p)
                BY <2>1, <2>3, <4>1 DEF Records
            <4> QED
                BY <4>1, <4>2 DEF OneSenderMoves, SenderMove
        <3>2. ASSUME NEW stage \in {"delivered", "settling"}, Advance(p, stage), p \notin Operators
              PROVE  OneSenderMoves
            <4>1. /\ sender'[p].stage = stage
                  /\ sender'[p].reply = sender[p].reply
                  /\ sender'[p].count = sender[p].count
                  /\ \A q \in Senders : q # p => sender'[q] = sender[q]
                BY <1>1, <3>2, AdvanceKeeps DEF Stages
            <4>2. Records(p)
                BY <2>1, <2>3, <3>2, <4>1 DEF Records
            <4> QED
                BY <4>1, <4>2 DEF OneSenderMoves, SenderMove
        <3> QED
            BY <2>3, <3>1, <3>2, SendAssumption DEF Fail
    <2> QED
        BY <1>10, <2>2, <2>3 DEF RecordDelivery
<1>11. ASSUME NEW p \in Senders, RecordEvidence(p) PROVE OneSenderMoves
    <2>1. p \notin Operators
        BY <1>11 DEF OperatorInv, RecordEvidence
    <2> QED
        BY <1>1, <1>11, <2>1, AdvanceProceeds DEF RecordEvidence
<1>12. ASSUME NEW p \in Senders, MarkSent(p) PROVE OneSenderMoves
    <2>1. p \notin Operators
        BY <1>12 DEF OperatorInv, MarkSent
    <2> QED
        BY <1>1, <1>12, <2>1, AdvanceProceeds, FinishProceeds DEF MarkSent
<1>13. ASSUME NEW p \in Senders, SettleFailure(p) \/ Crash(p) PROVE OneSenderMoves
    BY <1>1, <1>13, FinishProceeds DEF SettleFailure, Crash
<1>14. CASE \/ UNCHANGED vars
            \/ \E d \in Replies :
                   \/ CreateIntent(d)
                   \/ Pass(d)
                   \/ DeadLetterExhausted(d)
                   \/ \E s \in Sweeps : ListStale(s, d)
            \/ \E s \in Sweeps : ResolveStale(s)
    BY <1>14
    DEF vars, NoSenderMoves, CreateIntent, Pass, BecomesDue, LeaseExpires, GrowsOld,
        DeadLetterExhausted, ListStale, ResolveStale
<1> QED
    BY <1>2, <1>3, <1>4, <1>5, <1>6, <1>7, <1>8, <1>9, <1>10, <1>11, <1>12, <1>13, <1>14
    DEF Next, Step, Deliver

-----------------------------------------------------------------------------
(* What one step may do to one outbox row *)

Kept(d) ==
    /\ outbox'[d].status = outbox[d].status
    /\ outbox'[d].claim = outbox[d].claim
    /\ outbox'[d].count = outbox[d].count
    /\ outbox[d].attempted => outbox'[d].attempted

Opens(d) ==
    /\ outbox[d].status = "absent" /\ outbox'[d].status = "pending"
    /\ outbox'[d].count = outbox[d].count

ClaimedBy(w, d) ==
    /\ outbox[d].status = "pending" /\ outbox'[d].status = "claimed"
    /\ outbox'[d].count = outbox[d].count + 1
    /\ sender[w].stage = "reading" /\ sender[w].reply = d
    /\ sender'[w].stage = "claimed"

\* A row that was attempted is reopened by the worker that claimed it last, or it is a
\* mishap.
Reopens(d) ==
    /\ outbox[d].status = "claimed" /\ outbox'[d].status = "pending"
    /\ outbox'[d].count = outbox[d].count
    /\ \/ ~outbox[d].attempted
       \/ lapse'[d] \cap {"requeued", "released"} # {}
       \/ \E w \in Workers :
              /\ sender[w].stage = "settling" /\ sender[w].reply = d
              /\ sender[w].count = outbox[d].count

Resolves(d) ==
    /\ outbox[d].status \in {"pending", "claimed"} /\ outbox'[d].status \in Resolved
    /\ \/ outbox'[d].count = outbox[d].count
       \/ /\ outbox'[d].count = outbox[d].count + 1
          /\ outbox[d].status = "pending"
          /\ outbox'[d].status = "dead_lettered"
          /\ UNCHANGED sender

RowMove(d) ==
    Kept(d) \/ Opens(d) \/ (\E w \in Workers : ClaimedBy(w, d)) \/ Reopens(d) \/ Resolves(d)

\* Every step is such a move of every row.
LEMMA RowMoves ==
    ASSUME Types, OperatorInv, [Next]_vars, NEW d \in Replies
    PROVE  RowMove(d)
<1>1. /\ SenderTypes
      /\ sender \in [Senders -> SenderState]
      /\ outbox \in [Replies -> Row]
      /\ lapse \in [Replies -> SUBSET Lapses]
      /\ \A p \in Senders : sender[p] \in SenderState
      /\ \A p \in Senders : sender[p].stage # "idle" => sender[p].reply \in Replies
      /\ outbox[d] \in Row /\ outbox[d].count \in Nat
    BY DEF Types, RowTypes, SenderTypes, LedgerTypes, Row
<1>2. ASSUME NEW x \in Replies, CreateIntent(x) PROVE RowMove(d)
    <2>1. d # x => Kept(d)
        BY <1>1, <1>2 DEF CreateIntent, Kept
    <2>2. d = x => Opens(d)
        BY <1>1, <1>2 DEF CreateIntent, Opens, Row
    <2> QED
        BY <2>1, <2>2 DEF RowMove
<1>3. ASSUME NEW p \in Senders, ClaimIntent(p) PROVE RowMove(d)
    <2> DEFINE x == sender[p].reply
    <2>1. p \in Workers /\ x \in Replies /\ sender[p].stage = "reading"
        BY <1>1, <1>3 DEF OperatorInv, Senders, ClaimIntent
    <2>2. CASE UNCHANGED outbox
        BY <2>2 DEF RowMove, Kept
    <2>3. CASE /\ outbox[x].status = "pending"
               /\ outbox' = [outbox EXCEPT ![x] =
                      [@ EXCEPT !.status = "claimed", !.claim = sender[p].claim,
                                !.count = outbox[x].count + 1, !.stale = FALSE]]
               /\ sender' = [sender EXCEPT ![p] =
                      [@ EXCEPT !.stage = "claimed", !.count = outbox[x].count + 1]]
        <3>1. d # x => Kept(d)
            BY <1>1, <2>1, <2>3 DEF Kept
        <3>2. sender'[p].stage = "claimed"
            BY <1>1, <2>3 DEF SenderState
        <3>3. outbox'[x].status = "claimed" /\ outbox'[x].count = outbox[x].count + 1
            BY <1>1, <2>1, <2>3 DEF Row
        <3>4. d = x => ClaimedBy(p, d)
            BY <2>1, <2>3, <3>2, <3>3 DEF ClaimedBy
        <3> QED
            BY <2>1, <3>1, <3>4 DEF RowMove
    <2> QED
        BY <1>3, <2>2, <2>3 DEF ClaimIntent
<1>4. ASSUME NEW p \in Senders, MarkAttempted(p) \/ RecordEvidence(p) PROVE RowMove(d)
    <2>1. ASSUME MarkAttempted(p) PROVE Kept(d)
        BY <1>1, <2>1 DEF MarkAttempted, Kept, Row
    <2>2. ASSUME RecordEvidence(p) PROVE Kept(d)
        BY <1>1, <2>2 DEF RecordEvidence, Kept, Row
    <2> QED
        BY <1>4, <2>1, <2>2 DEF RowMove
<1>5. ASSUME NEW p \in Senders, MarkSent(p) PROVE RowMove(d)
    <2> DEFINE x == sender[p].reply
    <2>1. CASE UNCHANGED outbox
        BY <2>1 DEF RowMove, Kept
    <2>2. CASE /\ Holds(p)
               /\ outbox' = [outbox EXCEPT ![x] = [@ EXCEPT !.status = "sent", !.evidence = TRUE]]
        <3>1. d # x => Kept(d)
            BY <1>1, <2>2 DEF Kept
        <3>2. d = x => Resolves(d)
            BY <1>1, <2>2 DEF Resolves, Resolved, Holds, Row
        <3> QED
            BY <3>1, <3>2 DEF RowMove
    <2> QED
        BY <1>5, <2>1, <2>2 DEF MarkSent
<1>6. ASSUME NEW p \in Senders, SettleFailure(p) PROVE RowMove(d)
    <2> DEFINE x == sender[p].reply
    <2>1. p \in Workers /\ x \in Replies /\ sender[p].stage = "settling"
        BY <1>1, <1>6 DEF OperatorInv, Senders, SettleFailure
    <2>2. CASE UNCHANGED outbox
        BY <2>2 DEF RowMove, Kept
    <2>3. CASE Holds(p) /\ outbox' = [outbox EXCEPT ![x].status = "dead_lettered"]
        <3>1. d # x => Kept(d)
            BY <1>1, <2>3 DEF Kept
        <3>2. d = x => Resolves(d)
            BY <1>1, <2>3 DEF Resolves, Resolved, Holds, Row
        <3> QED
            BY <3>1, <3>2 DEF RowMove
    <2>4. CASE /\ Holds(p)
               /\ outbox' = [outbox EXCEPT ![x] =
                      [@ EXCEPT !.status = "pending", !.claim = <<>>, !.due = FALSE,
                                !.stale = FALSE]]
               /\ Lapsed(x, IF outbox[x].count # sender[p].count THEN {"released"} ELSE {})
        <3>1. d # x => Kept(d)
            BY <1>1, <2>4 DEF Kept
        <3>2. /\ outbox[x].status = "claimed" /\ outbox'[x].status = "pending"
              /\ outbox'[x].count = outbox[x].count
            BY <1>1, <2>1, <2>4 DEF Holds, Row
        <3>3. outbox[x].count # sender[p].count => "released" \in lapse'[x]
            BY <1>1, <2>1, <2>4 DEF Lapsed
        <3>4. d = x => Reopens(d)
            BY <2>1, <3>2, <3>3 DEF Reopens
        <3> QED
            BY <3>1, <3>4 DEF RowMove
    <2> QED
        BY <1>6, <2>2, <2>3, <2>4 DEF SettleFailure
<1>7. ASSUME NEW x \in Replies, BecomesDue(x) \/ LeaseExpires(x) PROVE RowMove(d)
    <2>1. ASSUME BecomesDue(x) PROVE Kept(d)
        BY <1>1, <2>1 DEF BecomesDue, Kept, Row
    <2>2. ASSUME LeaseExpires(x) PROVE Kept(d)
        BY <1>1, <2>2 DEF LeaseExpires, Kept, Row
    <2> QED
        BY <1>7, <2>1, <2>2 DEF RowMove
<1>8. ASSUME NEW s \in Sweeps, ResolveStale(s) PROVE RowMove(d)
    <2> DEFINE x == sweep[s].reply
               verdict == sweep[s].verdict
    <2>1. x \in Replies /\ verdict \in {"sent", "pending", "needs_reconciliation"}
        BY <1>8 DEF Types, SweepTypes, SweepState, ResolveStale
    <2>2. CASE UNCHANGED outbox
        BY <2>2 DEF RowMove, Kept
    <2>3. CASE StillStale(s) /\ verdict # "pending"
               /\ outbox' = [outbox EXCEPT ![x].status = verdict]
        <3>1. d # x => Kept(d)
            BY <1>1, <2>3 DEF Kept
        <3>2. d = x => Resolves(d)
            BY <1>1, <2>1, <2>3 DEF Resolves, Resolved, StillStale, Row
        <3> QED
            BY <3>1, <3>2 DEF RowMove
    <2>4. CASE /\ StillStale(s) /\ verdict = "pending"
               /\ outbox' = [outbox EXCEPT ![x] =
                      [@ EXCEPT !.status = verdict, !.claim = <<>>, !.stale = FALSE]]
        <3>1. d # x => Kept(d)
            BY <1>1, <2>4 DEF Kept
        <3>2. /\ outbox[x].status = "claimed" /\ outbox'[x].status = "pending"
              /\ outbox'[x].count = outbox[x].count
            BY <1>1, <2>1, <2>4 DEF StillStale, Row
        <3>3. outbox[x].attempted => "requeued" \in lapse'[x]
            BY <1>1, <1>8, <2>1, <2>4 DEF ResolveStale, Lapsed
        <3>4. d = x => Reopens(d)
            BY <3>2, <3>3 DEF Reopens
        <3> QED
            BY <3>1, <3>4 DEF RowMove
    <2> QED
        BY <1>8, <2>2, <2>3, <2>4 DEF ResolveStale
<1>9. ASSUME NEW x \in Replies, DeadLetterExhausted(x) PROVE RowMove(d)
    <2>1. d # x => Kept(d)
        BY <1>1, <1>9 DEF DeadLetterExhausted, Kept
    <2>2. d = x => Resolves(d)
        BY <1>1, <1>9 DEF DeadLetterExhausted, Resolves, Resolved, Row
    <2> QED
        BY <2>1, <2>2 DEF RowMove
<1>10. CASE \/ UNCHANGED vars
            \/ \E p \in Senders, x \in Replies, t \in Tasks : ReadIntent(p, x, t)
            \/ \E p \in Senders, x \in Replies : SendDirectly(p, x)
            \/ \E p \in Senders :
                   \/ RefuseToSend(p)
                   \/ ReserveDelivery(p)
                   \/ ProviderAccepts(p)
                   \/ ProviderRefuses(p)
                   \/ RecordDelivery(p)
                   \/ Crash(p)
            \/ \E x \in Replies : GrowsOld(x)
            \/ \E s \in Sweeps, x \in Replies : ListStale(s, x)
    <2>1. UNCHANGED outbox
        BY <1>10
        DEF vars, ReadIntent, SendDirectly, RefuseToSend, ReserveDelivery, ProviderAccepts,
            ProviderRefuses, RecordDelivery, Crash, GrowsOld, ListStale
    <2> QED
        BY <2>1 DEF RowMove, Kept
<1> QED
    BY <1>2, <1>3, <1>4, <1>5, <1>6, <1>7, <1>8, <1>9, <1>10
    DEF Next, Step, Deliver, Pass, Senders

\* No mishap is forgotten.
LEMMA LapseGrows ==
    ASSUME Types, [Next]_vars, NEW d \in Replies
    PROVE  lapse[d] \subseteq lapse'[d]
<1>1. lapse \in [Replies -> SUBSET Lapses]
    BY DEF Types, LedgerTypes
<1>2. ASSUME NEW x, NEW names, Lapsed(x, names) PROVE lapse[d] \subseteq lapse'[d]
    BY <1>1, <1>2 DEF Lapsed
<1>3. CASE UNCHANGED vars
    BY <1>3 DEF vars
<1>4. CASE \/ \E x \in Replies :
                  \/ CreateIntent(x)
                  \/ Deliver(x)
                  \/ Pass(x)
                  \/ DeadLetterExhausted(x)
                  \/ \E p \in Operators : SendDirectly(p, x)
                  \/ \E s \in Sweeps : ListStale(s, x)
    BY <1>4
    DEF CreateIntent, Deliver, ReadIntent, Pass, BecomesDue, LeaseExpires, GrowsOld,
        DeadLetterExhausted, SendDirectly, ListStale
<1>5. ASSUME NEW p \in Senders, Step(p) \/ Crash(p) PROVE lapse[d] \subseteq lapse'[d]
    <2>1. UNCHANGED lapse \/ \E names : Lapsed(sender[p].reply, names)
        <3>1. CASE ClaimIntent(p) \/ MarkAttempted(p) \/ RefuseToSend(p) \/ RecordEvidence(p)
                   \/ MarkSent(p)
            BY <3>1 DEF ClaimIntent, MarkAttempted, RefuseToSend, RecordEvidence, MarkSent
        <3>2. CASE ReserveDelivery(p)
            BY <3>2 DEF ReserveDelivery
        <3>3. CASE ProviderAccepts(p)
            BY <3>3 DEF ProviderAccepts
        <3>4. CASE ProviderRefuses(p)
            BY <3>4 DEF ProviderRefuses
        <3>5. CASE RecordDelivery(p)
            BY <3>5 DEF RecordDelivery
        <3>6. CASE SettleFailure(p)
            BY <3>6 DEF SettleFailure
        <3>7. CASE Crash(p)
            BY <3>7 DEF Crash
        <3> QED
            BY <1>5, <3>1, <3>2, <3>3, <3>4, <3>5, <3>6, <3>7 DEF Step
    <2> QED
        BY <1>2, <2>1
<1>6. ASSUME NEW s \in Sweeps, ResolveStale(s) PROVE lapse[d] \subseteq lapse'[d]
    BY <1>2, <1>6 DEF ResolveStale
<1> QED
    BY <1>3, <1>4, <1>5, <1>6 DEF Next

-----------------------------------------------------------------------------
(* The invariant is inductive *)

\* Operators stay on the ledger's side.
LEMMA OperatorStep ==
    ASSUME Types, OperatorInv, [Next]_vars
    PROVE  OperatorInv'
<1> SUFFICES ASSUME NEW p \in Operators
             PROVE  sender'[p].stage \in
                        {"idle", "preparing", "sending", "accepted", "failed", "rejected"}
    BY DEF OperatorInv
<1>1. p \in Senders /\ p \notin Workers /\ sender[p] \in SenderState
    BY SendAssumption DEF Senders, Types, SenderTypes
<1>2. CASE sender'[p] = sender[p]
    BY <1>2 DEF OperatorInv
<1>3. CASE Starts(p) \/ Claims(p) \/ Proceeds(p) \/ Records(p)
    BY <1>1, <1>3 DEF Starts, Claims, Proceeds, Records
<1>4. CASE Reserves(p) \/ Answers(p)
    BY <1>1, <1>4 DEF Reserves, Answers, SenderState
<1> QED
    BY <1>1, <1>2, <1>3, <1>4, SenderMoves DEF NoSenderMoves, OneSenderMoves, SenderMove

\* A worker is past its claim because it was before, or because it claims now.
LEMMA EngagedMoves ==
    ASSUME Types, NEW d \in Replies, NEW w \in Workers,
           sender'[w] = sender[w] \/ SenderMove(w), Engaged(w, d)'
    PROVE  \/ Engaged(w, d) /\ sender'[w].count = sender[w].count
           \/ Claims(w) /\ sender[w].reply = d
<1>1. w \in Senders /\ w \notin Operators /\ sender[w] \in SenderState
    BY SendAssumption DEF Senders, Types, SenderTypes
<1>2. CASE sender'[w] = sender[w]
    BY <1>2 DEF Engaged
<1>3. CASE Starts(w)
    BY <1>1, <1>3 DEF Starts, Engaged
<1>4. CASE Claims(w)
    BY <1>4 DEF Claims, Engaged
<1>5. CASE Proceeds(w)
    BY <1>5 DEF Proceeds, Engaged
<1>6. CASE Reserves(w)
    BY <1>1, <1>6 DEF Reserves, Engaged, SenderState
<1>7. CASE Answers(w)
    BY <1>1, <1>7 DEF Answers, Engaged, SenderState
<1>8. CASE Records(w)
    BY <1>8 DEF Records, Engaged
<1> QED
    BY <1>2, <1>3, <1>4, <1>5, <1>6, <1>7, <1>8 DEF SenderMove

\* The count of an outbox row never falls.
LEMMA CountGrows ==
    ASSUME Types, OperatorInv, [Next]_vars, NEW d \in Replies
    PROVE  /\ outbox[d].count \in Nat /\ outbox'[d].count \in Nat
           /\ outbox'[d].count >= outbox[d].count
<1>1. outbox[d].count \in Nat
    BY DEF Types, RowTypes, Row
<1>2. outbox'[d].count \in {outbox[d].count, outbox[d].count + 1}
    BY RowMoves DEF RowMove, Kept, Opens, ClaimedBy, Reopens, Resolves
<1> QED
    BY <1>1, <1>2

\* A claim raises the count above all claims before it.
LEMMA NumberStep ==
    ASSUME Numbered, [Next]_vars
    PROVE  NumberInv'
<1> SUFFICES ASSUME NEW d \in Replies, NEW w \in Workers, NEW z \in Workers, Engaged(w, d)'
             PROVE  /\ sender'[w].count <= outbox'[d].count
                    /\ Engaged(z, d)' /\ sender'[w].count = sender'[z].count => w = z
    BY DEF NumberInv, Engaged
<1>1. /\ outbox[d].count \in Nat /\ outbox'[d].count \in Nat
      /\ outbox'[d].count >= outbox[d].count
      /\ w \in Senders /\ z \in Senders
      /\ \A p \in Senders : sender[p].count \in Nat
    BY CountGrows DEF Numbered, Senders, Types, SenderTypes, SenderState
<1> DEFINE Stays(p) == Engaged(p, d) /\ sender'[p].count = sender[p].count
           Joins(p) == Claims(p) /\ sender[p].reply = d
<1>2. ASSUME NEW p \in Workers, NEW q \in Workers, Stays(p), Stays(q)
      PROVE  /\ sender'[p].count <= outbox[d].count
             /\ sender'[p].count = sender'[q].count => p = q
    BY <1>2 DEF Numbered, NumberInv
<1>3. ASSUME NEW p \in Workers, Joins(p)
      PROVE  sender'[p].count = outbox[d].count + 1 /\ outbox'[d].count = outbox[d].count + 1
    BY <1>3 DEF Claims
<1>4. CASE UNCHANGED sender
    <2>1. Stays(w) /\ (Engaged(z, d)' => Stays(z))
        BY <1>4 DEF Engaged
    <2>2. sender'[w].count = sender[w].count
        BY <1>4
    <2> QED
        BY <1>1, <1>2, <2>1, <2>2
<1>5. CASE OneSenderMoves
    <2>1. PICK p \in Senders : /\ \A q \in Senders : q # p => sender'[q] = sender[q]
                               /\ SenderMove(p)
        BY <1>5 DEF OneSenderMoves
    <2>2. \A q \in Workers : Engaged(q, d)' => Stays(q) \/ (q = p /\ Joins(q))
        <3> SUFFICES ASSUME NEW q \in Workers, Engaged(q, d)'
                     PROVE  Stays(q) \/ (q = p /\ Joins(q))
            OBVIOUS
        <3>1. q \in Senders
            BY DEF Senders
        <3>2. CASE q # p
            BY <2>1, <3>1, <3>2 DEF Engaged
        <3>3. CASE q = p
            BY <2>1, <3>3, EngagedMoves DEF Numbered
        <3> QED
            BY <3>2, <3>3
    <2>3. CASE Stays(w)
        <3>1. CASE Engaged(z, d)' /\ z = p /\ Joins(z)
            <4>1. sender'[w].count <= outbox[d].count
                BY <1>2, <2>3
            <4>2. sender'[z].count = outbox[d].count + 1
                BY <1>3, <3>1
            <4>3. sender'[w].count \in Nat
                BY <1>1, <2>3
            <4> HIDE DEF Stays, Joins
            <4> QED
                BY <1>1, <4>1, <4>2, <4>3
        <3>2. CASE Engaged(z, d)' => Stays(z)
            <4>1. /\ sender'[w].count <= outbox[d].count
                  /\ Engaged(z, d)' /\ sender'[w].count = sender'[z].count => w = z
                BY <1>2, <2>3, <3>2
            <4>2. sender'[w].count \in Nat
                BY <1>1, <2>3
            <4> HIDE DEF Stays, Joins
            <4> QED
                BY <1>1, <4>1, <4>2
        <3> QED
            BY <2>2, <3>1, <3>2
    <2>4. CASE w = p /\ Joins(w)
        <3>1. sender'[w].count = outbox[d].count + 1 /\ outbox'[d].count = outbox[d].count + 1
            BY <1>3, <2>4
        <3>2. ASSUME Engaged(z, d)', z # w PROVE sender'[w].count # sender'[z].count
            <4>1. Stays(z)
                BY <2>2, <2>4, <3>2
            <4>2. sender'[z].count <= outbox[d].count /\ sender'[z].count \in Nat
                BY <1>1, <1>2, <4>1
            <4> HIDE DEF Stays, Joins
            <4> QED
                BY <1>1, <3>1, <4>2
        <3> QED
            BY <1>1, <3>1, <3>2
    <2> QED
        BY <2>2, <2>3, <2>4
<1> QED
    BY <1>4, <1>5, SenderMoves DEF Numbered, NoSenderMoves

\* What a step that is clean afterwards has not met before.
LEMMA CleanStays ==
    ASSUME Types, [Next]_vars, NEW d \in Replies, Clean(d)'
    PROVE  Clean(d)
    BY LapseGrows DEF Clean

\* The reservation gives a PENDING ledger row one caller, and the record ends it.
LEMMA CallerStep ==
    ASSUME Numbered, CallerInv, [Next]_vars
    PROVE  CallerInv'
<1> DEFINE AbsentOK(d) == delivery[d] = "absent" => accepted[d] = 0
           CallOK(p, d) ==
               /\ delivery[d] # "absent"
               /\ p \in Operators => delivery[d] = "pending"
               /\ delivery[d] = "pending" => \A q \in Senders : Caller(q, d) => q = p
               /\ delivery[d] = "pending" /\ sender[p].stage \in {"sending", "failed"} /\ Clean(d)
                      => accepted[d] = 0
<1> SUFFICES ASSUME NEW d \in Replies
             PROVE  /\ AbsentOK(d)'
                    /\ \A p \in Senders : Caller(p, d)' => CallOK(p, d)'
    BY DEF CallerInv
<1>1. /\ delivery \in [Replies -> DeliveryStates]
      /\ accepted \in [Replies -> Nat]
      /\ sender \in [Senders -> SenderState]
      /\ \A p \in Senders : sender[p].stage # "idle" => sender[p].reply \in Replies
    BY DEF Numbered, Types, LedgerTypes, SenderTypes
<1>2. /\ AbsentOK(d)
      /\ \A p \in Senders : Caller(p, d) => CallOK(p, d)
    BY DEF CallerInv
<1>3. Clean(d)' => Clean(d)
    BY CleanStays DEF Numbered
<1>4. ASSUME delivery'[d] = delivery[d], accepted'[d] = accepted[d],
             \A p \in Senders : Caller(p, d)' => Caller(p, d) /\ sender'[p] = sender[p]
      PROVE  /\ AbsentOK(d)'
             /\ \A p \in Senders : Caller(p, d)' => CallOK(p, d)'
    BY <1>2, <1>3, <1>4
<1>5. CASE NoSenderMoves
    BY <1>4, <1>5 DEF NoSenderMoves, Caller
<1>6. CASE OneSenderMoves
    <2>1. PICK m \in Senders : /\ \A q \in Senders : q # m => sender'[q] = sender[q]
                               /\ SenderMove(m)
        BY <1>6 DEF OneSenderMoves
    <2>2. \A q \in Senders : q # m => (Caller(q, d)' <=> Caller(q, d))
        BY <2>1 DEF Caller
    <2>3. sender[m] \in SenderState
        BY <1>1
    <2> DEFINE x == sender[m].reply
    <2>4. CASE Starts(m) \/ Claims(m) \/ Proceeds(m)
        <3>1. ~Caller(m, d)' /\ UNCHANGED <<delivery, accepted>>
            BY <2>4 DEF Starts, Claims, Proceeds, Caller
        <3> QED
            BY <1>4, <2>1, <2>2, <3>1
    <2>5. CASE Reserves(m)
        <3>1. /\ sender'[m].stage = "sending" /\ sender'[m].reply = x
              /\ sender[m].stage = "preparing" /\ x \in Replies
              /\ UNCHANGED accepted
            BY <1>1, <2>3, <2>5 DEF Reserves, SenderState
        <3>2. CASE x # d
            <4>1. ~Caller(m, d)' /\ delivery'[d] = delivery[d]
                BY <1>1, <2>5, <3>1, <3>2 DEF Reserves, Caller
            <4> QED
                BY <1>4, <2>1, <2>2, <3>1, <4>1
        <3>3. CASE x = d /\ delivery[d] = "absent"
            <4>1. delivery'[d] = "pending"
                BY <1>1, <2>5, <3>1, <3>3 DEF Reserves
            <4>2. \A q \in Senders : Caller(q, d)' => q = m
                BY <1>2, <2>2, <3>3
            <4>3. accepted'[d] = 0
                BY <1>2, <3>1, <3>3
            <4> QED
                BY <4>1, <4>2, <4>3
        <3>4. CASE x = d /\ delivery[d] = "failed" /\ m \in Workers
            <4>1. delivery'[d] = "failed"
                BY <1>1, <2>5, <3>1, <3>4 DEF Reserves
            <4>2. m \notin Operators
                BY <3>4, SendAssumption
            <4>3. \A q \in Senders : Caller(q, d)' => q \notin Operators
                BY <1>2, <2>2, <3>4, <4>2
            <4> QED
                BY <4>1, <4>3
        <3> QED
            BY <2>5, <3>2, <3>3, <3>4 DEF Reserves, MayTransmit
    <2>6. CASE Answers(m)
        <3>1. PICK stage \in {"accepted", "failed", "rejected"} :
                  /\ sender'[m] = [sender[m] EXCEPT !.stage = stage]
                  /\ \/ UNCHANGED accepted
                     \/ /\ accepted' = [accepted EXCEPT ![x] = @ + 1]
                        /\ stage = "failed" => "unconfirmed" \in lapse'[x]
            BY <2>6 DEF Answers
        <3>2. /\ sender[m].stage = "sending" /\ x \in Replies
              /\ sender'[m].stage = stage /\ sender'[m].reply = x
              /\ UNCHANGED delivery
            BY <1>1, <2>3, <2>6, <3>1 DEF Answers, SenderState
        <3>3. CASE x # d
            <4>1. ~Caller(m, d)' /\ accepted'[d] = accepted[d]
                BY <1>1, <3>1, <3>2, <3>3 DEF Caller
            <4> QED
                BY <1>4, <2>1, <2>2, <3>2, <4>1
        <3>4. CASE x = d
            <4>1. Caller(m, d) /\ CallOK(m, d)
                BY <1>2, <3>2, <3>4 DEF Caller
            <4>2. \A q \in Senders : Caller(q, d)' => Caller(q, d)
                BY <2>2, <4>1
            <4>3. ASSUME delivery[d] = "pending", stage = "failed", Clean(d)'
                  PROVE  accepted'[d] = 0
                <5>1. accepted[d] = 0
                    BY <1>3, <3>2, <4>1, <4>3
                <5>2. UNCHANGED accepted
                    BY <3>1, <3>4, <4>3 DEF Clean, Mishaps
                <5> QED
                    BY <5>1, <5>2
            <4>4. AbsentOK(d)'
                BY <3>2, <4>1
            <4>5. ASSUME NEW p \in Senders, Caller(p, d)' PROVE CallOK(p, d)'
                <5>1. Caller(p, d) /\ CallOK(p, d)
                    BY <1>2, <4>2, <4>5
                <5>2. delivery[d] = "pending" => p = m
                    BY <4>1, <5>1
                <5>3. delivery[d] = "pending" => \A q \in Senders : Caller(q, d)' => q = p
                    BY <4>2, <5>1
                <5>4. sender'[m].stage # "sending"
                    BY <3>2
                <5> QED
                    BY <3>2, <4>3, <5>1, <5>2, <5>3, <5>4
            <4> QED
                BY <4>4, <4>5
        <3> QED
            BY <3>3, <3>4
    <2>7. CASE Records(m)
        <3>1. /\ ~Caller(m, d)' /\ UNCHANGED accepted
              /\ Caller(m, x) /\ x \in Replies
            BY <1>1, <2>7 DEF Records, Caller
        <3>2. CASE x # d
            <4>1. delivery'[d] = delivery[d]
                BY <1>1, <2>7, <3>2 DEF Records
            <4> QED
                BY <1>4, <2>1, <2>2, <3>1, <4>1
        <3>3. CASE x = d
            <4>1. delivery'[d] \in {"sent", "failed", "rejected"}
                BY <1>1, <2>7, <3>1, <3>3 DEF Records
            <4>2. ASSUME NEW p \in Senders, Caller(p, d)' PROVE p \notin Operators
                <5>1. p # m /\ Caller(p, d) /\ CallOK(p, d)
                    BY <1>2, <2>2, <3>1, <4>2
                <5> QED
                    BY <3>1, <3>3, <5>1
            <4> QED
                BY <4>1, <4>2
        <3> QED
            BY <3>2, <3>3
    <2> QED
        BY <2>1, <2>4, <2>5, <2>6, <2>7 DEF SenderMove
<1> QED
    BY <1>5, <1>6, SenderMoves DEF Numbered

\* An answer without mishap keeps its row: the row is CLAIMED and attempted, and only
\* the worker that claimed it last may reopen it.
LEMMA AnsweredStep ==
    ASSUME Numbered, AnsweredInv, [Next]_vars
    PROVE  AnsweredInv'
<1> SUFFICES ASSUME NEW d \in Replies, NEW w \in Workers,
                    Clean(d)', Caller(w, d)', sender'[w].stage # "sending"
             PROVE  outbox'[d].status \in Resolved \/ (Current(w, d)' /\ outbox'[d].attempted)
    BY DEF AnsweredInv
<1>1. /\ w \in Senders /\ w \notin Operators
      /\ sender \in [Senders -> SenderState] /\ sender[w] \in SenderState
      /\ \A p \in Senders : sender[p].stage # "idle" => sender[p].reply \in Replies
    BY SendAssumption DEF Senders, Numbered, Types, SenderTypes
<1>2. Clean(d)
    BY CleanStays DEF Numbered
<1>3. CASE sender'[w] = sender[w]
    <2>1. Caller(w, d) /\ sender[w].stage # "sending"
        BY <1>3 DEF Caller
    <2>2. outbox[d].status \in Resolved \/ (Current(w, d) /\ outbox[d].attempted)
        BY <1>2, <2>1 DEF AnsweredInv
    <2>3. CASE outbox[d].status \in Resolved
        BY <2>3, ResolvedStep DEF Numbered, StaysResolved
    <2>4. CASE Current(w, d) /\ outbox[d].attempted
        <3>1. ~Opens(d) /\ ~(\E v \in Workers : ClaimedBy(v, d))
            BY <2>4 DEF Current, Opens, ClaimedBy
        <3>2. ~Reopens(d)
            <4> SUFFICES ASSUME Reopens(d) PROVE FALSE
                OBVIOUS
            <4>1. lapse'[d] \cap {"requeued", "released"} = {}
                BY DEF Clean, Mishaps
            <4>2. PICK v \in Workers : /\ sender[v].stage = "settling" /\ sender[v].reply = d
                                       /\ sender[v].count = outbox[d].count
                BY <2>4, <4>1 DEF Reopens
            <4>3. Engaged(v, d) /\ Engaged(w, d) /\ sender[v].count = sender[w].count
                BY <2>1, <2>4, <4>2 DEF Engaged, Caller, Current
            <4>4. v = w
                BY <4>3 DEF Numbered, NumberInv
            <4> QED
                BY <2>1, <4>2, <4>4 DEF Caller
        <3>3. CASE Kept(d)
            BY <1>3, <2>4, <3>3 DEF Kept, Current
        <3>4. CASE Resolves(d)
            BY <3>4 DEF Resolves
        <3> QED
            BY <3>1, <3>2, <3>3, <3>4, RowMoves DEF Numbered, RowMove
    <2> QED
        BY <2>2, <2>3, <2>4
<1>4. CASE Answers(w)
    <2>1. /\ sender'[w].reply = sender[w].reply /\ sender'[w].count = sender[w].count
          /\ UNCHANGED outbox
        BY <1>1, <1>4 DEF Answers, SenderState
    <2>2. sender[w].reply = d
        BY <2>1 DEF Caller
    <2>3. CallLapses(w) \cap Mishaps = {}
        BY <1>4, <2>2 DEF Answers, Clean
    <2>4. Holds(w) /\ outbox[d].count = sender[w].count /\ outbox[d].attempted
        BY <1>1, <2>2, <2>3 DEF CallLapses, Mishaps
    <2> QED
        BY <2>1, <2>2, <2>4 DEF Holds, Current
<1>5. CASE Starts(w) \/ Claims(w) \/ Proceeds(w) \/ Records(w)
    BY <1>5 DEF Starts, Claims, Proceeds, Records, Caller
<1>6. CASE Reserves(w)
    BY <1>1, <1>6 DEF Reserves, SenderState
<1> QED
    BY <1>1, <1>3, <1>4, <1>5, <1>6, SenderMoves
    DEF Numbered, NoSenderMoves, OneSenderMoves, SenderMove

\* A call that must not happen any more is a mishap.
LEMMA LostCallLapses ==
    ASSUME NEW d, NEW p \in Workers, Answers(p), sender[p].reply = d,
           ~(Holds(p) /\ Current(p, d))
    PROVE  ~Clean(d)'
<1>1. p \notin Operators
    BY SendAssumption
<1>2. "overtaken" \in CallLapses(p)
    BY <1>1 DEF CallLapses, Holds, Current
<1>3. "overtaken" \in lapse'[d]
    BY <1>2 DEF Answers
<1> QED
    BY <1>3 DEF Clean, Mishaps

\* A worker that has lost its claim does not get it back.
LEMMA LostStays ==
    ASSUME Numbered, [Next]_vars, NEW d \in Replies, NEW p \in Workers,
           Engaged(p, d), sender'[p] = sender[p], ~(Holds(p) /\ Current(p, d))
    PROVE  ~(Holds(p) /\ Current(p, d))'
<1> SUFFICES ASSUME Holds(p)', Current(p, d)' PROVE FALSE
    OBVIOUS
<1>1. /\ p \in Senders /\ sender[p].reply = d
      /\ sender[p].count \in Nat /\ outbox[d].count \in Nat
      /\ sender[p].count <= outbox[d].count
    BY DEF Senders, Engaged, Numbered, NumberInv, Types, SenderTypes, SenderState, RowTypes, Row
<1>2. /\ outbox'[d].status = "claimed" /\ outbox'[d].claim = sender[p].claim
      /\ outbox'[d].count = sender[p].count
    BY <1>1 DEF Holds, Current
<1>3. CASE Kept(d)
    BY <1>1, <1>2, <1>3 DEF Kept, Holds, Current
<1>4. ASSUME NEW w \in Workers, ClaimedBy(w, d) PROVE FALSE
    BY <1>1, <1>2, <1>4 DEF ClaimedBy
<1>5. CASE Opens(d) \/ Reopens(d) \/ Resolves(d)
    BY <1>2, <1>5 DEF Opens, Reopens, Resolves, Resolved
<1> QED
    BY <1>3, <1>4, <1>5, RowMoves DEF Numbered, RowMove

\* After an acceptance the calls that are still under way are lost ones.
LEMMA CallsStayLost ==
    ASSUME DInv, [Next]_vars, NEW d \in Replies, Clean(d)', accepted[d] > 0
    PROVE  accepted'[d] = accepted[d] /\ CallsLost(d)'
<1>1. /\ delivery \in [Replies -> DeliveryStates]
      /\ accepted \in [Replies -> Nat]
      /\ sender \in [Senders -> SenderState]
      /\ \A p \in Senders : sender[p].stage # "idle" => sender[p].reply \in Replies
      /\ Workers \subseteq Senders
    BY DEF DInv, Numbered, Types, LedgerTypes, SenderTypes, Senders
<1>2. Clean(d)
    BY CleanStays DEF DInv, Numbered
<1>3. CallsLost(d) /\ RetryBlocked(d) /\ delivery[d] # "absent"
    BY <1>1, <1>2 DEF DInv, OnceInv, CallerInv
<1> DEFINE OK(p) ==
        Caller(p, d) =>
            /\ sender[p].stage # "failed"
            /\ sender[p].stage = "sending" => p \in Workers /\ ~(Holds(p) /\ Current(p, d))
<1>4. ASSUME NEW p \in Senders, sender'[p] = sender[p] PROVE OK(p)'
    <2> SUFFICES ASSUME Caller(p, d)'
                 PROVE  /\ sender[p].stage # "failed"
                        /\ sender[p].stage = "sending" => p \in Workers /\ ~(Holds(p) /\ Current(p, d))'
        BY <1>4
    <2>1. Caller(p, d)
        BY <1>4 DEF Caller
    <2>2. /\ sender[p].stage # "failed"
          /\ sender[p].stage = "sending" => p \in Workers /\ ~(Holds(p) /\ Current(p, d))
        BY <1>3, <2>1 DEF CallsLost
    <2>3. ASSUME sender[p].stage = "sending" PROVE p \in Workers /\ ~(Holds(p) /\ Current(p, d))'
        <3>1. Engaged(p, d)
            BY <2>1 DEF Engaged, Caller
        <3> QED
            BY <1>4, <2>2, <2>3, <3>1, LostStays DEF DInv
    <2> QED
        BY <2>2, <2>3
<1>5. CASE NoSenderMoves
    <2>1. \A p \in Senders : OK(p)'
        BY <1>4, <1>5 DEF NoSenderMoves
    <2> QED
        BY <1>5, <2>1 DEF NoSenderMoves, CallsLost
<1>6. CASE OneSenderMoves
    <2>1. PICK m \in Senders : /\ \A q \in Senders : q # m => sender'[q] = sender[q]
                               /\ SenderMove(m)
        BY <1>6 DEF OneSenderMoves
    <2> DEFINE x == sender[m].reply
    <2>2. sender[m] \in SenderState
        BY <1>1
    <2>3. SUFFICES accepted'[d] = accepted[d] /\ OK(m)'
        BY <1>4, <2>1 DEF CallsLost
    <2>4. CASE Starts(m) \/ Claims(m) \/ Proceeds(m) \/ Records(m)
        BY <2>4 DEF Starts, Claims, Proceeds, Records, Caller
    <2>5. CASE Reserves(m)
        <3>1. /\ sender'[m].stage = "sending" /\ sender'[m].reply = x
              /\ sender'[m].count = sender[m].count
              /\ sender[m].stage = "preparing" /\ UNCHANGED <<outbox, accepted>>
            BY <2>2, <2>5 DEF Reserves, SenderState
        <3>2. ASSUME x = d PROVE m \in Workers /\ ~Current(m, d)'
            <4>1. delivery[d] = "failed" /\ m \in Workers
                BY <1>3, <2>5, <3>2 DEF Reserves, MayTransmit
            <4>2. Engaged(m, d)
                BY <3>1, <3>2 DEF Engaged
            <4>3. ~Current(m, d)
                BY <1>3, <3>1, <4>1, <4>2 DEF RetryBlocked, Current, Resolved
            <4> QED
                BY <3>1, <4>1, <4>3 DEF Current
        <3> QED
            BY <3>1, <3>2 DEF Caller
    <2>6. CASE Answers(m)
        <3>1. PICK stage \in {"accepted", "failed", "rejected"} :
                  /\ sender'[m] = [sender[m] EXCEPT !.stage = stage]
                  /\ UNCHANGED accepted \/ accepted' = [accepted EXCEPT ![x] = @ + 1]
            BY <2>6 DEF Answers
        <3>2. sender'[m].reply = x /\ sender[m].stage = "sending"
            BY <2>2, <2>6, <3>1 DEF Answers, SenderState
        <3>3. x # d
            <4> SUFFICES ASSUME x = d PROVE FALSE
                OBVIOUS
            <4>1. m \in Workers /\ ~(Holds(m) /\ Current(m, d))
                BY <1>3, <3>2 DEF CallsLost, Caller
            <4> QED
                BY <2>6, <4>1, LostCallLapses
        <3> QED
            BY <1>1, <3>1, <3>2, <3>3 DEF Caller
    <2> QED
        BY <2>1, <2>4, <2>5, <2>6 DEF SenderMove
<1> QED
    BY <1>5, <1>6, SenderMoves DEF DInv, Numbered

\* A row that blocks a retry goes on to do so, because the worker whose answer it waits
\* for cannot end without a record of that answer.
LEMMA RetryStaysBlocked ==
    ASSUME DInv, [Next]_vars, NEW d \in Replies, Clean(d)', accepted[d] > 0
    PROVE  RetryBlocked(d)'
<1>1. /\ delivery \in [Replies -> DeliveryStates]
      /\ accepted \in [Replies -> Nat]
      /\ sender \in [Senders -> SenderState]
      /\ \A p \in Senders : sender[p].stage # "idle" => sender[p].reply \in Replies
      /\ Workers \subseteq Senders
      /\ outbox[d].count \in Nat
    BY DEF DInv, Numbered, Types, LedgerTypes, SenderTypes, RowTypes, Row, Senders
<1>2. Clean(d)
    BY CleanStays DEF DInv, Numbered
<1>3. CallsLost(d) /\ RetryBlocked(d)
    BY <1>1, <1>2 DEF DInv, OnceInv
<1> SUFFICES ASSUME delivery'[d] = "failed", outbox'[d].status \notin Resolved
             PROVE  /\ outbox'[d].status = "claimed" /\ outbox'[d].attempted
                    /\ \A w \in Workers : Engaged(w, d)' /\ Current(w, d)'
                           => sender'[w].stage \in {"accepted", "rejected"}
    BY DEF RetryBlocked
<1>4. delivery[d] = "failed"
    <2>1. CASE NoSenderMoves
        BY <2>1 DEF NoSenderMoves
    <2>2. ASSUME NEW m \in Senders, SenderMove(m) PROVE delivery[d] = "failed"
        <3>1. CASE Starts(m) \/ Claims(m) \/ Proceeds(m) \/ Answers(m)
            BY <3>1 DEF Starts, Claims, Proceeds, Answers
        <3>2. CASE Reserves(m)
            BY <1>1, <3>2 DEF Reserves
        <3>3. CASE Records(m)
            <4>1. CASE sender[m].reply = d
                <5>1. sender[m].stage # "failed"
                    BY <1>3, <3>3, <4>1 DEF CallsLost, Caller, Records
                <5> QED
                    BY <1>1, <3>3, <4>1, <5>1 DEF Records
            <4> QED
                BY <1>1, <3>3, <4>1 DEF Records
        <3> QED
            BY <2>2, <3>1, <3>2, <3>3 DEF SenderMove
    <2> QED
        BY <2>1, <2>2, SenderMoves DEF DInv, Numbered, OneSenderMoves
<1>5. outbox[d].status \notin Resolved
    BY ResolvedStep DEF DInv, Numbered, StaysResolved
<1>6. /\ outbox[d].status = "claimed" /\ outbox[d].attempted
      /\ \A w \in Workers : Engaged(w, d) /\ Current(w, d)
             => sender[w].stage \in {"accepted", "rejected"}
    BY <1>3, <1>4, <1>5 DEF RetryBlocked
<1>7. Kept(d)
    <2>1. ASSUME Reopens(d) PROVE FALSE
        <3>1. PICK w \in Workers : /\ sender[w].stage = "settling" /\ sender[w].reply = d
                                   /\ sender[w].count = outbox[d].count
            BY <1>6, <2>1 DEF Reopens, Clean, Mishaps
        <3> QED
            BY <1>6, <3>1 DEF Engaged, Current
    <2>2. ~Opens(d) /\ ~(\E w \in Workers : ClaimedBy(w, d)) /\ ~Resolves(d)
        BY <1>6 DEF Opens, ClaimedBy, Resolves
    <2> QED
        BY <2>1, <2>2, RowMoves DEF DInv, Numbered, RowMove
<1>8. /\ outbox'[d].status = "claimed" /\ outbox'[d].attempted
      /\ outbox'[d].count = outbox[d].count
    BY <1>6, <1>7 DEF Kept
<1>9. ASSUME NEW w \in Workers, Engaged(w, d)', Current(w, d)',
             sender'[w] = sender[w] \/ SenderMove(w)
      PROVE  sender'[w].stage \in {"accepted", "rejected"}
    <2>1. w \in Senders /\ sender[w] \in SenderState
        BY <1>1
    <2>2. sender'[w].count = outbox[d].count
        BY <1>8, <1>9 DEF Current
    <2>3. ~Claims(w)
        BY <1>6, <1>9, EngagedMoves DEF Claims, DInv, Numbered, Engaged
    <2>4. Engaged(w, d) /\ sender'[w].count = sender[w].count
        BY <1>9, <2>3, EngagedMoves DEF DInv, Numbered
    <2>5. sender[w].stage \in {"accepted", "rejected"}
        BY <1>6, <2>2, <2>4 DEF Current
    <2>6. CASE sender'[w] = sender[w]
        BY <2>5, <2>6
    <2>7. CASE Starts(w) \/ Reserves(w) \/ Answers(w)
        BY <2>5, <2>7 DEF Starts, Reserves, Answers
    <2>8. CASE Proceeds(w)
        BY <1>9, <2>4, <2>5, <2>8 DEF Proceeds, Engaged, Clean, Mishaps
    <2>9. CASE Records(w)
        BY <1>1, <2>4, <2>5, <2>9 DEF Records, Engaged
    <2> QED
        BY <1>9, <2>3, <2>6, <2>7, <2>8, <2>9 DEF SenderMove
<1>10. \A w \in Workers : sender'[w] = sender[w] \/ SenderMove(w)
    BY <1>1, SenderMoves DEF DInv, Numbered, NoSenderMoves, OneSenderMoves
<1> QED
    BY <1>8, <1>9, <1>10

\* The first acceptance without mishap leaves no call under way: its worker still holds
\* the row, and no other answer could ask for a retry.
LEMMA FirstAcceptance ==
    ASSUME DInv, [Next]_vars, NEW d \in Replies, Clean(d)', accepted[d] = 0, accepted'[d] > 0
    PROVE  accepted'[d] = 1 /\ CallsLost(d)' /\ RetryBlocked(d)'
<1>1. /\ delivery \in [Replies -> DeliveryStates]
      /\ accepted \in [Replies -> Nat]
      /\ sender \in [Senders -> SenderState]
      /\ \A p \in Senders : sender[p].stage # "idle" => sender[p].reply \in Replies
      /\ Workers \subseteq Senders
    BY DEF DInv, Numbered, Types, LedgerTypes, SenderTypes, Senders
<1>2. Clean(d)
    BY CleanStays DEF DInv, Numbered
<1>3. PICK m \in Senders : /\ \A q \in Senders : q # m => sender'[q] = sender[q]
                           /\ SenderMove(m)
    BY SenderMoves DEF DInv, Numbered, NoSenderMoves, OneSenderMoves
<1>4. Answers(m)
    BY <1>3 DEF SenderMove, Starts, Claims, Proceeds, Reserves, Records
<1>5. PICK stage \in {"accepted", "failed", "rejected"} :
          /\ sender'[m] = [sender[m] EXCEPT !.stage = stage]
          /\ accepted' = [accepted EXCEPT ![sender[m].reply] = @ + 1]
          /\ stage = "failed" => "unconfirmed" \in lapse'[sender[m].reply]
    BY <1>4 DEF Answers
<1>6. sender[m].reply = d /\ accepted'[d] = 1
    BY <1>1, <1>5
<1>7. /\ sender[m].stage = "sending" /\ sender'[m].stage = stage
      /\ sender'[m].reply = d /\ sender'[m].count = sender[m].count
      /\ stage # "failed" /\ UNCHANGED <<outbox, delivery>>
    BY <1>1, <1>4, <1>5, <1>6 DEF Answers, SenderState, Clean, Mishaps
<1>8. /\ Caller(m, d) /\ Engaged(m, d)
      /\ m \in Operators => delivery[d] = "pending"
      /\ delivery[d] = "pending" => \A q \in Senders : Caller(q, d) => q = m
    BY <1>6, <1>7 DEF Caller, Engaged, DInv, CallerInv
<1>9. m \in Workers => Holds(m) /\ Current(m, d) /\ outbox[d].attempted
    <2> SUFFICES ASSUME m \in Workers PROVE Holds(m) /\ Current(m, d) /\ outbox[d].attempted
        OBVIOUS
    <2>1. Holds(m) /\ Current(m, d)
        BY <1>4, <1>6, LostCallLapses
    <2>2. m \notin Operators /\ CallLapses(m) \cap Mishaps = {}
        BY <1>4, <1>6, SendAssumption DEF Answers, Clean
    <2>3. outbox[d].attempted
        BY <1>6, <2>2 DEF CallLapses, Mishaps
    <2> QED
        BY <2>1, <2>3
<1>10. ASSUME NEW p \in Workers, Engaged(p, d), Current(p, d), m \in Workers PROVE p = m
    <2>1. sender[p].count = sender[m].count
        BY <1>9, <1>10 DEF Current
    <2> QED
        BY <1>8, <1>10, <2>1 DEF DInv, Numbered, NumberInv
<1>11. CallsLost(d)'
    <2> SUFFICES ASSUME NEW p \in Senders, Caller(p, d)'
                 PROVE  /\ sender'[p].stage # "failed"
                        /\ sender'[p].stage = "sending" =>
                               p \in Workers /\ ~(Holds(p) /\ Current(p, d))'
        BY DEF CallsLost
    <2>1. CASE p = m
        BY <1>7, <2>1
    <2>2. CASE p # m
        <3>1. sender'[p] = sender[p] /\ Caller(p, d) /\ Engaged(p, d)
            BY <1>3, <2>2 DEF Caller, Engaged
        <3>2. delivery[d] # "pending"
            BY <1>8, <2>2, <3>1
        <3>3. m \in Workers /\ p \in Workers
            BY <1>8, <3>1, <3>2 DEF Senders, DInv, CallerInv
        <3>4. ~Current(p, d)
            BY <1>10, <2>2, <3>1, <3>3
        <3>5. ~Current(p, d)'
            BY <1>7, <3>1, <3>4 DEF Current
        <3>6. sender[p].stage # "failed"
            <4> SUFFICES ASSUME sender[p].stage = "failed" PROVE FALSE
                OBVIOUS
            <4>1. outbox[d].status \in Resolved
                BY <1>2, <3>1, <3>3, <3>4 DEF DInv, AnsweredInv
            <4> QED
                BY <1>9, <3>3, <4>1 DEF Current, Resolved
        <3> QED
            BY <3>1, <3>3, <3>5, <3>6
    <2> QED
        BY <2>1, <2>2
<1>12. RetryBlocked(d)'
    <2> SUFFICES ASSUME delivery[d] = "failed"
                 PROVE  /\ outbox'[d].status = "claimed" /\ outbox'[d].attempted
                        /\ \A w \in Workers : Engaged(w, d)' /\ Current(w, d)'
                               => sender'[w].stage \in {"accepted", "rejected"}
        BY <1>7 DEF RetryBlocked
    <2>1. m \in Workers
        BY <1>8 DEF Senders
    <2>2. outbox'[d].status = "claimed" /\ outbox'[d].attempted
        BY <1>7, <1>9, <2>1 DEF Current
    <2>3. ASSUME NEW w \in Workers, Engaged(w, d)', Current(w, d)', w # m PROVE FALSE
        <3>1. sender'[w] = sender[w]
            BY <1>1, <1>3, <2>3
        <3>2. Engaged(w, d) /\ Current(w, d)
            BY <1>7, <2>3, <3>1 DEF Engaged, Current
        <3> QED
            BY <1>10, <2>1, <2>3, <3>2
    <2> QED
        BY <1>7, <2>2, <2>3
<1> QED
    BY <1>6, <1>11, <1>12

\* Every step keeps an acceptance without mishap the only one.
LEMMA OnceStep ==
    ASSUME DInv, [Next]_vars
    PROVE  OnceInv'
<1> SUFFICES ASSUME NEW d \in Replies, Clean(d)', accepted'[d] > 0
             PROVE  accepted'[d] = 1 /\ CallsLost(d)' /\ RetryBlocked(d)'
    BY DEF OnceInv
<1>1. accepted[d] \in Nat
    BY DEF DInv, Numbered, Types, LedgerTypes
<1>2. CASE accepted[d] > 0
    <2>1. accepted[d] = 1
        BY <1>2, CleanStays DEF DInv, Numbered, OnceInv
    <2> QED
        BY <1>2, <2>1, CallsStayLost, RetryStaysBlocked
<1>3. CASE accepted[d] = 0
    BY <1>3, FirstAcceptance
<1> QED
    BY <1>1, <1>2, <1>3

\* Nothing has been sent.
LEMMA DInitInv == Init => DInv
<1> SUFFICES ASSUME Init PROVE DInv
    OBVIOUS
<1>1. Types
    BY InitInv DEF IInv
<1>2. /\ \A p \in Senders : sender[p].stage = "idle"
      /\ \A d \in Replies : accepted[d] = 0
    BY DEF Init, IdleSender
<1>3. OperatorInv /\ NumberInv
    BY <1>2 DEF OperatorInv, NumberInv, Engaged, Senders
<1>4. CallerInv
    BY <1>2 DEF CallerInv, Caller
<1>5. AnsweredInv /\ OnceInv
    BY <1>2 DEF AnsweredInv, OnceInv, Caller, Senders
<1> QED
    BY <1>1, <1>3, <1>4, <1>5 DEF DInv, Numbered

\* The invariant is inductive.
LEMMA DNextInv == DInv /\ [Next]_vars => DInv'
<1> SUFFICES ASSUME DInv, [Next]_vars PROVE DInv'
    OBVIOUS
<1>1. Numbered'
    BY RowStep, SenderStep, LedgerStep, SweepStep, OperatorStep, NumberStep
    DEF DInv, Numbered, Types
<1> QED
    BY <1>1, CallerStep, AnsweredStep, OnceStep DEF DInv

\* It holds in every reachable state.
THEOREM DuplicateInvariant == Spec => []DInv
    BY DInitInv, DNextInv, PTL DEF Spec

\* A reply that is accepted twice has met a mishap that the outbox's markers and the
\* ledger's reservation do not cover: both together leave no other way.
THEOREM DuplicateHasMishap == Spec => []DuplicateNeedsMishap
<1>1. DInv => DuplicateNeedsMishap
    <2> SUFFICES ASSUME DInv, NEW d \in Replies, accepted[d] > 1, Clean(d) PROVE FALSE
        BY DEF DuplicateNeedsMishap, Clean, Mishaps
    <2>1. accepted[d] \in Nat
        BY DEF DInv, Numbered, Types, LedgerTypes
    <2>2. accepted[d] = 1
        BY <2>1 DEF DInv, OnceInv
    <2> QED
        BY <2>2
<1> QED
    BY <1>1, DuplicateInvariant, PTL

-----------------------------------------------------------------------------
(* The bound on the claims *)

\* The workers that have read the row of d and not claimed it yet.
Readers(d) == {w \in Workers : sender[w].stage = "reading" /\ sender[w].reply = d}

\* Each reader may raise the count once more, and so may the dead letter of a row that
\* is not resolved.
CountInv ==
    \A d \in Replies :
        outbox[d].count + Cardinality(Readers(d))
            <= IF outbox[d].status \in Resolved THEN MaxCount ELSE MaxCount - 1

TInv == Types /\ OperatorInv /\ CountInv /\ aged \subseteq Replies

\* There are finitely many readers.
LEMMA ReadersFinite ==
    ASSUME NEW d
    PROVE  /\ IsFiniteSet(Readers(d)) /\ Cardinality(Readers(d)) \in Nat
           /\ Cardinality(Workers) \in Nat /\ MaxAttempts \in Nat \ {0}
           /\ Cardinality(Readers(d)) <= Cardinality(Workers)
    BY FS_Subset, FS_CardinalityType, SendAssumption DEF Readers

\* The readers of a row in the next state are readers now, or one has just read the
\* row within its budget.
LEMMA ReadersMove ==
    ASSUME Types, OperatorInv, [Next]_vars, NEW d \in Replies
    PROVE  Readers(d)' \subseteq Readers(d)
               \/ (outbox[d].count < MaxAttempts /\ outbox'[d] = outbox[d])
<1>1. \A w \in Workers : w \in Senders /\ sender[w] \in SenderState
    BY DEF Senders, Types, SenderTypes
<1>2. ASSUME NEW w \in Workers, SenderMove(w), sender'[w].stage = "reading"
      PROVE  outbox[sender'[w].reply].count < MaxAttempts /\ UNCHANGED outbox
    BY <1>1, <1>2, SendAssumption
    DEF SenderMove, Starts, Claims, Proceeds, Reserves, Answers, Records, SenderState
<1>3. \A w \in Workers : sender'[w] = sender[w] \/ SenderMove(w)
    BY <1>1, SenderMoves DEF NoSenderMoves, OneSenderMoves
<1> QED
    BY <1>2, <1>3 DEF Readers

\* A claim turns a reader into a raised count.
LEMMA CountStep ==
    ASSUME TInv, [Next]_vars
    PROVE  CountInv'
<1> SUFFICES ASSUME NEW d \in Replies
             PROVE  outbox'[d].count + Cardinality(Readers(d)')
                        <= IF outbox'[d].status \in Resolved THEN MaxCount ELSE MaxCount - 1
    BY DEF CountInv, MaxCount
<1>1. /\ outbox[d].count \in Nat /\ outbox'[d].count \in Nat
      /\ outbox[d].count + Cardinality(Readers(d))
             <= IF outbox[d].status \in Resolved THEN MaxCount ELSE MaxCount - 1
    BY CountGrows DEF TInv, CountInv
<1>2. /\ IsFiniteSet(Readers(d)) /\ Cardinality(Readers(d)) \in Nat
      /\ Cardinality(Workers) \in Nat /\ MaxAttempts \in Nat \ {0}
    BY ReadersFinite
<1>3. /\ Readers(d)' \subseteq Workers
      /\ Cardinality(Readers(d)') \in Nat
      /\ Cardinality(Readers(d)') <= Cardinality(Workers)
    BY FS_Subset, FS_CardinalityType, SendAssumption DEF Readers
<1>4. CASE outbox[d].count < MaxAttempts /\ outbox'[d] = outbox[d]
    BY <1>1, <1>2, <1>3, <1>4 DEF MaxCount
<1>5. CASE Readers(d)' \subseteq Readers(d)
    <2>1. Cardinality(Readers(d)') <= Cardinality(Readers(d))
        BY <1>2, <1>5, FS_Subset
    <2>2. CASE Kept(d) \/ Opens(d) \/ Reopens(d)
        <3>1. /\ outbox'[d].count = outbox[d].count
              /\ outbox'[d].status \in Resolved <=> outbox[d].status \in Resolved
            BY <2>2 DEF Kept, Opens, Reopens, Resolved
        <3> QED
            BY <1>1, <1>2, <1>3, <2>1, <3>1 DEF MaxCount
    <2>3. ASSUME NEW w \in Workers, ClaimedBy(w, d)
          PROVE  outbox'[d].count + Cardinality(Readers(d)') <= MaxCount - 1
        <3>1. w \in Readers(d) /\ Readers(d)' \subseteq Readers(d) \ {w}
            BY <1>5, <2>3 DEF ClaimedBy, Readers
        <3>2. /\ IsFiniteSet(Readers(d) \ {w})
              /\ Cardinality(Readers(d) \ {w}) = Cardinality(Readers(d)) - 1
            BY <1>2, <3>1, FS_RemoveElement
        <3>3. Cardinality(Readers(d)') <= Cardinality(Readers(d) \ {w})
            BY <3>1, <3>2, FS_Subset
        <3>4. outbox'[d].count = outbox[d].count + 1 /\ outbox[d].status \notin Resolved
            BY <2>3 DEF ClaimedBy, Resolved
        <3> QED
            BY <1>1, <1>2, <1>3, <3>2, <3>3, <3>4 DEF MaxCount
    <2>4. CASE Resolves(d)
        <3>1. /\ outbox'[d].count <= outbox[d].count + 1
              /\ outbox[d].status \notin Resolved /\ outbox'[d].status \in Resolved
            BY <1>1, <2>4 DEF Resolves, Resolved
        <3> QED
            BY <1>1, <1>2, <1>3, <2>1, <3>1 DEF MaxCount
    <2>5. CASE \E w \in Workers : ClaimedBy(w, d)
        <3>1. outbox'[d].status \notin Resolved
            BY <2>5 DEF ClaimedBy, Resolved
        <3> QED
            BY <2>3, <2>5, <3>1
    <2> QED
        BY <2>2, <2>4, <2>5, RowMoves DEF TInv, RowMove
<1> QED
    BY <1>4, <1>5, ReadersMove DEF TInv

\* Only a reply with a row grows old.
LEMMA AgedStep ==
    ASSUME aged \subseteq Replies, [Next]_vars
    PROVE  aged' \subseteq Replies
<1>1. CASE UNCHANGED aged
    BY <1>1
<1>2. ASSUME NEW d \in Replies, GrowsOld(d) PROVE aged' \subseteq Replies
    BY <1>2 DEF GrowsOld
<1>3. ASSUME NEW p \in Senders, Step(p) \/ Crash(p) PROVE UNCHANGED aged
    BY <1>3
    DEF Step, Crash, ClaimIntent, MarkAttempted, RefuseToSend, ReserveDelivery, ProviderAccepts,
        ProviderRefuses, RecordDelivery, RecordEvidence, MarkSent, SettleFailure
<1> QED
    BY <1>1, <1>2, <1>3
    DEF Next, vars, CreateIntent, Deliver, ReadIntent, Pass, BecomesDue, LeaseExpires,
        DeadLetterExhausted, SendDirectly, ListStale, ResolveStale

\* Every field has its type in every reachable state, the attempt count with it: claims
\* exceed the budget by one for each worker that read the row before, and no more.
THEOREM TypesHold == Spec => []TypeOK
<1>1. Init => TInv
    <2> SUFFICES ASSUME Init PROVE TInv
        OBVIOUS
    <2>1. Types /\ OperatorInv /\ aged \subseteq Replies
        BY InitInv, DInitInv DEF IInv, DInv, Numbered, Init
    <2>2. ASSUME NEW d \in Replies
          PROVE  /\ outbox[d].count = 0 /\ outbox[d].status \notin Resolved
                 /\ Cardinality(Readers(d)) = 0
        <3>1. Readers(d) = {}
            BY DEF Init, Readers, IdleSender, Senders
        <3> QED
            BY <3>1, FS_EmptySet DEF Init, AbsentRow, Resolved
    <2>3. CountInv
        BY <2>2, ReadersFinite DEF CountInv, MaxCount
    <2> QED
        BY <2>1, <2>3 DEF TInv
<1>2. TInv /\ [Next]_vars => TInv'
    BY RowStep, SenderStep, LedgerStep, SweepStep, OperatorStep, CountStep, AgedStep
    DEF TInv, Types
<1>3. TInv => TypeOK
    <2> SUFFICES ASSUME TInv PROVE TypeOK
        OBVIOUS
    <2>1. outbox \in [Replies -> OutboxRow]
        <3> SUFFICES ASSUME NEW d \in Replies PROVE outbox[d] \in OutboxRow
            BY DEF TInv, Types, RowTypes
        <3>1. outbox[d] \in Row /\ outbox[d].count \in Nat
            BY DEF TInv, Types, RowTypes, Row
        <3>2. outbox[d].count \in 0 .. MaxCount
            BY <3>1, ReadersFinite DEF TInv, CountInv, MaxCount
        <3> QED
            BY <3>1, <3>2 DEF Row, OutboxRow
    <2> QED
        BY <2>1 DEF TypeOK, TInv, Types, SenderTypes, LedgerTypes, SweepTypes
<1> QED
    BY <1>1, <1>2, <1>3, PTL DEF Spec

=============================================================================
