----------------------- MODULE DeadLetterReplayProofs -----------------------
(***************************************************************************)
(* Theorems about DeadLetterReplay, for every number of messages, media,   *)
(* workers, fetchers, replays and attempts.                                *)
(*                                                                         *)
(* Inv is the inductive invariant.  Its parts are proved one after the     *)
(* other, each from Inv and one step: the types, what exists before a      *)
(* worker is at work on it, the outcome of a dispatch, the wait for media, *)
(* the replay requests, and what is known of a message that met no trouble.*)
(***************************************************************************)
EXTENDS DeadLetterReplay, WhatsAppMediaFetchProofs, FiniteSetTheorems, TLAPS

Row ==
    [status : {"absent", "pending", "claimed", "dispatched", "dead_lettered"},
     claim : ClaimIds \cup {<<>>}, count : Nat, due : BOOLEAN, stale : BOOLEAN]

Worker ==
    [stage : {"idle", "reading", "claimed", "composing", "dispatching", "marking",
              "deferred", "settling"},
     ingress : Ingresses \cup {NoIngress}, claim : ClaimIds \cup {<<>>}, count : Nat,
     missing : SUBSET Media]

Record ==
    [state : {"absent", "none", "claimed", "published", "failed"}, tries : Nat,
     events : SUBSET Nat]

DlqTypes == dlq \in [Ingresses -> Record]

\* The types, without the bounds on the counts.
Types ==
    /\ outbox \in [Ingresses -> Row]
    /\ aged \in SUBSET Ingresses
    /\ worker \in [Workers -> Worker]
    /\ coordination \in [Ingresses -> Coordination]
    /\ executions \in [Ingresses -> Nat]
    /\ lapse \in [Ingresses -> SUBSET Lapses]
    /\ requests \in SUBSET Request
    /\ DlqTypes

\* A payload names media.
PlaceholderTypes == placeholders \in [Ingresses -> SUBSET Media]

\* A task is at work on a captured message.
CaptureIsFirst ==
    \A p \in Workers :
        worker[p].stage # "idle" =>
            worker[p].ingress \in Ingresses /\ outbox[worker[p].ingress].status # "absent"

\* A worker marks a row after a dispatch that had an outcome.
MarkFollowsOutcome ==
    \A p \in Workers :
        worker[p].stage = "marking" => coordination[worker[p].ingress].outcome # "none"

\* A worker that goes on without the media has an excuse.
HurryIsKnown ==
    \A p \in Workers :
        LET i == worker[p].ingress
        IN  /\ worker[p].stage = "composing" /\ Missing(i) # {} => Excused(i)
            /\ worker[p].stage = "dispatching" /\ worker[p].missing # {} => Excused(i)

\* A request is counted by the record that it replays.
RequestsAreCounted == \A r \in requests : r.tries <= dlq[r.ingress].tries

Active(p) == worker[p].stage \notin {"idle", "reading"}

\* A message that met no trouble has budget left while it waits, and the worker at work
\* on it is the only one and holds its claim.
Waits(i) ==
    /\ dlq[i].state = "absent"
    /\ i \notin aged /\ ~outbox[i].stale
    /\ outbox[i].status \in {"absent", "pending"} => outbox[i].count < MaxAttempts
    /\ \A p \in Workers :
           Active(p) /\ worker[p].ingress = i =>
               /\ worker[p].stage \notin {"deferred", "settling"}
               /\ outbox[i].status = "claimed" /\ outbox[i].count = worker[p].count
               /\ \A q \in Workers : Active(q) /\ worker[q].ingress = i => q = p

UntroubledWaits == \A i \in Ingresses : "troubled" \notin lapse[i] => Waits(i)

Inv ==
    /\ Types
    /\ MediaInv
    /\ PlaceholderTypes
    /\ CaptureIsFirst
    /\ OneExecutionPerIngress
    /\ MarkFollowsOutcome /\ DispatchedHasOutcome
    /\ HurryIsKnown /\ MediaIsWaitedFor
    /\ RequestsAreCounted /\ ReplayClaimsAreExclusive
    /\ UntroubledWaits

-----------------------------------------------------------------------------
\* Nothing is captured at first.
LEMMA InitInv == Init => Inv
  <1> SUFFICES ASSUME Init PROVE Inv
    OBVIOUS
  <1>1. Types
    <2>1. AbsentRow \in Row /\ IdleWorker \in Worker
      BY DEF AbsentRow, IdleWorker, Row, Worker
    <2>2. [outcome |-> "none", missing |-> {}] \in Coordination
      BY DEF Coordination, Outcomes
    <2>3. DlqTypes
      BY DEF Init, DispatchInit, DlqTypes, NoDeadLetter, Record
    <2> QED BY <2>1, <2>2, <2>3 DEF Types, Init, DispatchInit
  <1>2. MediaInv
    BY MediaInvInit DEF Init
  <1>3. \A p \in Workers : worker[p].stage = "idle"
    BY DEF Init, DispatchInit, IdleWorker
  <1>4. PlaceholderTypes
    BY DEF Init, DispatchInit, PlaceholderTypes
  <1>5. CaptureIsFirst
    BY <1>3 DEF CaptureIsFirst
  <1>6. OneExecutionPerIngress /\ DispatchedHasOutcome /\ MediaIsWaitedFor
    BY DEF Init, DispatchInit, OneExecutionPerIngress, DispatchedHasOutcome, MediaIsWaitedFor, AbsentRow
  <1>7. MarkFollowsOutcome /\ HurryIsKnown
    BY <1>3 DEF MarkFollowsOutcome, HurryIsKnown
  <1>8. RequestsAreCounted /\ ReplayClaimsAreExclusive
    BY DEF Init, RequestsAreCounted, ReplayClaimsAreExclusive
  <1>9. UntroubledWaits
    <2>1. \A i \in Ingresses : /\ dlq[i].state = "absent" /\ i \notin aged
                               /\ ~outbox[i].stale /\ outbox[i].count < MaxAttempts
      BY DispatchAssumption DEF Init, DispatchInit, AbsentRow, NoDeadLetter
    <2> QED BY <2>1, <1>3 DEF UntroubledWaits, Waits, Active
  <1> QED BY <1>1, <1>2, <1>4, <1>5, <1>6, <1>7, <1>8, <1>9 DEF Inv

-----------------------------------------------------------------------------
(* Rows, workers and records that the actions write are well typed. *)

LEMMA RowTypes ==
    ASSUME NEW row \in Row
    PROVE  /\ \A due \in BOOLEAN : Reopened(row, due) \in Row
           /\ \A status \in Settled : Ended(row, status) \in Row
           /\ [row EXCEPT !.due = TRUE] \in Row
           /\ [row EXCEPT !.stale = TRUE] \in Row
           /\ [row EXCEPT !.status = "pending", !.due = TRUE] \in Row
           /\ Reset(row) \in Row
           /\ \A id \in ClaimIds \cup {<<>>} :
                  [row EXCEPT !.status = "claimed", !.claim = id, !.count = row.count + 1,
                              !.stale = FALSE] \in Row
           /\ [Ended(row, "dead_lettered") EXCEPT !.count = row.count + 1] \in Row
  <1>1. \A due \in BOOLEAN : Reopened(row, due) \in Row
    BY DEF Row, Reopened
  <1>2. \A status \in Settled : Ended(row, status) \in Row
    BY DEF Row, Ended, Settled
  <1>3. [row EXCEPT !.due = TRUE] \in Row /\ [row EXCEPT !.stale = TRUE] \in Row
    BY DEF Row
  <1>4. [row EXCEPT !.status = "pending", !.due = TRUE] \in Row
    BY DEF Row
  <1>5. Reset(row) \in Row
    <2>1. AbsentRow \in Row
      BY DEF Row, AbsentRow
    <2>2. \A r \in Row : [r EXCEPT !.status = "pending", !.due = TRUE] \in Row
      BY DEF Row
    <2>3. [AbsentRow EXCEPT !.status = "pending", !.due = TRUE] \in Row
      BY <2>1, <2>2, Zenon
    <2> QED BY <2>3 DEF Reset
  <1>6. \A id \in ClaimIds \cup {<<>>} :
            [row EXCEPT !.status = "claimed", !.claim = id, !.count = row.count + 1,
                        !.stale = FALSE] \in Row
    <2>1. row.count + 1 \in Nat
      BY DEF Row
    <2>2. \A id \in ClaimIds \cup {<<>>}, n \in Nat :
              [row EXCEPT !.status = "claimed", !.claim = id, !.count = n, !.stale = FALSE] \in Row
      BY DEF Row
    <2> QED BY <2>1, <2>2, Zenon
  <1>7. [Ended(row, "dead_lettered") EXCEPT !.count = row.count + 1] \in Row
    <2>1. Ended(row, "dead_lettered") \in Row
      BY <1>2 DEF Settled
    <2>2. row.count + 1 \in Nat
      BY DEF Row
    <2>3. \A r \in Row, n \in Nat : [r EXCEPT !.count = n] \in Row
      BY DEF Row
    <2> QED BY <2>1, <2>2, <2>3, Zenon
  <1> QED BY <1>1, <1>2, <1>3, <1>4, <1>5, <1>6, <1>7

LEMMA WorkerTypes ==
    ASSUME NEW w \in Worker
    PROVE  /\ \A stage \in {"composing", "marking", "deferred", "settling"} :
                  [w EXCEPT !.stage = stage] \in Worker
           /\ \A count \in Nat : [w EXCEPT !.stage = "claimed", !.count = count] \in Worker
           /\ \A ms \in SUBSET Media :
                  [w EXCEPT !.stage = "dispatching", !.missing = ms] \in Worker
           /\ IdleWorker \in Worker
           /\ \A i \in Ingresses, id \in ClaimIds :
                  [IdleWorker EXCEPT !.stage = "reading", !.ingress = i, !.claim = id] \in Worker
  BY DEF Worker, IdleWorker

\* A dead letter adds its event, and a record where there is none.
LEMMA RecordedTypes ==
    ASSUME DlqTypes, NEW i \in Ingresses, NEW count \in Nat
    PROVE  /\ Recorded(i, count) \in Record
           /\ Recorded(i, count).tries = dlq[i].tries
           /\ Recorded(i, count).events = dlq[i].events \cup {count}
           /\ Recorded(i, count).state # "absent"
  <1>1. dlq[i] \in Record
    BY DEF DlqTypes
  <1>2. dlq[i].events \cup {count} \in SUBSET Nat
    BY <1>1 DEF Record
  <1> DEFINE st == IF dlq[i].state = "absent" THEN "none" ELSE dlq[i].state
             es == dlq[i].events \cup {count}
  <1>3. st \in {"none", "claimed", "published", "failed"} /\ st # "absent"
    BY <1>1 DEF Record
  <1>4. Recorded(i, count) = [dlq[i] EXCEPT !.state = st, !.events = es]
    BY DEF Recorded
  <1> HIDE DEF st, es
  <1>5. LET d == [dlq[i] EXCEPT !.state = st, !.events = es]
        IN  d \in Record /\ d.tries = dlq[i].tries /\ d.events = es /\ d.state = st
    BY <1>1, <1>2, <1>3 DEF Record, es
  <1> QED BY <1>3, <1>4, <1>5 DEF es

LEMMA LapsedTypes ==
    ASSUME lapse \in [Ingresses -> SUBSET Lapses], NEW i \in Ingresses,
           NEW names \in SUBSET Lapses, Lapsed(i, names)
    PROVE  /\ lapse' \in [Ingresses -> SUBSET Lapses]
           /\ lapse'[i] = lapse[i] \cup names
           /\ \A j \in Ingresses : j # i => lapse'[j] = lapse[j]
  BY DEF Lapsed

\* A worker's message is a message while the worker is at work.
LEMMA AtWork ==
    ASSUME Types, CaptureIsFirst, NEW p \in Workers, worker[p].stage # "idle"
    PROVE  /\ worker[p] \in Worker
           /\ worker[p].ingress \in Ingresses
           /\ outbox[worker[p].ingress] \in Row
           /\ outbox[worker[p].ingress].status # "absent"
  BY DEF Types, CaptureIsFirst

-----------------------------------------------------------------------------
(* Types *)

\* Capture writes a pending row.
LEMMA CaptureTypes ==
    ASSUME Inv, NEW i \in Ingresses, NEW ms \in SUBSET Media, Capture(i, ms),
           UNCHANGED requests
    PROVE  Types'
  <1>1. outbox' \in [Ingresses -> Row]
    <2>1. outbox' = [outbox EXCEPT ![i] = [outbox[i] EXCEPT !.status = "pending", !.due = TRUE]]
      BY DEF Capture
    <2>2. [outbox[i] EXCEPT !.status = "pending", !.due = TRUE] \in Row
      BY RowTypes DEF Inv, Types
    <2> QED BY <2>1, <2>2 DEF Inv, Types
  <1> QED BY <1>1 DEF Inv, Types, DlqTypes, Capture

\* The worker's steps up to its dispatch.
LEMMA ClaimTypes ==
    ASSUME Inv, UNCHANGED requests,
           \/ \E i \in Ingresses : Receive(i)
           \/ \E p \in Workers : ClaimOutbox(p) \/ Defer(p) \/ WaitForMedia(p) \/ ComposePayload(p)
    PROVE  Types'
  <1> USE DEF Inv
  <1>1. ASSUME NEW i \in Ingresses, Receive(i) PROVE Types'
    <2>1. PICK p \in WorkersOf[i], t \in Tasks : ReadOutbox(p, i, t)
      BY <1>1 DEF Receive
    <2>2. p \in Workers /\ <<t, outbox[i].count + 1>> \in ClaimIds
      BY <2>1, DispatchAssumption DEF Types, Row, ClaimIds
    <2>3. worker' \in [Workers -> Worker]
      BY <2>1, <2>2, WorkerTypes DEF Types, ReadOutbox
    <2> QED BY <2>1, <2>3 DEF Types, DlqTypes, ReadOutbox
  <1>2. ASSUME NEW p \in Workers, ClaimOutbox(p) PROVE Types'
    <2> DEFINE i == worker[p].ingress
    <2>1. /\ worker[p] \in Worker /\ i \in Ingresses /\ outbox[i] \in Row
          /\ worker[p].stage = "reading"
      BY <1>2, AtWork DEF ClaimOutbox
    <2>2. UNCHANGED <<aged, coordination, executions, dlq, lapse>>
      BY <1>2 DEF ClaimOutbox
    <2>3. CASE outbox[i].status = "pending" /\ outbox[i].due
      <3> DEFINE row == [outbox[i] EXCEPT !.status = "claimed", !.claim = worker[p].claim,
                                          !.count = outbox[i].count + 1, !.stale = FALSE]
                 w == [worker[p] EXCEPT !.stage = "claimed", !.count = outbox[i].count + 1]
      <3>1. outbox' = [outbox EXCEPT ![i] = row] /\ worker' = [worker EXCEPT ![p] = w]
        BY <1>2, <2>3 DEF ClaimOutbox
      <3>2. row \in Row
        <4>1. worker[p].claim \in ClaimIds \cup {<<>>}
          BY <2>1 DEF Worker
        <4> QED BY <2>1, <4>1, RowTypes
      <3>3. w \in Worker
        <4>1. outbox[i].count + 1 \in Nat
          BY <2>1 DEF Row
        <4> QED BY <2>1, <4>1, WorkerTypes
      <3> HIDE DEF row, w
      <3> QED BY <3>1, <3>2, <3>3, <2>2 DEF Types, DlqTypes
    <2>4. CASE ~(outbox[i].status = "pending" /\ outbox[i].due)
      <3>1. worker' = [worker EXCEPT ![p] = IdleWorker] /\ outbox' = outbox
        BY <1>2, <2>4 DEF ClaimOutbox, Finish
      <3> QED BY <3>1, <2>1, <2>2, WorkerTypes DEF Types, DlqTypes
    <2> QED BY <2>3, <2>4
  <1>3. ASSUME NEW p \in Workers, Defer(p) PROVE Types'
    <2>1. /\ worker[p] \in Worker /\ worker[p].ingress \in Ingresses
          /\ Lapsed(worker[p].ingress, {"troubled"})
          /\ UNCHANGED <<outbox, aged, coordination, executions, dlq>>
      BY <1>3, AtWork DEF Defer
    <2>2. PICK stage \in {"deferred", "settling"} :
              worker' = [worker EXCEPT ![p] = [worker[p] EXCEPT !.stage = stage]]
      BY <1>3 DEF Defer, Advance
    <2>3. lapse' \in [Ingresses -> SUBSET Lapses]
      BY <2>1, LapsedTypes DEF Types, Lapses
    <2>4. [worker[p] EXCEPT !.stage = stage] \in Worker
      BY <2>1, WorkerTypes
    <2> QED BY <2>1, <2>2, <2>3, <2>4 DEF Types, DlqTypes
  <1>4. ASSUME NEW p \in Workers, WaitForMedia(p) PROVE Types'
    <2> DEFINE i == worker[p].ingress
    <2>1. /\ worker[p] \in Worker /\ i \in Ingresses /\ outbox[i] \in Row
          /\ UNCHANGED <<aged, coordination, executions, dlq>>
      BY <1>4, AtWork DEF WaitForMedia
    <2>2. CASE AwaitsMedia(p) /\ Holds(p)
      <3>1. /\ outbox' = [outbox EXCEPT ![i] = Reopened(outbox[i], FALSE)]
            /\ worker' = [worker EXCEPT ![p] = IdleWorker] /\ lapse' = lapse
        BY <1>4, <2>2 DEF WaitForMedia, Rescheduled, Finish
      <3>2. Reopened(outbox[i], FALSE) \in Row
        BY <2>1, RowTypes
      <3> QED BY <2>1, <3>1, <3>2, WorkerTypes DEF Types, DlqTypes
    <2>3. CASE ~(AwaitsMedia(p) /\ Holds(p))
      <3>1. /\ worker' = [worker EXCEPT ![p] = [worker[p] EXCEPT !.stage = "composing"]]
            /\ outbox' = outbox
            /\ Lapsed(i, Excuses(p))
        BY <1>4, <2>3 DEF WaitForMedia, Advance
      <3>2. lapse' \in [Ingresses -> SUBSET Lapses]
        <4>1. Excuses(p) \in SUBSET Lapses
          BY DEF Excuses, Lapses
        <4> QED BY <2>1, <3>1, <4>1, LapsedTypes DEF Types
      <3>3. [worker[p] EXCEPT !.stage = "composing"] \in Worker
        BY <2>1, WorkerTypes
      <3> QED BY <2>1, <3>1, <3>2, <3>3 DEF Types, DlqTypes
    <2> QED BY <2>2, <2>3
  <1>5. ASSUME NEW p \in Workers, ComposePayload(p) PROVE Types'
    <2> DEFINE w == [worker[p] EXCEPT !.stage = "dispatching", !.missing = Missing(worker[p].ingress)]
    <2>1. worker[p] \in Worker /\ worker[p].ingress \in Ingresses
      BY <1>5, AtWork DEF ComposePayload
    <2>2. Missing(worker[p].ingress) \in SUBSET Media
      BY <2>1 DEF Missing, PlaceholderTypes
    <2>3. w \in Worker
      BY <2>1, <2>2, WorkerTypes
    <2>4. /\ worker' = [worker EXCEPT ![p] = w]
          /\ UNCHANGED <<outbox, aged, coordination, executions, dlq, lapse>>
      BY <1>5 DEF ComposePayload
    <2> HIDE DEF w
    <2> QED BY <2>3, <2>4 DEF Types, DlqTypes
  <1> QED BY <1>1, <1>2, <1>3, <1>4, <1>5

\* The dispatch, its mark, and what follows a failure.
LEMMA OutcomeTypes ==
    ASSUME Inv, UNCHANGED requests, NEW p \in Workers,
           Dispatch(p) \/ FailDispatch(p) \/ MarkDispatched(p) \/ SettleFailure(p) \/ Crash(p)
    PROVE  Types'
  <1> USE DEF Inv
  <1> DEFINE i == worker[p].ingress
  <1>1. worker[p] \in Worker /\ i \in Ingresses /\ outbox[i] \in Row
    BY AtWork DEF Dispatch, FailDispatch, MarkDispatched, SettleFailure, Crash
  <1>2. /\ \A stage \in {"marking", "settling"} : [worker[p] EXCEPT !.stage = stage] \in Worker
        /\ IdleWorker \in Worker
    BY <1>1, WorkerTypes
  <1>3. \A stage \in {"marking", "settling"} :
            Advance(p, stage) => worker' \in [Workers -> Worker]
    BY <1>2 DEF Types, Advance
  <1>4. Finish(p) => worker' \in [Workers -> Worker]
    BY <1>2 DEF Types, Finish
  <1>5. Lapsed(i, {"troubled"}) => lapse' \in [Ingresses -> SUBSET Lapses]
    BY <1>1, LapsedTypes DEF Types, Lapses
  <1>6. CASE Dispatch(p)
    <2>1. /\ UNCHANGED <<outbox, aged, dlq>>
          /\ worker' \in [Workers -> Worker] /\ lapse' \in [Ingresses -> SUBSET Lapses]
      BY <1>6, <1>3, <1>5 DEF Dispatch, Types
    <2>2. CASE Enveloped(i)
      BY <1>6, <2>1, <2>2 DEF Dispatch, Types, DlqTypes
    <2>3. CASE ~Enveloped(i)
      <3>1. PICK outcome \in Outcomes \ {"none"} :
                /\ coordination' = [coordination EXCEPT ![i] =
                       [outcome |-> outcome,
                        missing |-> IF outcome = "refused" THEN {} ELSE worker[p].missing]]
                /\ executions' = [executions EXCEPT ![i] =
                       IF outcome = "accepted" THEN executions[i] + 1 ELSE executions[i]]
        BY <1>6, <2>3 DEF Dispatch
      <3>2. [outcome |-> outcome,
             missing |-> IF outcome = "refused" THEN {} ELSE worker[p].missing] \in Coordination
        BY <1>1 DEF Coordination, Worker
      <3>3. coordination' \in [Ingresses -> Coordination]
        BY <3>1, <3>2 DEF Types
      <3>4. executions' \in [Ingresses -> Nat]
        BY <1>1, <3>1 DEF Types
      <3> QED BY <2>1, <3>3, <3>4 DEF Types, DlqTypes
    <2> QED BY <2>2, <2>3
  <1>7. CASE FailDispatch(p)
    BY <1>7, <1>3, <1>5 DEF FailDispatch, Types, DlqTypes
  <1>8. CASE MarkDispatched(p)
    <2>1. /\ UNCHANGED <<aged, coordination, executions, dlq>>
          /\ worker' \in [Workers -> Worker] /\ lapse' \in [Ingresses -> SUBSET Lapses]
      BY <1>8, <1>3, <1>4, <1>5 DEF MarkDispatched, Types
    <2>2. outbox' = outbox \/ outbox' = [outbox EXCEPT ![i] = Ended(outbox[i], "dispatched")]
      BY <1>8 DEF MarkDispatched
    <2>3. Ended(outbox[i], "dispatched") \in Row
      BY <1>1, RowTypes DEF Settled
    <2>4. outbox' \in [Ingresses -> Row]
      BY <1>1, <2>2, <2>3 DEF Types
    <2> QED BY <2>1, <2>4 DEF Types, DlqTypes
  <1>9. CASE SettleFailure(p)
    <2>1. UNCHANGED <<aged, coordination, executions, lapse>> /\ worker' \in [Workers -> Worker]
      BY <1>9, <1>4 DEF SettleFailure
    <2>2. Reopened(outbox[i], FALSE) \in Row /\ Ended(outbox[i], "dead_lettered") \in Row
      BY <1>1, RowTypes DEF Settled
    <2>3. CASE UNCHANGED <<outbox, dlq>>
      BY <2>1, <2>3 DEF Types, DlqTypes
    <2>4. CASE Rescheduled(i) /\ UNCHANGED dlq
      BY <2>1, <2>2, <2>4 DEF Types, DlqTypes, Rescheduled
    <2>5. CASE /\ outbox' = [outbox EXCEPT ![i] = Ended(outbox[i], "dead_lettered")]
               /\ dlq' = [dlq EXCEPT ![i] = Recorded(i, outbox[i].count)]
      <3>1. outbox[i].count \in Nat
        BY <1>1 DEF Row
      <3>2. Recorded(i, outbox[i].count) \in Record
        BY <1>1, <3>1, RecordedTypes DEF Types
      <3>3. DlqTypes'
        BY <2>5, <3>2 DEF Types, DlqTypes
      <3> QED BY <2>1, <2>2, <2>5, <3>3 DEF Types
    <2>6. CASE /\ outbox' = [outbox EXCEPT ![i] = Ended(outbox[i], "dead_lettered")]
               /\ UNCHANGED dlq
      BY <2>1, <2>2, <2>6 DEF Types, DlqTypes
    <2> QED BY <1>9, <2>3, <2>4, <2>5, <2>6 DEF SettleFailure
  <1>10. CASE Crash(p)
    BY <1>10, <1>4 DEF Crash, Types, DlqTypes
  <1> QED BY <1>6, <1>7, <1>8, <1>9, <1>10

\* What a sweep makes of a row.
LEMMA SweptRow ==
    ASSUME Types, NEW i \in Ingresses
    PROVE  /\ Requeued(i) \in Row /\ Buried(i) \in Row
           /\ Requeued(i).count = outbox[i].count
           /\ Requeued(i) # outbox[i] =>
                  outbox[i].status = "claimed" /\ outbox[i].stale /\ Requeued(i).status = "pending"
           /\ Buried(i).status = "dead_lettered" /\ ~Buried(i).stale
           /\ i \in Exhaustion => outbox[i].status \in {"pending", "claimed"}
           /\ ~outbox[i].stale => Requeued(i) = outbox[i]
  <1>1. outbox[i] \in Row
    BY DEF Types
  <1>2. Reopened(outbox[i], outbox[i].due) \in Row /\ Buried(i) \in Row
    <2>1. outbox[i].due \in BOOLEAN
      BY <1>1 DEF Row
    <2> QED BY <1>1, <2>1, RowTypes DEF Buried
  <1>3. /\ Reopened(outbox[i], outbox[i].due).count = outbox[i].count
        /\ Reopened(outbox[i], outbox[i].due).status = "pending"
    BY <1>1 DEF Reopened, Row
  <1>4. Requeued(i) \in Row /\ Requeued(i).count = outbox[i].count
    BY <1>1, <1>2, <1>3 DEF Requeued
  <1>5. Buried(i).status = "dead_lettered" /\ ~Buried(i).stale
    <2>1. Ended(outbox[i], "dead_lettered") \in Row
      BY <1>1, RowTypes DEF Settled
    <2>2. /\ Ended(outbox[i], "dead_lettered").status = "dead_lettered"
          /\ ~Ended(outbox[i], "dead_lettered").stale
      BY <1>1 DEF Ended, Row
    <2>3. \A r \in Row, n \in Nat :
              /\ [r EXCEPT !.count = n].status = r.status
              /\ [r EXCEPT !.count = n].stale = r.stale
      BY DEF Row
    <2>4. outbox[i].count + 1 \in Nat
      BY <1>1 DEF Row
    <2> QED BY <2>1, <2>2, <2>3, <2>4 DEF Buried
  <1> QED BY <1>2, <1>3, <1>4, <1>5 DEF Requeued, Exhaustion

\* Time and the reconciler.
LEMMA SweepTypes ==
    ASSUME Inv, UNCHANGED requests,
           Reconcile \/ \E i \in Ingresses : Pass(i)
    PROVE  Types'
  <1> USE DEF Inv
  <1>1. ASSUME NEW i \in Ingresses, Pass(i) PROVE Types'
    <2>1. [outbox[i] EXCEPT !.due = TRUE] \in Row /\ [outbox[i] EXCEPT !.stale = TRUE] \in Row
      BY RowTypes DEF Types
    <2>2. CASE BecomesDue(i)
      BY <2>1, <2>2 DEF BecomesDue, Types, DlqTypes
    <2>3. Lapsed(i, {"troubled"}) => lapse' \in [Ingresses -> SUBSET Lapses]
      BY LapsedTypes DEF Types, Lapses
    <2>4. CASE LeaseExpires(i)
      BY <2>1, <2>3, <2>4 DEF LeaseExpires, Types, DlqTypes
    <2>5. CASE GrowsOld(i)
      BY <2>3, <2>5 DEF GrowsOld, Types, DlqTypes
    <2> QED BY <1>1, <2>2, <2>4, <2>5 DEF Pass
  <1>2. CASE Reconcile
    <2>1. outbox' \in [Ingresses -> Row]
      BY <1>2, SweptRow DEF Reconcile
    <2>2. DlqTypes'
      <3>1. dlq' = [i \in Ingresses |->
                        IF i \in Exhaustion THEN Recorded(i, outbox[i].count + 1) ELSE dlq[i]]
        BY <1>2 DEF Reconcile
      <3>2. ASSUME NEW i \in Ingresses PROVE Recorded(i, outbox[i].count + 1) \in Record
        <4>1. outbox[i].count + 1 \in Nat
          BY DEF Types, Row
        <4> QED BY <4>1, RecordedTypes DEF Types
      <3> QED BY <3>1, <3>2 DEF Types, DlqTypes
    <2> QED BY <1>2, <2>1, <2>2 DEF Reconcile, Types
  <1> QED BY <1>1, <1>2

\* A replay counts itself in its record, and leaves the other records alone.
LEMMA ClaimReplayRecord ==
    ASSUME Types, NEW i \in Ingresses, ClaimReplay(i)
    PROVE  /\ DlqTypes'
           /\ dlq[i].state # "absent"
           /\ dlq'[i].tries = dlq[i].tries + 1 /\ dlq'[i].events = dlq[i].events
           /\ \A j \in Ingresses : j # i => dlq'[j] = dlq[j]
  <1>1. dlq[i] \in Record /\ dlq[i].tries + 1 \in Nat
    BY DEF Types, DlqTypes, Record
  <1>2. dlq' = [dlq EXCEPT ![i] = [dlq[i] EXCEPT !.state = "claimed",
                                                 !.tries = dlq[i].tries + 1]]
    BY DEF ClaimReplay, NextTry
  <1>3. \A d \in Record, n \in Nat :
            LET e == [d EXCEPT !.state = "claimed", !.tries = n]
            IN  e \in Record /\ e.tries = n /\ e.events = d.events
    BY DEF Record
  <1>4. dlq[i].state # "absent"
    BY DEF ClaimReplay, Replayable
  <1> QED BY <1>1, <1>2, <1>3, <1>4 DEF Types, DlqTypes

\* The other steps of a replay change the state of a record at most.
RecordsAreKept ==
    /\ DlqTypes'
    /\ \A j \in Ingresses : /\ dlq'[j].tries = dlq[j].tries /\ dlq'[j].events = dlq[j].events
                            /\ dlq[j].state = "absent" => dlq'[j] = dlq[j]

LEMMA RecordState ==
    ASSUME Types, NEW i \in Ingresses, dlq[i].state = "claimed",
           NEW state \in {"published", "failed"},
           dlq' = [dlq EXCEPT ![i].state = state]
    PROVE  RecordsAreKept
  <1>1. dlq' = [dlq EXCEPT ![i] = [dlq[i] EXCEPT !.state = state]]
    OBVIOUS
  <1>2. \A d \in Record : LET e == [d EXCEPT !.state = state]
                          IN  e \in Record /\ e.tries = d.tries /\ e.events = d.events
    BY DEF Record
  <1> QED BY <1>1, <1>2 DEF Types, DlqTypes, RecordsAreKept

\* The marks of a replay, and its recovery.
LEMMA MarkedRecord ==
    ASSUME Inv,
           \/ \E r \in requests : PublishReplay(r) \/ MarkReplay(r) \/ AbandonReplay(r)
           \/ \E i \in Ingresses : RecoverReplay(i)
    PROVE  /\ RecordsAreKept
           /\ UNCHANGED <<outbox, aged, worker, coordination, executions, lapse>>
  <1> USE DEF Inv
  <1>1. ASSUME NEW r \in requests, PublishReplay(r) \/ AbandonReplay(r)
        PROVE  UNCHANGED <<dlq, outbox, aged, worker, coordination, executions, lapse>>
    BY <1>1 DEF PublishReplay, AbandonReplay, dispatchVars
  <1>2. UNCHANGED dlq => RecordsAreKept
    BY DEF Types, DlqTypes, RecordsAreKept
  <1>3. ASSUME NEW r \in requests, MarkReplay(r)
        PROVE  /\ RecordsAreKept
               /\ UNCHANGED <<outbox, aged, worker, coordination, executions, lapse>>
    <2>1. r.ingress \in Ingresses
      BY DEF Types, Request
    <2>2. r.stage \in {"published", "failed"}
      BY <1>3 DEF MarkReplay
    <2>3. \/ UNCHANGED dlq
          \/ /\ dlq[r.ingress].state = "claimed"
             /\ dlq' = [dlq EXCEPT ![r.ingress].state = r.stage]
      BY <1>3 DEF MarkReplay
    <2>4. UNCHANGED <<outbox, aged, worker, coordination, executions, lapse>>
      BY <1>3 DEF MarkReplay
    <2> QED BY <2>1, <2>2, <2>3, <2>4, <1>2, RecordState
  <1>4. ASSUME NEW i \in Ingresses, RecoverReplay(i)
        PROVE  /\ RecordsAreKept
               /\ UNCHANGED <<outbox, aged, worker, coordination, executions, lapse>>
    BY <1>4, RecordState DEF RecoverReplay
  <1> QED BY <1>1, <1>2, <1>3, <1>4

\* Operators.
LEMMA ReplayTypes ==
    ASSUME Inv, ReplayNext
    PROVE  Types'
  <1> USE DEF Inv
  <1>1. ASSUME NEW i \in Ingresses, ClaimReplay(i)
        PROVE  Types'
    <2> DEFINE r == [stage |-> "publishing", ingress |-> i, tries |-> dlq[i].tries + 1]
    <2>1. DlqTypes'
      BY <1>1, ClaimReplayRecord
    <2>2. outbox' \in [Ingresses -> Row]
      <3>1. outbox' = [outbox EXCEPT ![i] = Reset(outbox[i])]
        BY <1>1 DEF ClaimReplay
      <3> QED BY <3>1, RowTypes DEF Types
    <2>3. aged' \in SUBSET Ingresses
      BY <1>1 DEF ClaimReplay, Types
    <2>4. requests' = requests \cup {r}
      BY <1>1 DEF ClaimReplay, NextTry
    <2>5. r \in Request
      BY DEF Types, DlqTypes, Record, Request
    <2> QED BY <1>1, <2>1, <2>2, <2>3, <2>4, <2>5 DEF ClaimReplay, Types
  <1>2. ASSUME NEW r \in requests, PublishReplay(r) \/ MarkReplay(r) \/ AbandonReplay(r)
        PROVE  Types'
    <2>1. DlqTypes' /\ UNCHANGED <<outbox, aged, worker, coordination, executions, lapse>>
      BY <1>2, MarkedRecord DEF RecordsAreKept
    <2>2. \A stage \in {"published", "failed"} : [r EXCEPT !.stage = stage] \in Request
      BY DEF Types, Request
    <2>3. requests' \in SUBSET Request
      BY <1>2, <2>2 DEF PublishReplay, MarkReplay, AbandonReplay, Types
    <2> QED BY <2>1, <2>3 DEF Types
  <1>3. ASSUME NEW i \in Ingresses, RecoverReplay(i)
        PROVE  Types'
    <2>1. DlqTypes' /\ UNCHANGED <<outbox, aged, worker, coordination, executions, lapse>>
      BY <1>3, MarkedRecord DEF RecordsAreKept
    <2> QED BY <1>3, <2>1 DEF RecoverReplay, Types
  <1> QED BY <1>1, <1>2, <1>3 DEF ReplayNext

\* Every step keeps the types.
LEMMA TypesStep ==
    ASSUME Inv, [Next]_vars
    PROVE  Types'
  <1>1. ASSUME NEW i \in Ingresses, NEW ms \in SUBSET MediaOf[i], Capture(i, ms),
               UNCHANGED requests
        PROVE  Types'
    BY <1>1, CaptureTypes, DispatchAssumption
  <1>2. ASSUME DispatchNext, UNCHANGED requests PROVE Types'
    BY <1>2, ClaimTypes, OutcomeTypes, SweepTypes DEF DispatchNext, Step
  <1>3. CASE ReplayNext
    BY <1>3, ReplayTypes
  <1>4. ASSUME UNCHANGED <<dispatchVars, requests>> PROVE Types'
    BY <1>4 DEF Inv, Types, DlqTypes, dispatchVars
  <1>5. CASE UNCHANGED vars
    BY <1>4, <1>5 DEF vars
  <1>6. CASE DispatchNext /\ UNCHANGED others
    BY <1>2, <1>6 DEF others
  <1> QED BY <1>1, <1>3, <1>4, <1>5, <1>6 DEF Next

-----------------------------------------------------------------------------
(* What a step may do to the media *)

\* Media rows appear once and are resolved once, and a payload is never rewritten.
LEMMA MediaStep ==
    ASSUME Inv, [Next]_vars
    PROVE  /\ MediaInv' /\ PlaceholderTypes'
           /\ \A m \in Media : Terminal(m) => media'[m] = media[m]
           /\ \A i \in Ingresses :
                  outbox[i].status # "absent" => placeholders'[i] = placeholders[i]
  <1> DEFINE Keeps == \A m \in Media : Terminal(m) => media'[m] = media[m]
             Same == \A i \in Ingresses :
                         outbox[i].status # "absent" => placeholders'[i] = placeholders[i]
  <1>1. ASSUME MediaNext \/ UNCHANGED mediaVars PROVE MediaInv' /\ Keeps
    BY <1>1, MediaStepKeeps, MediaStutter DEF Inv, MediaOnlyResolves
  <1>2. ASSUME UNCHANGED placeholders PROVE PlaceholderTypes' /\ Same
    BY <1>2 DEF Inv, PlaceholderTypes
  <1>3. ASSUME NEW i \in Ingresses, NEW ms \in SUBSET MediaOf[i], Capture(i, ms),
               UNCHANGED mediaVars
        PROVE  MediaInv' /\ Keeps /\ PlaceholderTypes' /\ Same
    <2>1. placeholders' = [placeholders EXCEPT ![i] = ms] /\ ms \in SUBSET Media
      BY <1>3, DispatchAssumption DEF Capture
    <2>2. outbox[i].status = "absent"
      BY <1>3 DEF Capture
    <2> QED BY <1>1, <1>3, <2>1, <2>2 DEF Inv, PlaceholderTypes
  <1>4. ASSUME NEW i \in Ingresses, CaptureMedia(i)
        PROVE  MediaInv' /\ Keeps /\ PlaceholderTypes' /\ Same
    <2>1. PICK ms \in SUBSET Media : CreatePending(ms)
      BY <1>4 DEF CaptureMedia, Inv, PlaceholderTypes
    <2>2. UNCHANGED placeholders
      BY <1>4 DEF CaptureMedia
    <2> QED BY <2>1, <2>2, <1>2, CreatePendingKeeps DEF Inv
  <1>5. ASSUME NEW i \in Ingresses, LoseMedia(i)
        PROVE  UNCHANGED mediaVars /\ UNCHANGED placeholders
    BY <1>5 DEF LoseMedia
  <1>6. CASE DispatchNext /\ UNCHANGED others
    BY <1>1, <1>2, <1>6 DEF others, captureVars
  <1>7. CASE \/ ReplayNext /\ UNCHANGED <<mediaVars, captureVars>>
             \/ MediaNext /\ UNCHANGED <<captureVars, dispatchVars, requests>>
             \/ UNCHANGED vars
    BY <1>1, <1>2, <1>7 DEF captureVars, vars
  <1> QED BY <1>1, <1>2, <1>3, <1>4, <1>5, <1>6, <1>7 DEF Next

\* The media of a captured message that are missing never become more.
LEMMA MissingShrinks ==
    ASSUME Inv, [Next]_vars, NEW i \in Ingresses, outbox[i].status # "absent"
    PROVE  Missing(i)' \subseteq Missing(i)
  <1>1. placeholders'[i] = placeholders[i] /\ placeholders[i] \in SUBSET Media
    BY MediaStep DEF Inv, PlaceholderTypes
  <1>2. \A m \in Media : Terminal(m) => Terminal(m)'
    BY MediaStep DEF Terminal
  <1> QED BY <1>1, <1>2 DEF Missing

-----------------------------------------------------------------------------
(* What a step may do to a row *)

\* Who marks a row dispatched, and which rows change at all.
RowMayChange(i) ==
    /\ outbox'[i].status # "absent"
    /\ outbox[i].status # "dispatched"
    /\ outbox[i].status = "dead_lettered" => requests' # requests
    /\ outbox'[i].status = "dispatched" =>
           \E p \in Workers : worker[p].stage = "marking" /\ worker[p].ingress = i

\* A replay is a request that no operator has made.
LEMMA ReplayIsNew ==
    ASSUME Inv, NEW i \in Ingresses, NEW r, r.ingress = i, r.tries = dlq[i].tries + 1
    PROVE  r \notin requests /\ \A q \in requests : ~(q.ingress = i /\ q.tries = r.tries)
  <1>1. dlq[i].tries \in Nat
    BY DEF Inv, Types, DlqTypes, Record
  <1>2. ASSUME NEW q \in requests, q.ingress = i PROVE q.tries # r.tries
    <2>1. q.tries \in Nat /\ q.tries <= dlq[i].tries
      BY <1>2 DEF Inv, Types, Request, RequestsAreCounted
    <2> QED BY <2>1, <1>1
  <1> QED BY <1>2

LEMMA RowStep ==
    ASSUME Inv, [Next]_vars, NEW i \in Ingresses, outbox'[i] # outbox[i]
    PROVE  RowMayChange(i)
  <1>1. outbox \in [Ingresses -> Row]
    BY DEF Inv, Types
  <1>2. ASSUME NEW j \in Ingresses, NEW ms \in SUBSET MediaOf[j], Capture(j, ms)
        PROVE  RowMayChange(i)
    <2>1. i = j /\ outbox[i].status = "absent"
      BY <1>1, <1>2 DEF Capture
    <2>2. outbox'[i].status = "pending"
      BY <1>1, <1>2, <2>1 DEF Capture, Row
    <2> QED BY <2>1, <2>2 DEF RowMayChange
  <1>3. ASSUME NEW p \in Workers, ClaimOutbox(p) PROVE RowMayChange(i)
    <2>1. worker[p].ingress \in Ingresses
      BY <1>3, AtWork DEF Inv, ClaimOutbox
    <2>2. i = worker[p].ingress /\ outbox[i].status = "pending"
      BY <1>1, <1>3, <2>1 DEF ClaimOutbox
    <2>3. outbox'[i] = [outbox[i] EXCEPT !.status = "claimed", !.claim = worker[p].claim,
                                         !.count = outbox[i].count + 1, !.stale = FALSE]
      BY <1>1, <1>3, <2>2 DEF ClaimOutbox
    <2>4. outbox'[i].status = "claimed"
      BY <1>1, <2>3 DEF Row
    <2> QED BY <2>2, <2>4 DEF RowMayChange
  <1>4. ASSUME NEW p \in Workers, WaitForMedia(p) PROVE RowMayChange(i)
    <2>1. worker[p].ingress \in Ingresses
      BY <1>4, AtWork DEF Inv, WaitForMedia
    <2>2. i = worker[p].ingress /\ Holds(p) /\ Rescheduled(i)
      BY <1>1, <1>4, <2>1 DEF WaitForMedia, Rescheduled
    <2>3. outbox[i].status = "claimed" /\ outbox'[i].status = "pending"
      BY <1>1, <2>2 DEF Holds, Rescheduled, Reopened, Row
    <2> QED BY <2>3 DEF RowMayChange
  <1>5. ASSUME NEW p \in Workers, MarkDispatched(p) PROVE RowMayChange(i)
    <2>1. worker[p].ingress \in Ingresses
      BY <1>5, AtWork DEF Inv, MarkDispatched
    <2>2. /\ i = worker[p].ingress /\ Holds(p) /\ worker[p].stage = "marking"
          /\ outbox'[i] = Ended(outbox[i], "dispatched")
      BY <1>1, <1>5, <2>1 DEF MarkDispatched
    <2>3. outbox[i].status = "claimed" /\ outbox'[i].status = "dispatched"
      BY <1>1, <2>2 DEF Holds, Ended, Row
    <2> QED BY <2>2, <2>3 DEF RowMayChange
  <1>6. ASSUME NEW p \in Workers, SettleFailure(p) PROVE RowMayChange(i)
    <2>1. worker[p].ingress \in Ingresses
      BY <1>6, AtWork DEF Inv, SettleFailure
    <2>2. /\ i = worker[p].ingress /\ Holds(p)
          /\ \/ outbox'[i] = Reopened(outbox[i], FALSE)
             \/ outbox'[i] = Ended(outbox[i], "dead_lettered")
      BY <1>1, <1>6, <2>1 DEF SettleFailure, Rescheduled
    <2>3. outbox[i].status = "claimed" /\ outbox'[i].status \in {"pending", "dead_lettered"}
      BY <1>1, <2>2 DEF Holds, Reopened, Ended, Row
    <2> QED BY <2>3 DEF RowMayChange
  <1>7. ASSUME NEW j \in Ingresses, Pass(j) PROVE RowMayChange(i)
    <2>1. /\ i = j /\ outbox[i].status \in {"pending", "claimed"}
          /\ \/ outbox'[i] = [outbox[i] EXCEPT !.due = TRUE]
             \/ outbox'[i] = [outbox[i] EXCEPT !.stale = TRUE]
      BY <1>1, <1>7 DEF Pass, BecomesDue, LeaseExpires, GrowsOld
    <2>2. outbox'[i].status = outbox[i].status
      BY <1>1, <2>1 DEF Row
    <2> QED BY <2>1, <2>2 DEF RowMayChange
  <1>8. CASE Reconcile
    <2>1. \/ i \in Exhaustion /\ outbox'[i] = Buried(i)
          \/ outbox'[i] = Requeued(i)
      BY <1>8 DEF Reconcile
    <2>2. outbox[i].status \in {"pending", "claimed"}
          /\ outbox'[i].status \in {"pending", "dead_lettered"}
      BY <2>1, SweptRow DEF Inv
    <2> QED BY <2>2 DEF RowMayChange
  <1>9. ASSUME NEW j \in Ingresses, ClaimReplay(j)
        PROVE  RowMayChange(i)
    <2> DEFINE r == [stage |-> "publishing", ingress |-> j, tries |-> dlq[j].tries + 1]
    <2>1. requests' = requests \cup {r} /\ r \notin requests
      BY <1>9, ReplayIsNew DEF ClaimReplay, NextTry
    <2>2. i = j /\ outbox'[i] = Reset(outbox[i])
      BY <1>1, <1>9 DEF ClaimReplay
    <2>3. outbox[i].status # "dispatched" /\ outbox'[i].status = "pending"
      <3>1. [AbsentRow EXCEPT !.status = "pending", !.due = TRUE].status = "pending"
        BY DEF AbsentRow
      <3> QED BY <2>2, <3>1 DEF Reset
    <2> QED BY <2>1, <2>3 DEF RowMayChange
  <1>10. ASSUME \/ \E p \in Workers :
                       \/ Defer(p) \/ ComposePayload(p) \/ Dispatch(p) \/ FailDispatch(p)
                       \/ Crash(p)
                \/ \E j \in Ingresses : Receive(j)
                \/ UNCHANGED dispatchVars
                \/ UNCHANGED vars
         PROVE  FALSE
    BY <1>10 DEF Defer, ComposePayload, Dispatch, FailDispatch, Crash, Receive, ReadOutbox,
       dispatchVars, vars
  <1>11. ASSUME \/ \E r \in requests : PublishReplay(r) \/ MarkReplay(r) \/ AbandonReplay(r)
                \/ \E j \in Ingresses : RecoverReplay(j)
         PROVE  FALSE
    BY <1>11, MarkedRecord
  <1> QED
    BY <1>2, <1>3, <1>4, <1>5, <1>6, <1>7, <1>8, <1>9, <1>10, <1>11
       DEF Next, DispatchNext, Step, ReplayNext

\* Captured messages stay.
LEMMA RowsStay ==
    ASSUME Inv, [Next]_vars, NEW i \in Ingresses, outbox[i].status # "absent"
    PROVE  outbox'[i].status # "absent"
  BY RowStep DEF RowMayChange

-----------------------------------------------------------------------------
(* What a step may do to a worker, to an outcome and to what is known of a message *)

\* A worker ends, takes a message, or goes one step further with its message.
WorkerMayChange(p) ==
    \/ worker'[p].stage = "idle"
    \/ /\ worker[p].stage = "idle" /\ worker'[p].stage = "reading"
       /\ worker'[p].ingress \in Ingresses /\ Receive(worker'[p].ingress)
       /\ outbox[worker'[p].ingress].status = "pending"
    \/ /\ worker[p].stage # "idle" /\ worker'[p].ingress = worker[p].ingress
       /\ \/ worker'[p].stage = "claimed" /\ ClaimOutbox(p)
          \/ worker'[p].stage = "composing" /\ WaitForMedia(p)
          \/ worker'[p].stage = "dispatching" /\ ComposePayload(p)
          \/ worker'[p].stage = "marking" /\ Dispatch(p)
          \/ /\ worker'[p].stage \in {"deferred", "settling"}
             /\ Lapsed(worker[p].ingress, {"troubled"})

LEMMA StageMoves ==
    ASSUME Types, NEW p \in Workers, NEW q \in Workers, NEW stage, Advance(q, stage)
    PROVE  IF q = p THEN worker'[p].stage = stage /\ worker'[p].ingress = worker[p].ingress
                    ELSE worker'[p] = worker[p]
  BY DEF Types, Advance, Worker

LEMMA WorkerEnds ==
    ASSUME Types, NEW p \in Workers, NEW q \in Workers, Finish(q)
    PROVE  IF q = p THEN worker'[p].stage = "idle" ELSE worker'[p] = worker[p]
  BY DEF Types, Finish, IdleWorker

LEMMA WorkerStep ==
    ASSUME Inv, [Next]_vars, NEW p \in Workers, worker'[p] # worker[p]
    PROVE  WorkerMayChange(p)
  <1>1. Types /\ worker \in [Workers -> Worker]
    BY DEF Inv, Types
  <1>2. ASSUME NEW i \in Ingresses, Receive(i) PROVE WorkerMayChange(p)
    <2>1. PICK q \in WorkersOf[i], t \in Tasks : ReadOutbox(q, i, t)
      BY <1>2 DEF Receive
    <2>2. worker[q].stage = "idle" /\ outbox[i].status = "pending" /\ q \in Workers
      BY <2>1, DispatchAssumption DEF ReadOutbox
    <2>3. worker' = [worker EXCEPT ![q] =
              [IdleWorker EXCEPT !.stage = "reading", !.ingress = i,
                                 !.claim = <<t, outbox[i].count + 1>>]]
      BY <2>1 DEF ReadOutbox
    <2>4. /\ worker'[p] = [IdleWorker EXCEPT !.stage = "reading", !.ingress = i,
                                 !.claim = <<t, outbox[i].count + 1>>]
          /\ p = q
      BY <1>1, <2>2, <2>3
    <2>5. worker'[p].stage = "reading" /\ worker'[p].ingress = i
      BY <2>4 DEF IdleWorker
    <2> QED BY <1>2, <2>2, <2>4, <2>5 DEF WorkerMayChange
  <1>3. ASSUME NEW q \in Workers, ClaimOutbox(q) PROVE WorkerMayChange(p)
    <2>1. CASE Finish(q)
      BY <1>1, <2>1, WorkerEnds DEF WorkerMayChange
    <2>2. CASE worker' = [worker EXCEPT ![q] =
                   [worker[q] EXCEPT !.stage = "claimed",
                                     !.count = outbox[worker[q].ingress].count + 1]]
      <3>1. p = q /\ worker'[p].stage = "claimed" /\ worker'[p].ingress = worker[p].ingress
        BY <1>1, <2>2 DEF Worker
      <3> QED BY <1>3, <3>1 DEF WorkerMayChange, ClaimOutbox
    <2> QED BY <1>3, <2>1, <2>2 DEF ClaimOutbox
  <1>4. ASSUME NEW q \in Workers, WaitForMedia(q) PROVE WorkerMayChange(p)
    <2>1. Finish(q) \/ Advance(q, "composing")
      BY <1>4 DEF WaitForMedia
    <2> QED BY <1>1, <1>4, <2>1, WorkerEnds, StageMoves DEF WorkerMayChange, WaitForMedia
  <1>5. ASSUME NEW q \in Workers, ComposePayload(q) PROVE WorkerMayChange(p)
    <2>1. worker' = [worker EXCEPT ![q] =
              [worker[q] EXCEPT !.stage = "dispatching", !.missing = Missing(worker[q].ingress)]]
      BY <1>5 DEF ComposePayload
    <2>2. p = q /\ worker'[p].stage = "dispatching" /\ worker'[p].ingress = worker[p].ingress
      BY <1>1, <2>1 DEF Worker
    <2> QED BY <1>5, <2>2 DEF WorkerMayChange, ComposePayload
  <1>6. ASSUME NEW q \in Workers, Dispatch(q) PROVE WorkerMayChange(p)
    <2>1. \/ Advance(q, "marking")
          \/ Advance(q, "settling") /\ Lapsed(worker[q].ingress, {"troubled"})
      BY <1>6 DEF Dispatch
    <2> QED BY <1>1, <1>6, <2>1, StageMoves DEF WorkerMayChange, Dispatch
  <1>7. ASSUME NEW q \in Workers, Defer(q) \/ FailDispatch(q) PROVE WorkerMayChange(p)
    <2>1. /\ worker[q].stage # "idle"
          /\ \E stage \in {"deferred", "settling"} : Advance(q, stage)
          /\ Lapsed(worker[q].ingress, {"troubled"})
      BY <1>7 DEF Defer, FailDispatch
    <2> QED BY <1>1, <2>1, StageMoves DEF WorkerMayChange
  <1>8. ASSUME NEW q \in Workers, MarkDispatched(q) PROVE WorkerMayChange(p)
    <2>1. /\ worker[q].stage # "idle"
          /\ \/ Finish(q)
             \/ Advance(q, "settling") /\ Lapsed(worker[q].ingress, {"troubled"})
      BY <1>8 DEF MarkDispatched
    <2> QED BY <1>1, <2>1, StageMoves, WorkerEnds DEF WorkerMayChange
  <1>9. ASSUME NEW q \in Workers, SettleFailure(q) \/ Crash(q) PROVE WorkerMayChange(p)
    BY <1>1, <1>9, WorkerEnds DEF WorkerMayChange, SettleFailure, Crash
  <1>10. ASSUME \/ \E i \in Ingresses : \E ms \in SUBSET MediaOf[i] : Capture(i, ms)
                \/ \E i \in Ingresses : Pass(i)
                \/ Reconcile
                \/ \E i \in Ingresses : ClaimReplay(i)
                \/ UNCHANGED dispatchVars
                \/ UNCHANGED vars
         PROVE  FALSE
    BY <1>10 DEF Capture, Pass, BecomesDue, LeaseExpires, GrowsOld, Reconcile, ClaimReplay,
       dispatchVars, vars
  <1>11. ASSUME \/ \E r \in requests : PublishReplay(r) \/ MarkReplay(r) \/ AbandonReplay(r)
                \/ \E i \in Ingresses : RecoverReplay(i)
         PROVE  FALSE
    BY <1>11, MarkedRecord
  <1> QED
    BY <1>2, <1>3, <1>4, <1>5, <1>6, <1>7, <1>8, <1>9, <1>10, <1>11
       DEF Next, DispatchNext, Step, ReplayNext

\* A message's outcome is decided by a dispatch, once its envelope is written for good.
LEMMA OutcomeStep ==
    ASSUME Inv, [Next]_vars, NEW i \in Ingresses
    PROVE  \/ coordination'[i] = coordination[i] /\ executions'[i] = executions[i]
           \/ /\ ~Enveloped(i) /\ coordination'[i].outcome \in Outcomes \ {"none"}
              /\ executions'[i] = executions[i] + (IF coordination'[i].outcome = "accepted"
                                                   THEN 1 ELSE 0)
              /\ coordination'[i].missing # {} =>
                     \E p \in Workers : /\ worker[p].stage = "dispatching"
                                        /\ worker[p].ingress = i /\ worker[p].missing # {}
  <1>1. /\ coordination \in [Ingresses -> Coordination] /\ executions \in [Ingresses -> Nat]
    BY DEF Inv, Types
  <1>2. CASE \E p \in Workers : Dispatch(p)
    <2>1. PICK p \in Workers : Dispatch(p)
      BY <1>2
    <2>2. worker[p].stage = "dispatching"
      BY <2>1 DEF Dispatch
    <2>3. CASE Enveloped(worker[p].ingress)
      BY <2>1, <2>3 DEF Dispatch
    <2>4. CASE ~Enveloped(worker[p].ingress)
      <3>1. PICK outcome \in Outcomes \ {"none"} :
                /\ coordination' = [coordination EXCEPT ![worker[p].ingress] =
                       [outcome |-> outcome,
                        missing |-> IF outcome = "refused" THEN {} ELSE worker[p].missing]]
                /\ executions' = [executions EXCEPT ![worker[p].ingress] =
                       IF outcome = "accepted" THEN executions[worker[p].ingress] + 1
                       ELSE executions[worker[p].ingress]]
        BY <2>1, <2>4 DEF Dispatch
      <3>2. CASE i # worker[p].ingress
        BY <3>1, <3>2
      <3>3. CASE i = worker[p].ingress
        <4>1. /\ coordination'[i] = [outcome |-> outcome,
                        missing |-> IF outcome = "refused" THEN {} ELSE worker[p].missing]
              /\ executions'[i] = IF outcome = "accepted" THEN executions[i] + 1 ELSE executions[i]
          BY <1>1, <3>1, <3>3
        <4>2. coordination'[i].outcome = outcome
              /\ (coordination'[i].missing # {} => worker[p].missing # {})
          BY <4>1
        <4> QED BY <1>1, <2>2, <2>4, <3>3, <4>1, <4>2
      <3> QED BY <3>2, <3>3
    <2> QED BY <2>3, <2>4
  <1>3. ASSUME \/ \E j \in Ingresses : \E ms \in SUBSET MediaOf[j] : Capture(j, ms)
               \/ \E j \in Ingresses : Receive(j) \/ Pass(j)
               \/ \E p \in Workers :
                      \/ ClaimOutbox(p) \/ Defer(p) \/ WaitForMedia(p) \/ ComposePayload(p)
                      \/ FailDispatch(p) \/ MarkDispatched(p) \/ SettleFailure(p) \/ Crash(p)
               \/ Reconcile
               \/ \E j \in Ingresses : ClaimReplay(j)
               \/ UNCHANGED dispatchVars
               \/ UNCHANGED vars
        PROVE  UNCHANGED <<coordination, executions>>
    BY <1>3 DEF Capture, Receive, ReadOutbox, Pass, BecomesDue, LeaseExpires, GrowsOld,
       ClaimOutbox, Defer, WaitForMedia, ComposePayload, FailDispatch, MarkDispatched,
       SettleFailure, Crash, Reconcile, ClaimReplay, dispatchVars, vars
  <1>4. ASSUME \/ \E r \in requests : PublishReplay(r) \/ MarkReplay(r) \/ AbandonReplay(r)
               \/ \E j \in Ingresses : RecoverReplay(j)
        PROVE  UNCHANGED <<coordination, executions>>
    BY <1>4, MarkedRecord
  <1> QED BY <1>2, <1>3, <1>4 DEF Next, DispatchNext, Step, ReplayNext

\* What happened to a message is not forgotten.
LEMMA LapseGrows ==
    ASSUME Inv, [Next]_vars, NEW i \in Ingresses
    PROVE  lapse[i] \subseteq lapse'[i]
  <1>1. lapse \in [Ingresses -> SUBSET Lapses]
    BY DEF Inv, Types
  <1>2. ASSUME UNCHANGED lapse \/ \E j, names : Lapsed(j, names)
        PROVE  lapse[i] \subseteq lapse'[i]
    BY <1>1, <1>2 DEF Lapsed
  <1>3. \/ UNCHANGED lapse
        \/ \E j, names : Lapsed(j, names)
        \/ \E r \in requests : PublishReplay(r) \/ MarkReplay(r) \/ AbandonReplay(r)
        \/ \E j \in Ingresses : RecoverReplay(j)
    BY DEF Next, DispatchNext, Step, ReplayNext, Capture, Receive, ReadOutbox, Pass,
       BecomesDue, LeaseExpires, GrowsOld, ClaimOutbox, Defer, WaitForMedia, ComposePayload,
       Dispatch, FailDispatch, MarkDispatched, SettleFailure, Crash, Reconcile, ClaimReplay,
       dispatchVars, vars
  <1> QED BY <1>2, <1>3, MarkedRecord

-----------------------------------------------------------------------------
(* The parts of the invariant *)

LEMMA CaptureStep ==
    ASSUME Inv, [Next]_vars
    PROVE  CaptureIsFirst'
  <1> SUFFICES ASSUME NEW p \in Workers, worker'[p].stage # "idle"
               PROVE  worker'[p].ingress \in Ingresses
                      /\ outbox'[worker'[p].ingress].status # "absent"
    BY DEF CaptureIsFirst
  <1>1. CASE worker'[p] = worker[p]
    BY <1>1, RowsStay DEF Inv, CaptureIsFirst
  <1>2. CASE worker'[p] # worker[p]
    <2>1. WorkerMayChange(p)
      BY <1>2, WorkerStep
    <2>2. worker'[p].ingress \in Ingresses /\ outbox[worker'[p].ingress].status # "absent"
      BY <2>1 DEF WorkerMayChange, Inv, CaptureIsFirst
    <2> QED BY <2>2, RowsStay
  <1> QED BY <1>1, <1>2

LEMMA OutcomeKept ==
    ASSUME Inv, [Next]_vars
    PROVE  OneExecutionPerIngress' /\ MarkFollowsOutcome' /\ DispatchedHasOutcome'
  <1>1. OneExecutionPerIngress'
    <2> SUFFICES ASSUME NEW i \in Ingresses
                 PROVE  executions'[i] = IF coordination'[i].outcome = "accepted" THEN 1 ELSE 0
      BY DEF OneExecutionPerIngress
    <2>1. executions[i] = IF coordination[i].outcome = "accepted" THEN 1 ELSE 0
      BY DEF Inv, OneExecutionPerIngress
    <2>2. ~Enveloped(i) => executions[i] = 0
      BY <2>1 DEF Enveloped
    <2> QED BY <2>1, <2>2, OutcomeStep
  <1>2. ASSUME NEW i \in Ingresses, coordination[i].outcome # "none"
        PROVE  coordination'[i].outcome # "none"
    BY <1>2, OutcomeStep
  <1>3. ASSUME NEW p \in Workers, Dispatch(p)
        PROVE  coordination'[worker[p].ingress].outcome # "none"
    <2> DEFINE i == worker[p].ingress
    <2>1. i \in Ingresses
      BY <1>3, AtWork DEF Inv, Dispatch
    <2>2. CASE Enveloped(i)
      BY <2>1, <2>2, <1>2 DEF Enveloped
    <2>3. CASE ~Enveloped(i)
      <3>1. PICK outcome \in Outcomes \ {"none"} :
                coordination' = [coordination EXCEPT ![i] =
                       [outcome |-> outcome,
                        missing |-> IF outcome = "refused" THEN {} ELSE worker[p].missing]]
        BY <1>3, <2>3 DEF Dispatch
      <3> QED BY <2>1, <3>1 DEF Inv, Types
    <2> QED BY <2>2, <2>3
  <1>4. MarkFollowsOutcome'
    <2> SUFFICES ASSUME NEW p \in Workers, worker'[p].stage = "marking"
                 PROVE  coordination'[worker'[p].ingress].outcome # "none"
      BY DEF MarkFollowsOutcome
    <2>1. CASE worker'[p] = worker[p]
      BY <2>1, <1>2, AtWork DEF Inv, MarkFollowsOutcome
    <2>2. CASE worker'[p] # worker[p]
      BY <2>2, <1>3, WorkerStep DEF WorkerMayChange
    <2> QED BY <2>1, <2>2
  <1>5. DispatchedHasOutcome'
    <2> SUFFICES ASSUME NEW i \in Ingresses, outbox'[i].status = "dispatched"
                 PROVE  coordination'[i].outcome # "none"
      BY DEF DispatchedHasOutcome
    <2>1. CASE outbox'[i] = outbox[i]
      BY <2>1, <1>2 DEF Inv, DispatchedHasOutcome
    <2>2. CASE outbox'[i] # outbox[i]
      BY <2>2, <1>2, RowStep DEF RowMayChange, Inv, MarkFollowsOutcome
    <2> QED BY <2>1, <2>2
  <1> QED BY <1>1, <1>4, <1>5

LEMMA WaitStep ==
    ASSUME Inv, [Next]_vars
    PROVE  HurryIsKnown' /\ MediaIsWaitedFor'
  <1>1. ASSUME NEW i \in Ingresses, Excused(i) PROVE Excused(i)'
    BY <1>1, LapseGrows DEF Excused
  <1>2. ASSUME NEW p \in Workers, WaitForMedia(p), Missing(worker[p].ingress) # {},
               worker'[p].stage = "composing"
        PROVE  Excused(worker[p].ingress)'
    <2> DEFINE i == worker[p].ingress
    <2>1. /\ worker \in [Workers -> Worker] /\ worker[p] \in Worker /\ i \in Ingresses
          /\ lapse \in [Ingresses -> SUBSET Lapses]
      BY <1>2, AtWork DEF Inv, Types, WaitForMedia
    <2>2. ~(AwaitsMedia(p) /\ Holds(p))
      BY <1>2, <2>1 DEF WaitForMedia, Finish, IdleWorker
    <2>3. PendingMedia(i) # {} => worker[p].count >= MediaWaitLimit \/ ~Holds(p)
      <3>1. worker[p].count \in Nat /\ MediaWaitLimit \in Nat
        BY <2>1, DispatchAssumption DEF Worker
      <3> QED BY <2>2, <3>1 DEF AwaitsMedia
    <2>4. Excuses(p) \cap {"hurried", "unregistered"} # {}
      BY <1>2, <2>3 DEF Excuses
    <2>5. Lapsed(i, Excuses(p)) /\ Excuses(p) \in SUBSET Lapses
      BY <1>2, <2>2 DEF WaitForMedia, Excuses, Lapses
    <2>6. lapse'[i] = lapse[i] \cup Excuses(p)
      BY <2>1, <2>5, LapsedTypes
    <2>7. lapse'[worker[p].ingress] \cap {"hurried", "unregistered"} # {}
      BY <2>4, <2>6
    <2>8. worker'[p].ingress = worker[p].ingress
      BY <1>2, <2>1, <2>2 DEF WaitForMedia, Advance, Worker
    <2> QED BY <2>7, <2>8 DEF Excused
  <1>3. ASSUME NEW p \in Workers, ComposePayload(p)
        PROVE  /\ worker[p].stage = "composing"
               /\ worker'[p].missing = Missing(worker[p].ingress)
    BY <1>3 DEF ComposePayload, Inv, Types, Worker
  <1>4. HurryIsKnown'
    <2> SUFFICES ASSUME NEW p \in Workers, NEW i, i = worker'[p].ingress
                 PROVE  /\ worker'[p].stage = "composing" /\ Missing(i)' # {} => Excused(i)'
                        /\ worker'[p].stage = "dispatching" /\ worker'[p].missing # {}
                               => Excused(i)'
      BY DEF HurryIsKnown, Missing, Excused
    <2>1. CASE worker'[p] = worker[p] /\ worker[p].stage # "idle"
      <3>1. i = worker[p].ingress /\ i \in Ingresses /\ outbox[i].status # "absent"
        BY <2>1, AtWork DEF Inv
      <3>2. Missing(i)' \subseteq Missing(i)
        BY <3>1, MissingShrinks
      <3>3. /\ worker[p].stage = "composing" /\ Missing(i) # {} => Excused(i)
            /\ worker[p].stage = "dispatching" /\ worker[p].missing # {} => Excused(i)
        BY <3>1 DEF Inv, HurryIsKnown
      <3> QED BY <2>1, <3>1, <3>2, <3>3, <1>1
    <2>2. CASE worker'[p] = worker[p] /\ worker[p].stage = "idle"
      BY <2>2
    <2>3. CASE worker'[p] # worker[p]
      <3>1. WorkerMayChange(p)
        BY <2>3, WorkerStep
      <3>2. ASSUME worker'[p].stage = "composing", Missing(i)' # {}
            PROVE  Excused(i)'
        <4>1. WaitForMedia(p) /\ worker[p].stage # "idle" /\ i = worker[p].ingress
          BY <3>1, <3>2 DEF WorkerMayChange
        <4>2. i \in Ingresses /\ outbox[i].status # "absent"
          BY <4>1, AtWork DEF Inv
        <4>3. Missing(i)' \subseteq Missing(i)
          BY <4>2, MissingShrinks
        <4> QED BY <3>2, <4>1, <4>3, <1>2
      <3>3. ASSUME worker'[p].stage = "dispatching", worker'[p].missing # {}
            PROVE  Excused(i)'
        <4>1. ComposePayload(p) /\ worker[p].stage # "idle" /\ i = worker[p].ingress
          BY <3>1, <3>3 DEF WorkerMayChange
        <4>2. i \in Ingresses
          BY <4>1, AtWork DEF Inv
        <4>3. Excused(i)
          BY <3>3, <4>1, <1>3 DEF Inv, HurryIsKnown
        <4> QED BY <4>2, <4>3, <1>1
      <3> QED BY <3>2, <3>3
    <2> QED BY <2>1, <2>2, <2>3
  <1>5. MediaIsWaitedFor'
    <2> SUFFICES ASSUME NEW i \in Ingresses, coordination'[i].missing # {}
                 PROVE  Excused(i)'
      BY DEF MediaIsWaitedFor
    <2>1. Excused(i)
      BY OutcomeStep DEF Inv, MediaIsWaitedFor, HurryIsKnown
    <2> QED BY <2>1, <1>1
  <1> QED BY <1>4, <1>5

\* The replays that a record counts are never forgotten.
LEMMA DlqGrows ==
    ASSUME Inv, [Next]_vars, NEW i \in Ingresses
    PROVE  dlq[i].tries \in Nat /\ dlq'[i].tries >= dlq[i].tries
  <1>1. DlqTypes /\ dlq[i] \in Record /\ outbox[i] \in Row
    BY DEF Inv, Types, DlqTypes
  <1>2. dlq[i].tries \in Nat
    BY <1>1 DEF Record
  <1> DEFINE Grown == dlq'[i].tries >= dlq[i].tries
  <1>3. dlq'[i] = dlq[i] => Grown
    BY <1>2
  <1>4. ASSUME NEW count \in Nat, dlq'[i] = Recorded(i, count) PROVE Grown
    BY <1>1, <1>2, <1>4, RecordedTypes
  <1>5. ASSUME NEW p \in Workers, SettleFailure(p) PROVE Grown
    <2>1. worker[p].ingress \in Ingresses /\ outbox[worker[p].ingress] \in Row
      BY <1>5, AtWork DEF Inv, SettleFailure
    <2>2. CASE dlq'[i] = dlq[i]
      BY <2>2, <1>3
    <2>3. CASE dlq'[i] # dlq[i]
      <3>1. i = worker[p].ingress /\ dlq'[i] = Recorded(i, outbox[i].count)
        BY <1>1, <1>5, <2>1, <2>3 DEF SettleFailure, DlqTypes
      <3>2. outbox[i].count \in Nat
        BY <1>1 DEF Row
      <3> QED BY <1>4, <3>1, <3>2
    <2> QED BY <2>2, <2>3
  <1>6. ASSUME Reconcile PROVE Grown
    <2>1. CASE i \in Exhaustion
      <3>1. dlq'[i] = Recorded(i, outbox[i].count + 1)
        BY <1>6, <2>1 DEF Reconcile
      <3>2. outbox[i].count + 1 \in Nat
        BY <1>1 DEF Row
      <3> QED BY <1>4, <3>1, <3>2
    <2>2. CASE i \notin Exhaustion
      <3>1. dlq'[i] = dlq[i]
        BY <1>6, <2>2 DEF Reconcile
      <3> QED BY <1>3, <3>1
    <2> QED BY <2>1, <2>2
  <1>7. ASSUME NEW j \in Ingresses, ClaimReplay(j) PROVE Grown
    <2>1. dlq'[j].tries = dlq[j].tries + 1 /\ (i # j => dlq'[i] = dlq[i])
      BY <1>7, ClaimReplayRecord DEF Inv
    <2> QED BY <2>1, <1>2
  <1>8. ASSUME \/ \E r \in requests : PublishReplay(r) \/ MarkReplay(r) \/ AbandonReplay(r)
               \/ \E j \in Ingresses : RecoverReplay(j)
        PROVE  Grown
    BY <1>2, <1>8, MarkedRecord DEF RecordsAreKept
  <1>9. ASSUME \/ \E j \in Ingresses : \E ms \in SUBSET MediaOf[j] : Capture(j, ms)
               \/ \E j \in Ingresses : Receive(j) \/ Pass(j)
               \/ \E p \in Workers :
                      \/ ClaimOutbox(p) \/ Defer(p) \/ WaitForMedia(p) \/ ComposePayload(p)
                      \/ Dispatch(p) \/ FailDispatch(p) \/ MarkDispatched(p) \/ Crash(p)
               \/ UNCHANGED dispatchVars
               \/ UNCHANGED vars
        PROVE  UNCHANGED dlq
    BY <1>9 DEF Capture, Receive, ReadOutbox, Pass, BecomesDue, LeaseExpires, GrowsOld,
       ClaimOutbox, Defer, WaitForMedia, ComposePayload, Dispatch, FailDispatch,
       MarkDispatched, Crash, dispatchVars, vars
  <1> QED
    BY <1>2, <1>3, <1>5, <1>6, <1>7, <1>8, <1>9 DEF Next, DispatchNext, Step, ReplayNext

LEMMA RequestsStep ==
    ASSUME Inv, [Next]_vars
    PROVE  RequestsAreCounted' /\ ReplayClaimsAreExclusive'
  <1>1. \A r \in requests : r \in Request /\ r.tries <= dlq[r.ingress].tries
    BY DEF Inv, Types, RequestsAreCounted
  <1>2. ASSUME NEW r, r \in Request, r.tries <= dlq[r.ingress].tries
        PROVE  r.tries <= dlq'[r.ingress].tries
    <2>1. r.ingress \in Ingresses /\ r.tries \in Nat
      BY <1>2 DEF Request
    <2>2. /\ dlq[r.ingress].tries \in Nat
          /\ dlq'[r.ingress].tries >= dlq[r.ingress].tries
      BY <1>2, <2>1, DlqGrows
    <2>3. dlq'[r.ingress].tries \in Nat
      BY <2>1, TypesStep DEF Types, DlqTypes, Record
    <2> QED BY <1>2, <2>1, <2>2, <2>3
  <1>3. CASE requests' \subseteq requests
    BY <1>1, <1>2, <1>3 DEF Inv, RequestsAreCounted, ReplayClaimsAreExclusive
  <1>4. ASSUME NEW r \in requests, PublishReplay(r)
        PROVE  RequestsAreCounted' /\ ReplayClaimsAreExclusive'
    <2>1. PICK q : /\ requests' = (requests \ {r}) \cup {q}
                   /\ \E stage \in {"published", "failed"} : q = [r EXCEPT !.stage = stage]
      BY <1>4 DEF PublishReplay
    <2>2. r \in Request
      BY <1>1
    <2>3. q \in Request /\ q.ingress = r.ingress /\ q.tries = r.tries
      BY <2>1, <2>2 DEF Request
    <2>4. RequestsAreCounted'
      BY <1>1, <1>2, <2>1, <2>3 DEF RequestsAreCounted
    <2>5. \A x \in requests : x.ingress = q.ingress /\ x.tries = q.tries => x = r
      BY <2>3 DEF Inv, ReplayClaimsAreExclusive
    <2>6. \A x, y \in requests \ {r} :
              x.ingress = y.ingress /\ x.tries = y.tries => x = y
      BY DEF Inv, ReplayClaimsAreExclusive
    <2>7. ReplayClaimsAreExclusive'
      BY <2>1, <2>5, <2>6 DEF ReplayClaimsAreExclusive
    <2> QED BY <2>4, <2>7
  <1>5. ASSUME NEW i \in Ingresses, ClaimReplay(i)
        PROVE  RequestsAreCounted' /\ ReplayClaimsAreExclusive'
    <2> DEFINE r == [stage |-> "publishing", ingress |-> i, tries |-> dlq[i].tries + 1]
    <2>1. requests' = requests \cup {r}
      BY <1>5 DEF ClaimReplay, NextTry
    <2>2. \A q \in requests : ~(q.ingress = i /\ q.tries = r.tries)
      BY ReplayIsNew
    <2>3. r.ingress = i /\ r.tries = dlq[i].tries + 1
      OBVIOUS
    <2> HIDE DEF r
    <2>4. dlq'[i].tries = r.tries /\ r.tries \in Nat
      <3>1. dlq[i].tries \in Nat
        BY DlqGrows
      <3> QED BY <1>5, <2>3, <3>1, ClaimReplayRecord DEF Inv
    <2>5. RequestsAreCounted'
      BY <1>1, <1>2, <2>1, <2>3, <2>4 DEF RequestsAreCounted
    <2>6. ReplayClaimsAreExclusive'
      BY <2>1, <2>2, <2>3 DEF Inv, ReplayClaimsAreExclusive
    <2> QED BY <2>5, <2>6
  <1>6. \/ requests' \subseteq requests
        \/ \E r \in requests : PublishReplay(r)
        \/ \E i \in Ingresses : ClaimReplay(i)
    BY DEF Next, ReplayNext, MarkReplay, AbandonReplay, RecoverReplay, vars, others
  <1> QED BY <1>3, <1>4, <1>5, <1>6

\* What leaves a waiting message waiting: its row, its record and its age stay, and no
\* worker takes it up or comes to settle a failure.
Calm(i) ==
    /\ outbox'[i] = outbox[i] /\ dlq'[i] = dlq[i] /\ (i \in aged' => i \in aged)
    /\ \A p \in Workers :
           \/ worker'[p] = worker[p]
           \/ ~(Active(p)' /\ worker'[p].ingress = i)
           \/ /\ Active(p) /\ worker[p].ingress = i
              /\ worker'[p].count = worker[p].count
              /\ worker'[p].stage \notin {"deferred", "settling"}

LEMMA CalmWaits ==
    ASSUME NEW i \in Ingresses, Waits(i), Calm(i)
    PROVE  Waits(i)'
  <1>1. /\ dlq'[i].state = "absent"
        /\ i \notin aged' /\ ~outbox'[i].stale
        /\ outbox'[i].status \in {"absent", "pending"} => outbox'[i].count < MaxAttempts
    BY DEF Waits, Calm
  <1>2. ASSUME NEW p \in Workers, Active(p)', worker'[p].ingress = i
        PROVE  /\ Active(p) /\ worker[p].ingress = i /\ worker'[p].count = worker[p].count
               /\ worker'[p].stage \notin {"deferred", "settling"}
    BY <1>2 DEF Waits, Calm, Active
  <1> QED BY <1>1, <1>2 DEF Waits, Calm

LEMMA StageCount ==
    ASSUME Types, NEW p \in Workers, NEW stage, Advance(p, stage)
    PROVE  worker'[p].count = worker[p].count
  BY DEF Types, Advance, Worker

\* The steps of the workers.
LEMMA WorkerWaits ==
    ASSUME Inv, UNCHANGED mediaVars, NEW i \in Ingresses, Waits(i), "troubled" \notin lapse'[i],
           NEW p \in Workers, Step(p) \/ Crash(p)
    PROVE  Waits(i)'
  <1> DEFINE j == worker[p].ingress
  <1>1. /\ outbox \in [Ingresses -> Row] /\ worker \in [Workers -> Worker]
        /\ lapse \in [Ingresses -> SUBSET Lapses] /\ Types
    BY DEF Inv, Types
  <1>2. worker[p].stage # "idle" /\ j \in Ingresses /\ worker[p] \in Worker /\ outbox[j] \in Row
    BY AtWork DEF Inv, Step, Crash, ClaimOutbox, Defer, WaitForMedia, ComposePayload, Dispatch,
       FailDispatch, MarkDispatched, SettleFailure
  <1>3. Lapsed(j, {"troubled"}) => i # j
    BY <1>1, <1>2, LapsedTypes DEF Lapses
  <1>4. ASSUME Finish(p), outbox'[i] = outbox[i], dlq'[i] = dlq[i], aged' = aged PROVE Waits(i)'
    <2>1. \A q \in Workers : IF p = q THEN worker'[q].stage = "idle" ELSE worker'[q] = worker[q]
      BY <1>1, <1>4, WorkerEnds
    <2> QED BY <1>4, <2>1, CalmWaits DEF Calm, Active
  <1>5. ASSUME NEW stage, Advance(p, stage), stage \notin {"deferred", "settling"} \/ i # j,
               Active(p) \/ i # j, outbox'[i] = outbox[i], dlq'[i] = dlq[i], aged' = aged
        PROVE  Waits(i)'
    <2>1. \A q \in Workers :
              IF p = q THEN worker'[q].stage = stage /\ worker'[q].ingress = worker[q].ingress
              ELSE worker'[q] = worker[q]
      BY <1>1, <1>5, StageMoves
    <2>2. worker'[p].count = worker[p].count
      BY <1>1, <1>5, StageCount
    <2> QED BY <1>5, <2>1, <2>2, CalmWaits DEF Calm
  <1>6. CASE ClaimOutbox(p)
    <2>1. CASE ~(outbox[j].status = "pending" /\ outbox[j].due)
      BY <1>6, <2>1, <1>4 DEF ClaimOutbox
    <2>2. CASE outbox[j].status = "pending" /\ outbox[j].due
      <3> DEFINE w == [worker[p] EXCEPT !.stage = "claimed", !.count = outbox[j].count + 1]
                 row == [outbox[j] EXCEPT !.status = "claimed", !.claim = worker[p].claim,
                                          !.count = outbox[j].count + 1, !.stale = FALSE]
      <3>1. /\ worker' = [worker EXCEPT ![p] = w] /\ outbox' = [outbox EXCEPT ![j] = row]
            /\ UNCHANGED <<aged, dlq>>
        BY <1>6, <2>2 DEF ClaimOutbox
      <3>2. w.stage = "claimed" /\ w.ingress = j /\ w.count = outbox[j].count + 1
        BY <1>2 DEF Worker
      <3>3. row.status = "claimed" /\ row.count = outbox[j].count + 1 /\ row.stale = FALSE
        BY <1>2 DEF Row
      <3> HIDE DEF w, row
      <3>4. CASE i # j
        <4>1. Calm(i)
          BY <1>1, <1>2, <3>1, <3>2, <3>4 DEF Calm
        <4> QED BY <4>1, CalmWaits
      <3>5. CASE i = j
        <4>1. \A q \in Workers : q # p => worker'[q] = worker[q]
          BY <1>1, <3>1
        <4>2. \A q \in Workers : Active(q)' /\ worker'[q].ingress = i => q = p
          BY <2>2, <3>5, <4>1 DEF Waits, Active
        <4>3. worker'[p] = w /\ outbox'[i] = row
          BY <1>1, <1>2, <3>1, <3>5
        <4> QED BY <3>1, <3>2, <3>3, <4>2, <4>3 DEF Waits
      <3> QED BY <3>4, <3>5
    <2> QED BY <2>1, <2>2
  <1>7. CASE Defer(p) \/ FailDispatch(p)
    BY <1>7, <1>3, <1>5 DEF Defer, FailDispatch
  <1>8. CASE WaitForMedia(p)
    <2>1. CASE ~(AwaitsMedia(p) /\ Holds(p))
      BY <1>8, <2>1, <1>5 DEF WaitForMedia, Active
    <2>2. CASE AwaitsMedia(p) /\ Holds(p)
      <3>1. /\ Finish(p) /\ outbox' = [outbox EXCEPT ![j] = Reopened(outbox[j], FALSE)]
            /\ UNCHANGED <<aged, dlq>>
        BY <1>8, <2>2 DEF WaitForMedia, Rescheduled
      <3>2. CASE i # j
        BY <3>1, <3>2, <1>4
      <3>3. CASE i = j
        <4>1. /\ outbox'[i] = Reopened(outbox[i], FALSE) /\ outbox[i] \in Row
          BY <1>1, <1>2, <3>1, <3>3
        <4>2. ~outbox'[i].stale /\ outbox'[i].count = outbox[i].count
          BY <4>1 DEF Reopened, Row
        <4>3. outbox[i].count = worker[p].count
          BY <1>8, <3>3 DEF Waits, Active, WaitForMedia
        <4>4. worker[p].count < MaxAttempts
          BY <1>2, <2>2, DispatchAssumption DEF AwaitsMedia, Worker
        <4>5. \A q \in Workers : ~(Active(q)' /\ worker'[q].ingress = i)
          <5>1. \A q \in Workers :
                    IF p = q THEN worker'[q].stage = "idle" ELSE worker'[q] = worker[q]
            BY <1>1, <3>1, WorkerEnds
          <5> QED BY <1>8, <5>1, <3>3 DEF Waits, Active, WaitForMedia
        <4> QED BY <3>1, <4>2, <4>3, <4>4, <4>5 DEF Waits
      <3> QED BY <3>2, <3>3
    <2> QED BY <2>1, <2>2
  <1>9. CASE ComposePayload(p)
    <2> DEFINE w == [worker[p] EXCEPT !.stage = "dispatching", !.missing = Missing(j)]
    <2>1. worker' = [worker EXCEPT ![p] = w] /\ UNCHANGED <<outbox, aged, dlq>> /\ Active(p)
      BY <1>9 DEF ComposePayload, Active
    <2>2. w.stage = "dispatching" /\ w.ingress = j /\ w.count = worker[p].count
      BY <1>2 DEF Worker
    <2> HIDE DEF w
    <2>3. Calm(i)
      BY <1>1, <2>1, <2>2 DEF Calm
    <2> QED BY <2>3, CalmWaits
  <1>10. CASE Dispatch(p)
    BY <1>10, <1>3, <1>5 DEF Dispatch, Active
  <1>11. CASE MarkDispatched(p)
    <2>1. /\ UNCHANGED <<aged, dlq>> /\ worker[p].stage = "marking"
          /\ \/ Finish(p) /\ outbox' = outbox
             \/ /\ Finish(p) /\ outbox' = [outbox EXCEPT ![j] = Ended(outbox[j], "dispatched")]
             \/ Advance(p, "settling") /\ Lapsed(j, {"troubled"}) /\ UNCHANGED outbox
      BY <1>11 DEF MarkDispatched
    <2>2. CASE outbox' = outbox
      BY <2>1, <2>2, <1>3, <1>4, <1>5
    <2>3. CASE Finish(p) /\ outbox' = [outbox EXCEPT ![j] = Ended(outbox[j], "dispatched")]
      <3>1. CASE i # j
        BY <2>1, <2>3, <3>1, <1>4
      <3>2. CASE i = j
        <4>1. outbox'[i] = Ended(outbox[i], "dispatched") /\ outbox[i] \in Row
          BY <1>1, <1>2, <2>3, <3>2
        <4>2. ~outbox'[i].stale /\ outbox'[i].status = "dispatched"
          BY <4>1 DEF Ended, Row
        <4>3. \A q \in Workers : ~(Active(q)' /\ worker'[q].ingress = i)
          <5>1. \A q \in Workers :
                    IF p = q THEN worker'[q].stage = "idle" ELSE worker'[q] = worker[q]
            BY <1>1, <2>3, WorkerEnds
          <5> QED BY <2>1, <5>1, <3>2 DEF Waits, Active
        <4> QED BY <2>1, <4>2, <4>3 DEF Waits
      <3> QED BY <3>1, <3>2
    <2> QED BY <2>1, <2>2, <2>3
  <1>12. CASE SettleFailure(p)
    <2>1. i # j
      BY <1>12 DEF SettleFailure, Waits, Active
    <2>2. outbox'[i] = outbox[i] /\ dlq'[i] = dlq[i]
      BY <1>1, <1>12, <2>1 DEF SettleFailure, Rescheduled, Types, DlqTypes
    <2> QED BY <1>12, <2>2, <1>4 DEF SettleFailure
  <1>13. CASE Crash(p)
    BY <1>13, <1>4 DEF Crash
  <1> QED BY <1>6, <1>7, <1>8, <1>9, <1>10, <1>11, <1>12, <1>13 DEF Step

\* The steps of everything else.
LEMMA UntroubledStep ==
    ASSUME Inv, [Next]_vars
    PROVE  UntroubledWaits'
  <1> SUFFICES ASSUME NEW i \in Ingresses, "troubled" \notin lapse'[i]
               PROVE  Waits(i)'
    BY DEF UntroubledWaits
  <1>1. Waits(i)
    BY LapseGrows DEF Inv, UntroubledWaits
  <1>2. /\ outbox \in [Ingresses -> Row] /\ lapse \in [Ingresses -> SUBSET Lapses]
        /\ worker \in [Workers -> Worker] /\ Types
    BY DEF Inv, Types
  <1>3. ASSUME outbox'[i] = outbox[i], dlq'[i] = dlq[i], i \in aged' => i \in aged,
               worker' = worker
        PROVE  Waits(i)'
    BY <1>1, <1>3, CalmWaits DEF Calm
  <1>4. ASSUME NEW row, outbox'[i] = row, ~row.stale, row.count = outbox[i].count,
               outbox[i].status \in {"absent", "pending"}, UNCHANGED <<dlq, aged, worker>>
        PROVE  Waits(i)'
    <2>1. \A p \in Workers : ~(Active(p) /\ worker[p].ingress = i)
      BY <1>1, <1>4 DEF Waits
    <2> QED BY <1>1, <1>4, <2>1 DEF Waits, Active
  <1>5. ASSUME NEW j \in Ingresses, NEW ms \in SUBSET MediaOf[j], Capture(j, ms)
        PROVE  Waits(i)'
    <2>1. /\ outbox' = [outbox EXCEPT ![j] = [outbox[j] EXCEPT !.status = "pending", !.due = TRUE]]
          /\ UNCHANGED <<dlq, aged, worker>> /\ outbox[j].status = "absent"
      BY <1>5 DEF Capture
    <2>2. CASE i # j
      BY <2>1, <2>2, <1>3
    <2>3. CASE i = j
      <3>1. outbox'[i] = [outbox[i] EXCEPT !.status = "pending", !.due = TRUE]
        BY <1>2, <2>1, <2>3
      <3>2. outbox'[i].stale = outbox[i].stale /\ outbox'[i].count = outbox[i].count
        BY <1>2, <3>1 DEF Row
      <3> QED BY <1>1, <1>4, <2>1, <2>3, <3>2 DEF Waits
    <2> QED BY <2>2, <2>3
  <1>6. ASSUME NEW j \in Ingresses, Receive(j) PROVE Waits(i)'
    <2>1. PICK p \in WorkersOf[j], t \in Tasks : ReadOutbox(p, j, t)
      BY <1>6 DEF Receive
    <2> DEFINE w == [IdleWorker EXCEPT !.stage = "reading", !.ingress = j,
                                       !.claim = <<t, outbox[j].count + 1>>]
    <2>2. worker' = [worker EXCEPT ![p] = w] /\ UNCHANGED <<outbox, dlq, aged>>
      BY <2>1 DEF ReadOutbox
    <2>3. w.stage = "reading"
      BY DEF IdleWorker
    <2> HIDE DEF w
    <2>4. Calm(i)
      BY <1>2, <2>2, <2>3 DEF Calm, Active
    <2> QED BY <1>1, <2>4, CalmWaits
  <1>7. ASSUME NEW j \in Ingresses, Pass(j) PROVE Waits(i)'
    <2>1. CASE BecomesDue(j)
      <3>1. /\ outbox' = [outbox EXCEPT ![j] = [outbox[j] EXCEPT !.due = TRUE]]
            /\ UNCHANGED <<dlq, aged, worker>> /\ outbox[j].status = "pending"
        BY <2>1 DEF BecomesDue
      <3>2. CASE i # j
        BY <3>1, <3>2, <1>3
      <3>3. CASE i = j
        <4>1. outbox'[i] = [outbox[i] EXCEPT !.due = TRUE]
          BY <1>2, <3>1, <3>3
        <4>2. outbox'[i].stale = outbox[i].stale /\ outbox'[i].count = outbox[i].count
          BY <1>2, <4>1 DEF Row
        <4> QED BY <1>1, <1>4, <3>1, <3>3, <4>2 DEF Waits
      <3> QED BY <3>2, <3>3
    <2>2. CASE LeaseExpires(j) \/ GrowsOld(j)
      <3>1. i # j
        BY <1>2, <2>2, LapsedTypes DEF LeaseExpires, GrowsOld, Lapses
      <3>2. CASE LeaseExpires(j)
        <4>1. /\ outbox' = [outbox EXCEPT ![j].stale = TRUE]
              /\ UNCHANGED <<aged, worker, dlq>>
          BY <3>2 DEF LeaseExpires
        <4>2. outbox'[i] = outbox[i]
          BY <1>2, <3>1, <4>1
        <4> QED BY <4>1, <4>2, <1>3
      <3>3. CASE GrowsOld(j)
        <4>1. aged' = aged \cup {j} /\ UNCHANGED <<outbox, worker, dlq>>
          BY <3>3 DEF GrowsOld
        <4>2. i \in aged' => i \in aged
          BY <3>1, <4>1
        <4> QED BY <4>1, <4>2, <1>3
      <3> QED BY <2>2, <3>2, <3>3
    <2> QED BY <1>7, <2>1, <2>2 DEF Pass
  <1>8. CASE Reconcile
    <2>1. Requeued(i) = outbox[i]
      BY <1>1, <1>2, SweptRow DEF Waits
    <2>2. i \notin Exhaustion
      <3>1. outbox[i].count \in Nat /\ MaxAttempts \in Nat
        BY <1>2, DispatchAssumption DEF Row
      <3> QED BY <1>1, <2>1, <3>1 DEF Exhaustion, Exhausted, Waits
    <2>3. outbox'[i] = outbox[i] /\ dlq'[i] = dlq[i] /\ UNCHANGED <<aged, worker>>
      BY <1>8, <2>1, <2>2 DEF Reconcile
    <2> QED BY <2>3, <1>3
  <1>9. ASSUME NEW j \in Ingresses, ClaimReplay(j) PROVE Waits(i)'
    <2>1. i # j
      BY <1>1, <1>2, <1>9, ClaimReplayRecord DEF Waits
    <2>2. UNCHANGED worker /\ outbox'[i] = outbox[i] /\ (i \in aged' => i \in aged)
      BY <1>9, <2>1 DEF ClaimReplay
    <2>3. dlq'[i] = dlq[i]
      BY <1>2, <1>9, <2>1, ClaimReplayRecord
    <2> QED BY <2>2, <2>3, <1>3
  <1>10. ASSUME \/ \E r \in requests : PublishReplay(r) \/ MarkReplay(r) \/ AbandonReplay(r)
                \/ \E j \in Ingresses : RecoverReplay(j)
         PROVE  Waits(i)'
    <2>1. dlq'[i].state = "absent" /\ UNCHANGED <<outbox, aged, worker>>
      BY <1>1, <1>10, MarkedRecord DEF Waits, RecordsAreKept
    <2> QED BY <1>1, <2>1 DEF Waits, Active
  <1>11. CASE UNCHANGED dispatchVars
    BY <1>11, <1>3 DEF dispatchVars
  <1>12. CASE DispatchNext /\ UNCHANGED others
    BY <1>1, <1>6, <1>7, <1>8, <1>12, WorkerWaits DEF DispatchNext, others
  <1>13. CASE ReplayNext
    BY <1>9, <1>10, <1>13 DEF ReplayNext
  <1> QED BY <1>5, <1>11, <1>12, <1>13 DEF Next, vars

-----------------------------------------------------------------------------
(* The bounds of the counts *)

\* The workers that have read the row of i and not claimed it yet.
Readers(i) == {p \in Workers : worker[p].stage = "reading" /\ worker[p].ingress = i}

\* Each reader may raise the count once more, and so may the reconciler while the row is
\* not settled.
CountsOfRows ==
    \A i \in Ingresses :
        /\ outbox[i].count + Cardinality(Readers(i))
               <= IF outbox[i].status \in Settled THEN MaxCount ELSE MaxCount - 1
        /\ outbox[i].status = "claimed" => outbox[i].count > 0

CountsOfWorkers == \A p \in Workers : worker[p].count <= MaxCount

CountsOfRecords == \A i \in Ingresses : dlq[i].events \subseteq 1 .. MaxCount

WebhookTypes == webhook \in [Ingresses -> Webhook]

BoundInv == CountsOfRows /\ CountsOfWorkers /\ CountsOfRecords /\ WebhookTypes

\* There are finitely many readers.
LEMMA ReadersFinite ==
    ASSUME NEW i
    PROVE  /\ IsFiniteSet(Readers(i)) /\ Cardinality(Readers(i)) \in Nat
           /\ Cardinality(Workers) \in Nat /\ MaxAttempts \in Nat \ {0} /\ MaxCount \in Nat
           /\ Cardinality(Readers(i)) <= Cardinality(Workers)
  BY FS_Subset, FS_CardinalityType, DispatchAssumption DEF Readers, MaxCount

\* What a step may do to the count of a row: leave it, raise it by the claim of a reader
\* or of the reconciler, or start it afresh.
CountMove(i) ==
    \/ /\ outbox'[i].count = outbox[i].count
       /\ outbox[i].status \in Settled => outbox'[i].status \in Settled
       /\ outbox'[i].status = "claimed" => outbox[i].status = "claimed"
    \/ /\ outbox[i].status = "pending" /\ outbox'[i].status = "claimed"
       /\ outbox'[i].count = outbox[i].count + 1
       /\ \E p \in Readers(i) : worker'[p].stage = "claimed"
    \/ /\ outbox[i].status \notin Settled /\ outbox'[i].status = "dead_lettered"
       /\ outbox'[i].count = outbox[i].count + 1
    \/ outbox'[i].status = "pending" /\ outbox'[i].count = 0

LEMMA CountMoves ==
    ASSUME Inv, [Next]_vars, NEW i \in Ingresses
    PROVE  CountMove(i)
  <1>1. outbox \in [Ingresses -> Row] /\ outbox[i] \in Row /\ worker \in [Workers -> Worker]
    BY DEF Inv, Types
  <1>2. CASE outbox'[i] = outbox[i]
    BY <1>2 DEF CountMove
  <1>3. ASSUME NEW j \in Ingresses, NEW ms \in SUBSET MediaOf[j], Capture(j, ms),
               outbox'[i] # outbox[i]
        PROVE  CountMove(i)
    <2>1. /\ outbox[i].status = "absent"
          /\ outbox'[i] = [outbox[i] EXCEPT !.status = "pending", !.due = TRUE]
      BY <1>1, <1>3 DEF Capture
    <2>2. outbox'[i].status = "pending" /\ outbox'[i].count = outbox[i].count
      BY <1>1, <2>1 DEF Row
    <2> QED BY <2>1, <2>2 DEF CountMove, Settled
  <1>4. ASSUME NEW p \in Workers, ClaimOutbox(p), outbox'[i] # outbox[i] PROVE CountMove(i)
    <2>1. worker[p].ingress \in Ingresses /\ worker[p].stage = "reading"
      BY <1>4, AtWork DEF Inv, ClaimOutbox
    <2>2. i = worker[p].ingress /\ outbox[i].status = "pending"
      BY <1>1, <1>4, <2>1 DEF ClaimOutbox
    <2>3. outbox'[i] = [outbox[i] EXCEPT !.status = "claimed", !.claim = worker[p].claim,
                                         !.count = outbox[i].count + 1, !.stale = FALSE]
      BY <1>1, <1>4, <2>2 DEF ClaimOutbox
    <2>4. worker' = [worker EXCEPT ![p] =
              [worker[p] EXCEPT !.stage = "claimed", !.count = outbox[i].count + 1]]
      BY <1>4, <2>2 DEF ClaimOutbox
    <2>5. outbox'[i].status = "claimed" /\ outbox'[i].count = outbox[i].count + 1
      BY <1>1, <2>3 DEF Row
    <2>6. worker'[p].stage = "claimed" /\ p \in Readers(i)
      BY <1>1, <2>1, <2>2, <2>4 DEF Worker, Readers
    <2> QED BY <2>2, <2>5, <2>6 DEF CountMove
  <1>5. ASSUME NEW p \in Workers, WaitForMedia(p) \/ MarkDispatched(p) \/ SettleFailure(p),
               outbox'[i] # outbox[i]
        PROVE  CountMove(i)
    <2>1. worker[p].ingress \in Ingresses
      BY <1>5, AtWork DEF Inv, WaitForMedia, MarkDispatched, SettleFailure
    <2>2. /\ i = worker[p].ingress /\ Holds(p)
          /\ \/ outbox'[i] = Reopened(outbox[i], FALSE)
             \/ \E status \in Settled : outbox'[i] = Ended(outbox[i], status)
      BY <1>1, <1>5, <2>1
         DEF WaitForMedia, MarkDispatched, SettleFailure, Rescheduled, Settled
    <2>3. outbox[i].status = "claimed"
      BY <2>2 DEF Holds
    <2>4. outbox'[i].count = outbox[i].count /\ outbox'[i].status \in Settled \cup {"pending"}
      BY <1>1, <2>2 DEF Reopened, Ended, Row, Settled
    <2> QED BY <2>3, <2>4 DEF CountMove, Settled
  <1>6. ASSUME NEW j \in Ingresses, Pass(j), outbox'[i] # outbox[i] PROVE CountMove(i)
    <2>1. \/ outbox'[i] = [outbox[i] EXCEPT !.due = TRUE]
          \/ outbox'[i] = [outbox[i] EXCEPT !.stale = TRUE]
      BY <1>1, <1>6 DEF Pass, BecomesDue, LeaseExpires, GrowsOld
    <2>2. outbox'[i].status = outbox[i].status /\ outbox'[i].count = outbox[i].count
      BY <1>1, <2>1 DEF Row
    <2> QED BY <2>2 DEF CountMove
  <1>7. ASSUME Reconcile, outbox'[i] # outbox[i] PROVE CountMove(i)
    <2>1. CASE i \in Exhaustion
      <3>1. outbox'[i] = Buried(i)
        BY <1>7, <2>1 DEF Reconcile
      <3>2. outbox[i].status \notin Settled /\ outbox'[i].status = "dead_lettered"
        BY <2>1, <3>1, SweptRow DEF Inv, Settled
      <3>3. outbox'[i].count = outbox[i].count + 1
        <4>1. Ended(outbox[i], "dead_lettered") \in Row
          BY <1>1, RowTypes DEF Settled
        <4>2. \A r \in Row, n \in Nat : [r EXCEPT !.count = n].count = n
          BY DEF Row
        <4>3. outbox[i].count + 1 \in Nat
          BY <1>1 DEF Row
        <4> QED BY <3>1, <4>1, <4>2, <4>3 DEF Buried
      <3> QED BY <3>2, <3>3 DEF CountMove
    <2>2. CASE i \notin Exhaustion
      <3>1. outbox'[i] = Requeued(i)
        BY <1>7, <2>2 DEF Reconcile
      <3>2. /\ outbox'[i].count = outbox[i].count
            /\ outbox[i].status = "claimed" /\ outbox'[i].status = "pending"
        BY <1>7, <3>1, SweptRow DEF Inv
      <3> QED BY <3>2 DEF CountMove, Settled
    <2> QED BY <2>1, <2>2
  <1>8. ASSUME NEW j \in Ingresses, ClaimReplay(j),
               outbox'[i] # outbox[i]
        PROVE  CountMove(i)
    <2>1. outbox'[i] = [AbsentRow EXCEPT !.status = "pending", !.due = TRUE]
      BY <1>1, <1>8 DEF ClaimReplay, Reset
    <2>2. outbox'[i].status = "pending" /\ outbox'[i].count = 0
      BY <2>1 DEF AbsentRow
    <2> QED BY <2>2 DEF CountMove
  <1>9. ASSUME \/ \E p \in Workers :
                      \/ Defer(p) \/ ComposePayload(p) \/ Dispatch(p) \/ FailDispatch(p)
                      \/ Crash(p)
               \/ \E j \in Ingresses : Receive(j)
               \/ UNCHANGED dispatchVars
               \/ UNCHANGED vars
        PROVE  UNCHANGED outbox
    BY <1>9 DEF Defer, ComposePayload, Dispatch, FailDispatch, Crash, Receive, ReadOutbox,
       dispatchVars, vars
  <1>10. ASSUME \/ \E r \in requests : PublishReplay(r) \/ MarkReplay(r) \/ AbandonReplay(r)
                \/ \E j \in Ingresses : RecoverReplay(j)
         PROVE  UNCHANGED outbox
    BY <1>10, MarkedRecord
  <1> QED
    BY <1>2, <1>3, <1>4, <1>5, <1>6, <1>7, <1>8, <1>9, <1>10
       DEF Next, DispatchNext, Step, ReplayNext

\* The next readers of a row are readers now, or one has just read it within its budget.
LEMMA ReadersMove ==
    ASSUME Inv, [Next]_vars, NEW i \in Ingresses
    PROVE  \/ Readers(i)' \subseteq Readers(i)
           \/ outbox[i].count < MaxAttempts /\ outbox'[i] = outbox[i]
  <1>1. ASSUME Receive(i) PROVE outbox[i].count < MaxAttempts /\ UNCHANGED outbox
    <2>1. outbox[i].count \in Nat /\ MaxAttempts \in Nat
      BY DispatchAssumption DEF Inv, Types, Row
    <2> QED BY <1>1, <2>1 DEF Receive, ReadOutbox, Exhausted
  <1>2. ASSUME NEW p \in Workers, worker'[p].stage = "reading", worker'[p].ingress = i
        PROVE  p \in Readers(i) \/ Receive(i)
    <2>1. CASE worker'[p] = worker[p]
      BY <1>2, <2>1 DEF Readers
    <2>2. CASE worker'[p] # worker[p]
      BY <1>2, <2>2, WorkerStep DEF WorkerMayChange
    <2> QED BY <2>1, <2>2
  <1> QED BY <1>1, <1>2 DEF Readers

\* A claim turns a reader into a raised count.
LEMMA RowCountsStep ==
    ASSUME Inv, BoundInv, [Next]_vars
    PROVE  CountsOfRows'
  <1> SUFFICES ASSUME NEW i \in Ingresses
               PROVE  /\ outbox'[i].count + Cardinality(Readers(i)')
                            <= IF outbox'[i].status \in Settled THEN MaxCount ELSE MaxCount - 1
                      /\ outbox'[i].status = "claimed" => outbox'[i].count > 0
    BY DEF CountsOfRows, MaxCount
  <1>1. /\ outbox[i].count \in Nat
        /\ outbox[i].count + Cardinality(Readers(i))
               <= IF outbox[i].status \in Settled THEN MaxCount ELSE MaxCount - 1
        /\ outbox[i].status = "claimed" => outbox[i].count > 0
    BY DEF Inv, Types, Row, BoundInv, CountsOfRows
  <1>2. /\ IsFiniteSet(Readers(i)) /\ Cardinality(Readers(i)) \in Nat
        /\ Cardinality(Workers) \in Nat /\ MaxAttempts \in Nat \ {0}
    BY ReadersFinite
  <1>3. /\ Cardinality(Readers(i)') \in Nat
        /\ Cardinality(Readers(i)') <= Cardinality(Workers)
    BY FS_Subset, FS_CardinalityType, DispatchAssumption DEF Readers
  <1>4. CASE outbox[i].count < MaxAttempts /\ outbox'[i] = outbox[i]
    BY <1>1, <1>2, <1>3, <1>4 DEF MaxCount
  <1>5. CASE Readers(i)' \subseteq Readers(i)
    <2>1. Cardinality(Readers(i)') <= Cardinality(Readers(i))
      BY <1>2, <1>5, FS_Subset
    <2>2. CASE /\ outbox'[i].count = outbox[i].count
               /\ outbox[i].status \in Settled => outbox'[i].status \in Settled
               /\ outbox'[i].status = "claimed" => outbox[i].status = "claimed"
      BY <1>1, <1>2, <1>3, <2>1, <2>2 DEF MaxCount
    <2>3. ASSUME outbox[i].status = "pending", outbox'[i].status = "claimed",
                 outbox'[i].count = outbox[i].count + 1,
                 NEW p \in Readers(i), worker'[p].stage = "claimed"
          PROVE  outbox'[i].count + Cardinality(Readers(i)') <= MaxCount - 1
      <3>1. Readers(i)' \subseteq Readers(i) \ {p}
        BY <1>5, <2>3 DEF Readers
      <3>2. /\ IsFiniteSet(Readers(i) \ {p})
            /\ Cardinality(Readers(i) \ {p}) = Cardinality(Readers(i)) - 1
        BY <1>2, FS_RemoveElement
      <3>3. Cardinality(Readers(i)') <= Cardinality(Readers(i) \ {p})
        BY <3>1, <3>2, FS_Subset
      <3>4. outbox[i].status \notin Settled
        BY <2>3 DEF Settled
      <3> QED BY <1>1, <1>2, <1>3, <2>3, <3>2, <3>3, <3>4 DEF MaxCount
    <2>4. CASE /\ outbox[i].status \notin Settled /\ outbox'[i].status = "dead_lettered"
               /\ outbox'[i].count = outbox[i].count + 1
      BY <1>1, <1>2, <1>3, <2>1, <2>4 DEF MaxCount, Settled
    <2>5. CASE outbox'[i].status = "pending" /\ outbox'[i].count = 0
      BY <1>2, <1>3, <2>5 DEF MaxCount
    <2>6. "claimed" \notin Settled
      BY DEF Settled
    <2> QED BY <1>1, <2>2, <2>3, <2>4, <2>5, <2>6, CountMoves DEF CountMove
  <1> QED BY <1>4, <1>5, ReadersMove

\* A worker's count is that of the row it claims.
LEMMA WorkerCountsStep ==
    ASSUME Inv, BoundInv, [Next]_vars
    PROVE  CountsOfWorkers'
  <1> SUFFICES ASSUME NEW p \in Workers PROVE worker'[p].count <= MaxCount
    BY DEF CountsOfWorkers, MaxCount
  <1>1. /\ worker \in [Workers -> Worker] /\ worker[p] \in Worker /\ worker[p].count <= MaxCount
        /\ MaxCount \in Nat
    BY ReadersFinite DEF Inv, Types, BoundInv, CountsOfWorkers
  <1>2. ASSUME NEW q \in Workers, ClaimOutbox(q) PROVE worker'[p].count <= MaxCount
    <2>1. worker[q].ingress \in Ingresses /\ worker[q].stage = "reading" /\ worker[q] \in Worker
      BY <1>2, AtWork DEF Inv, ClaimOutbox
    <2> DEFINE i == worker[q].ingress
    <2>2. CASE Finish(q)
      BY <1>1, <2>2 DEF Finish, IdleWorker
    <2>3. CASE /\ outbox[i].status = "pending"
               /\ worker' = [worker EXCEPT ![q] =
                      [worker[q] EXCEPT !.stage = "claimed", !.count = outbox[i].count + 1]]
      <3>1. outbox[i].count \in Nat /\ outbox[i].count <= MaxCount - 1
        <4>1. outbox[i].count \in Nat
          BY <2>1 DEF Inv, Types, Row
        <4>2. outbox[i].count + Cardinality(Readers(i)) <= MaxCount - 1
          BY <2>1, <2>3 DEF BoundInv, CountsOfRows, Settled
        <4> QED BY <1>1, <4>1, <4>2, ReadersFinite
      <3>2. worker'[q].count = outbox[i].count + 1
        BY <1>1, <2>1, <2>3 DEF Worker
      <3>3. q # p => worker'[p] = worker[p]
        BY <1>1, <2>3
      <3> QED BY <1>1, <3>1, <3>2, <3>3
    <2> QED BY <1>2, <2>2, <2>3 DEF ClaimOutbox
  <1>3. ASSUME NEW q \in Workers, NEW stage, Advance(q, stage) PROVE worker'[p].count = worker[p].count
    BY <1>1, <1>3 DEF Advance, Worker
  <1>4. ASSUME NEW q \in Workers, Finish(q) PROVE worker'[p].count <= MaxCount
    BY <1>1, <1>4 DEF Finish, IdleWorker
  <1>5. ASSUME NEW i \in Ingresses, Receive(i) PROVE worker'[p].count <= MaxCount
    <2>1. PICK q \in WorkersOf[i], t \in Tasks : ReadOutbox(q, i, t)
      BY <1>5 DEF Receive
    <2>2. worker' = [worker EXCEPT ![q] =
              [IdleWorker EXCEPT !.stage = "reading", !.ingress = i,
                                 !.claim = <<t, outbox[i].count + 1>>]]
      BY <2>1 DEF ReadOutbox
    <2> QED BY <1>1, <2>2 DEF IdleWorker
  <1>6. ASSUME NEW q \in Workers, ComposePayload(q) PROVE worker'[p].count = worker[p].count
    BY <1>1, <1>6 DEF ComposePayload, Worker
  <1>7. ASSUME NEW q \in Workers,
               \/ Defer(q) \/ WaitForMedia(q) \/ Dispatch(q) \/ FailDispatch(q)
               \/ MarkDispatched(q) \/ SettleFailure(q) \/ Crash(q)
        PROVE  Finish(q) \/ \E stage : Advance(q, stage)
    BY <1>7
       DEF Defer, WaitForMedia, Dispatch, FailDispatch, MarkDispatched, SettleFailure, Crash
  <1>8. ASSUME \/ \E i \in Ingresses : \E ms \in SUBSET MediaOf[i] : Capture(i, ms)
               \/ \E i \in Ingresses : Pass(i)
               \/ Reconcile
               \/ \E i \in Ingresses : ClaimReplay(i)
               \/ UNCHANGED dispatchVars
               \/ UNCHANGED vars
        PROVE  UNCHANGED worker
    BY <1>8 DEF Capture, Pass, BecomesDue, LeaseExpires, GrowsOld, Reconcile, ClaimReplay,
       dispatchVars, vars
  <1>9. ASSUME \/ \E r \in requests : PublishReplay(r) \/ MarkReplay(r) \/ AbandonReplay(r)
               \/ \E i \in Ingresses : RecoverReplay(i)
        PROVE  UNCHANGED worker
    BY <1>9, MarkedRecord
  <1> QED
    BY <1>1, <1>2, <1>3, <1>4, <1>5, <1>6, <1>7, <1>8, <1>9
       DEF Next, DispatchNext, Step, ReplayNext

\* The event of a dead letter is named by a count of its row: the one that a worker
\* claimed, or the one of the reconciler's claim.
LEMMA RecordCountsStep ==
    ASSUME Inv, BoundInv, [Next]_vars
    PROVE  CountsOfRecords'
  <1> SUFFICES ASSUME NEW i \in Ingresses PROVE dlq'[i].events \subseteq 1 .. MaxCount
    BY DEF CountsOfRecords, MaxCount
  <1>1. /\ DlqTypes /\ outbox[i] \in Row /\ outbox[i].count \in Nat
        /\ dlq[i].events \subseteq 1 .. MaxCount /\ MaxCount \in Nat
    BY ReadersFinite DEF Inv, Types, DlqTypes, Row, BoundInv, CountsOfRecords
  <1>2. outbox[i].count <= MaxCount /\ (outbox[i].status \notin Settled => outbox[i].count <= MaxCount - 1)
    <2>1. /\ outbox[i].count + Cardinality(Readers(i))
                 <= IF outbox[i].status \in Settled THEN MaxCount ELSE MaxCount - 1
          /\ Cardinality(Readers(i)) \in Nat
      BY ReadersFinite DEF BoundInv, CountsOfRows
    <2> QED BY <1>1, <2>1
  <1>3. ASSUME NEW count \in 1 .. MaxCount, dlq'[i] = Recorded(i, count)
        PROVE  dlq'[i].events \subseteq 1 .. MaxCount
    <2>1. count \in Nat
      BY <1>1, <1>3
    <2>2. dlq'[i].events = dlq[i].events \cup {count}
      BY <1>1, <1>3, <2>1, RecordedTypes
    <2> QED BY <1>1, <1>3, <2>2
  <1>4. ASSUME NEW p \in Workers, SettleFailure(p) PROVE dlq'[i].events \subseteq 1 .. MaxCount
    <2>1. worker[p].ingress \in Ingresses
      BY <1>4, AtWork DEF Inv, SettleFailure
    <2>2. CASE dlq'[i] = dlq[i]
      BY <1>1, <2>2
    <2>3. CASE dlq'[i] # dlq[i]
      <3>1. i = worker[p].ingress /\ Holds(p) /\ dlq'[i] = Recorded(i, outbox[i].count)
        BY <1>1, <1>4, <2>1, <2>3 DEF SettleFailure, DlqTypes
      <3>2. outbox[i].count > 0
        BY <3>1 DEF Holds, BoundInv, CountsOfRows
      <3>3. outbox[i].count \in 1 .. MaxCount
        BY <1>1, <1>2, <3>2
      <3> QED BY <1>3, <3>1, <3>3
    <2> QED BY <2>2, <2>3
  <1>5. ASSUME Reconcile PROVE dlq'[i].events \subseteq 1 .. MaxCount
    <2>1. CASE i \in Exhaustion
      <3>1. dlq'[i] = Recorded(i, outbox[i].count + 1)
        BY <1>5, <2>1 DEF Reconcile
      <3>2. outbox[i].status \notin Settled
        BY <2>1, SweptRow DEF Inv, Settled
      <3>3. outbox[i].count + 1 \in 1 .. MaxCount
        BY <1>1, <1>2, <3>2
      <3> QED BY <1>3, <3>1, <3>3
    <2>2. CASE i \notin Exhaustion
      BY <1>1, <1>5, <2>2 DEF Reconcile
    <2> QED BY <2>1, <2>2
  <1>6. ASSUME NEW j \in Ingresses, ClaimReplay(j)
        PROVE  dlq'[i].events \subseteq 1 .. MaxCount
    BY <1>1, <1>6, ClaimReplayRecord DEF Inv
  <1>7. ASSUME \/ \E r \in requests : PublishReplay(r) \/ MarkReplay(r) \/ AbandonReplay(r)
               \/ \E j \in Ingresses : RecoverReplay(j)
        PROVE  dlq'[i].events \subseteq 1 .. MaxCount
    BY <1>1, <1>7, MarkedRecord DEF RecordsAreKept
  <1>8. ASSUME \/ \E j \in Ingresses : \E ms \in SUBSET MediaOf[j] : Capture(j, ms)
               \/ \E j \in Ingresses : Receive(j) \/ Pass(j)
               \/ \E p \in Workers :
                      \/ ClaimOutbox(p) \/ Defer(p) \/ WaitForMedia(p) \/ ComposePayload(p)
                      \/ Dispatch(p) \/ FailDispatch(p) \/ MarkDispatched(p) \/ Crash(p)
               \/ UNCHANGED dispatchVars
               \/ UNCHANGED vars
        PROVE  UNCHANGED dlq
    BY <1>8 DEF Capture, Receive, ReadOutbox, Pass, BecomesDue, LeaseExpires, GrowsOld,
       ClaimOutbox, Defer, WaitForMedia, ComposePayload, Dispatch, FailDispatch,
       MarkDispatched, Crash, dispatchVars, vars
  <1> QED
    BY <1>1, <1>4, <1>5, <1>6, <1>7, <1>8 DEF Next, DispatchNext, Step, ReplayNext

\* The webhook runs, ends or is lost.
LEMMA WebhookStep ==
    ASSUME WebhookTypes, [Next]_vars
    PROVE  WebhookTypes'
  <1>1. ASSUME NEW i \in Ingresses, NEW ms \in SUBSET MediaOf[i], Capture(i, ms)
        PROVE  WebhookTypes'
    BY <1>1 DEF Capture, WebhookTypes, Webhook
  <1>2. ASSUME NEW i \in Ingresses, CaptureMedia(i) \/ LoseMedia(i) PROVE WebhookTypes'
    BY <1>2 DEF CaptureMedia, LoseMedia, WebhookTypes, Webhook
  <1>3. CASE UNCHANGED webhook
    BY <1>3 DEF WebhookTypes
  <1> QED BY <1>1, <1>2, <1>3 DEF Next, others, captureVars, vars

-----------------------------------------------------------------------------
(* Theorems *)

\* Inv is inductive.
THEOREM Invariance == Spec => []Inv
  <1>1. ASSUME Inv, [Next]_vars PROVE Inv'
    BY <1>1, TypesStep, MediaStep, CaptureStep, OutcomeKept, WaitStep, RequestsStep,
       UntroubledStep DEF Inv
  <1> QED BY InitInv, <1>1, PTL DEF Spec

\* A captured message is the cause of one execution, if its dispatch was accepted, and of
\* none otherwise, whatever is redelivered, requeued or replayed: the write-once envelope
\* alone decides it.
THEOREM MessageRunsOnce == Spec => []OneExecutionPerIngress
  <1>1. Inv => OneExecutionPerIngress
    BY DEF Inv
  <1> QED BY <1>1, Invariance, PTL

\* A row is marked dispatched after a dispatch that had an outcome.
THEOREM DispatchIsTrue == Spec => []DispatchedHasOutcome
  <1>1. Inv => DispatchedHasOutcome
    BY DEF Inv
  <1> QED BY <1>1, Invariance, PTL

\* An envelope lacks the outcome of an attachment only if its worker hurried, or was there
\* before the attachment's row.
THEOREM EnvelopeWaits == Spec => []MediaIsWaitedFor
  <1>1. Inv => MediaIsWaitedFor
    BY DEF Inv
  <1> QED BY <1>1, Invariance, PTL

\* Waiting for media never dead-letters a message.
THEOREM WaitingIsHarmless == Spec => []DeadLetterNeedsTrouble
  <1>1. Inv => DeadLetterNeedsTrouble
    BY DEF Inv, UntroubledWaits, Waits, DeadLetterNeedsTrouble
  <1> QED BY <1>1, Invariance, PTL

\* Rows and attachments agree, but for the attachments of tasks that raced.
THEOREM AttachmentsAgree == Spec => []AttachmentsMatchMedia
  <1>1. Inv => AttachmentsMatchMedia
    BY DEF Inv, MediaInv
  <1> QED BY <1>1, Invariance, PTL

\* No two operators replay one record under one claim id.
THEOREM ReplaysAreExclusive == Spec => []ReplayClaimsAreExclusive
  <1>1. Inv => ReplayClaimsAreExclusive
    BY DEF Inv
  <1> QED BY <1>1, Invariance, PTL

\* A resolved attachment stays what it is.
THEOREM MediaResolvedOnce == Spec => ResolvedMediaIsFinal
  <1>1. ASSUME Inv, [Next]_vars
        PROVE  [\A m \in Media : Terminal(m) => media'[m] = media[m]]_mediaVars
    BY <1>1, MediaStep
  <1> QED BY <1>1, Invariance, PTL DEF Spec, ResolvedMediaIsFinal

\* A dispatched row stays so, and only a replay reopens a dead letter.
THEOREM SettledStaysFinal == Spec => SettledIsFinal
  <1>1. ASSUME Inv, [Next]_vars
        PROVE  [\A i \in Ingresses :
                   /\ outbox[i].status = "dispatched" => outbox'[i] = outbox[i]
                   /\ outbox[i].status = "dead_lettered" /\ outbox'[i] # outbox[i] =>
                          requests' # requests]_vars
    BY <1>1, RowStep DEF RowMayChange
  <1> QED BY <1>1, Invariance, PTL DEF Spec, SettledIsFinal

\* Every field has its type: in particular no row, worker or dead-letter record counts
\* more attempts than the budget and one for each worker, although claims do not look at
\* the budget and replays start the count afresh.
THEOREM TypesHold == Spec => []TypeOK
  <1>1. Init => BoundInv
    <2> SUFFICES ASSUME Init PROVE BoundInv
      OBVIOUS
    <2>1. /\ \A p \in Workers : worker[p].stage = "idle" /\ worker[p].count = 0
          /\ \A i \in Ingresses : dlq[i].events = {}
      BY DEF Init, DispatchInit, IdleWorker, NoDeadLetter
    <2>2. ASSUME NEW i \in Ingresses
          PROVE  /\ outbox[i].count = 0 /\ outbox[i].status = "absent"
                 /\ Cardinality(Readers(i)) = 0
      <3>1. Readers(i) = {}
        BY <2>1 DEF Readers
      <3> QED BY <3>1, FS_EmptySet DEF Init, DispatchInit, AbsentRow
    <2>3. CountsOfRows
      BY <2>2, ReadersFinite DEF CountsOfRows, MaxCount, Settled
    <2>4. CountsOfWorkers /\ CountsOfRecords
      BY <2>1, ReadersFinite DEF CountsOfWorkers, CountsOfRecords
    <2>5. WebhookTypes
      BY DEF Init, DispatchInit, WebhookTypes, Webhook
    <2> QED BY <2>3, <2>4, <2>5 DEF BoundInv
  <1>2. ASSUME Inv, BoundInv, [Next]_vars PROVE BoundInv'
    BY <1>2, RowCountsStep, WorkerCountsStep, RecordCountsStep, WebhookStep DEF BoundInv
  <1>3. ASSUME Inv, BoundInv PROVE TypeOK
    <2>1. MaxCount \in Nat
      BY ReadersFinite
    <2>2. ASSUME NEW i \in Ingresses PROVE outbox[i] \in OutboxRow
      <3>1. outbox[i] \in Row /\ outbox[i].count \in Nat
        BY <1>3 DEF Inv, Types, Row
      <3>2. /\ outbox[i].count + Cardinality(Readers(i))
                   <= IF outbox[i].status \in Settled THEN MaxCount ELSE MaxCount - 1
            /\ Cardinality(Readers(i)) \in Nat
        BY <1>3, ReadersFinite DEF BoundInv, CountsOfRows
      <3>3. outbox[i].count \in 0 .. MaxCount
        BY <2>1, <3>1, <3>2
      <3> QED BY <3>1, <3>3 DEF Row, OutboxRow
    <2>3. ASSUME NEW p \in Workers PROVE worker[p] \in WorkerState
      <3>1. worker[p] \in Worker /\ worker[p].count \in Nat /\ worker[p].count <= MaxCount
        BY <1>3 DEF Inv, Types, Worker, BoundInv, CountsOfWorkers
      <3>2. worker[p].count \in 0 .. MaxCount
        BY <2>1, <3>1
      <3> QED BY <3>1, <3>2 DEF Worker, WorkerState
    <2>4. ASSUME NEW i \in Ingresses PROVE dlq[i] \in DeadLetter
      BY <1>3 DEF Inv, Types, DlqTypes, Record, DeadLetter, BoundInv, CountsOfRecords
    <2>5. DispatchTypeOK
      <3>1. /\ outbox \in [Ingresses -> OutboxRow] /\ worker \in [Workers -> WorkerState]
            /\ dlq \in [Ingresses -> DeadLetter]
        BY <1>3, <2>2, <2>3, <2>4 DEF Inv, Types, DlqTypes
      <3> QED
        BY <1>3, <3>1 DEF DispatchTypeOK, Inv, Types, PlaceholderTypes, BoundInv, WebhookTypes
    <2>6. MediaTypeOK
      BY <1>3 DEF Inv, MediaInv, MediaTypes, MediaTypeOK
    <2> QED BY <1>3, <2>5, <2>6 DEF TypeOK, Inv, Types
  <1>4. Spec => []BoundInv
    BY <1>1, <1>2, Invariance, PTL DEF Spec
  <1> QED BY <1>3, <1>4, Invariance, PTL
=============================================================================
