------------------------- MODULE WhatsAppMediaFetch -------------------------
(***************************************************************************)
(* Fetching the attachments of a WhatsApp message: one row of              *)
(* whatsapp_media_fetch_records per placeholder                            *)
(* (app/boundary/whatsapp_media_fetch.py), the Celery task that downloads  *)
(* and stores it, its retries, and the sweep that starts it again          *)
(* (app/workers/whatsapp_media_fetch_tasks.py).                            *)
(*                                                                         *)
(* A task is one transaction, but one that lasts as long as the download.  *)
(* Its steps are therefore its statements: the read, the UPDATE that locks *)
(* the row, and the commit with the outcome.                               *)
(***************************************************************************)
EXTENDS Naturals, FiniteSets

CONSTANTS
    Media,           \* media placeholders
    Fetchers,        \* slots that run fetch_whatsapp_media
    NoMedia,         \* the absent placeholder of an idle fetcher
    MaxFetchRetries  \* _MAX_FETCH_RETRIES

ASSUME FetchAssumption == NoMedia \notin Media /\ MaxFetchRetries \in Nat

VARIABLES
    media,        \* media[m]: the status of the row of m
    retries,      \* retries[m]: the highest Celery retry issued for m
    fetcher,      \* fetcher[f]: where a task stands
    attachments,  \* attachments[m]: attachments stored and committed for m
    raced         \* media resolved while another task was at work on them (history)

mediaVars == <<media, retries, fetcher, attachments, raced>>

-----------------------------------------------------------------------------
FetcherState ==
    [stage : {"idle", "found", "fetching"}, media : Media \cup {NoMedia},
     retry : 0 .. MaxFetchRetries, locked : BOOLEAN]

IdleFetcher == [stage |-> "idle", media |-> NoMedia, retry |-> 0, locked |-> FALSE]

MediaTypeOK ==
    /\ media \in [Media -> {"absent", "pending", "stored", "failed"}]
    /\ retries \in [Media -> 0 .. MaxFetchRetries]
    /\ fetcher \in [Fetchers -> FetcherState]
    /\ attachments \in [Media -> Nat]
    /\ raced \subseteq Media

MediaInit ==
    /\ media = [m \in Media |-> "absent"]
    /\ retries = [m \in Media |-> 0]
    /\ fetcher = [f \in Fetchers |-> IdleFetcher]
    /\ attachments = [m \in Media |-> 0]
    /\ raced = {}

\* is_terminal
Terminal(m) == media[m] \in {"stored", "failed"}

-----------------------------------------------------------------------------
(* The task *)

\* create_pending, for the placeholders of a captured message: ON CONFLICT DO NOTHING.
CreatePending(ms) ==
    /\ media' = [m \in Media |->
                    IF m \in ms /\ media[m] = "absent" THEN "pending" ELSE media[m]]
    /\ UNCHANGED <<retries, fetcher, attachments, raced>>

\* A task that does not look whether the row is resolved (a faulty variant).
FindAny(f, m, n) ==
    /\ fetcher[f].stage = "idle"
    /\ media[m] # "absent" /\ n <= retries[m]
    /\ fetcher' = [fetcher EXCEPT ![f] =
           [stage |-> "found", media |-> m, retry |-> n, locked |-> FALSE]]
    /\ UNCHANGED <<media, retries, attachments, raced>>

\* The task starts and reads a row that is not resolved.  Capture and the sweep issue
\* retry 0; any message may be late, repeated or lost.
FindPending(f, m, n) ==
    /\ fetcher[f].stage = "idle"
    /\ media[m] = "pending" /\ n <= retries[m]
    /\ fetcher' = [fetcher EXCEPT ![f] =
           [stage |-> "found", media |-> m, retry |-> n, locked |-> FALSE]]
    /\ UNCHANGED <<media, retries, attachments, raced>>

\* increment_attempt: waits for the lock of another task, and locks the row if it is
\* still pending.  The task goes on in either case.
IncrementAttempt(f) ==
    LET m == fetcher[f].media
    IN  /\ fetcher[f].stage = "found"
        /\ \A g \in Fetchers : ~(fetcher[g].locked /\ fetcher[g].media = m)
        /\ fetcher' = [fetcher EXCEPT ![f] =
               [@ EXCEPT !.stage = "fetching", !.locked = ~Terminal(m)]]
        /\ UNCHANGED <<media, retries, attachments, raced>>

\* A mark that does not ask for a pending row (a faulty variant).
Overwritten(m, status) == status

\* mark_stored, mark_failed: WHERE status = 'pending'.
Resolved(m, status) == IF Terminal(m) THEN media[m] ELSE status

\* The medium of f, if another task is at work on it.
Contended(f) == {m \in Media : \E g \in Fetchers \ {f} : fetcher[f].media = m /\ fetcher[g].media = m}

\* The attachment, which gets a random id, and mark_stored.
StoreMedia(f) ==
    LET m == fetcher[f].media
    IN  /\ fetcher[f].stage = "fetching"
        /\ media' = [media EXCEPT ![m] = Resolved(m, "stored")]
        /\ attachments' = [attachments EXCEPT ![m] = @ + 1]
        /\ fetcher' = [fetcher EXCEPT ![f] = IdleFetcher]
        /\ raced' = raced \cup Contended(f)
        /\ UNCHANGED retries

\* The credentials, the download or the store fail: the task asks for a retry, or
\* marks the row failed when it was the last one.
FailFetch(f) ==
    LET m == fetcher[f].media
        n == fetcher[f].retry
    IN  /\ fetcher[f].stage = "fetching"
        /\ IF n >= MaxFetchRetries
           THEN /\ media' = [media EXCEPT ![m] = Resolved(m, "failed")]
                /\ raced' = raced \cup Contended(f)
                /\ UNCHANGED retries
           ELSE /\ retries' = [retries EXCEPT ![m] = IF @ > n THEN @ ELSE n + 1]
                /\ UNCHANGED <<media, raced>>
        /\ fetcher' = [fetcher EXCEPT ![f] = IdleFetcher]
        /\ UNCHANGED attachments

\* The process dies and its transaction is rolled back.
CrashFetch(f) ==
    /\ fetcher[f].stage # "idle"
    /\ fetcher' = [fetcher EXCEPT ![f] = IdleFetcher]
    /\ UNCHANGED <<media, retries, attachments, raced>>

MediaNext ==
    \E f \in Fetchers :
        \/ \E m \in Media, n \in 0 .. MaxFetchRetries : FindPending(f, m, n)
        \/ IncrementAttempt(f)
        \/ StoreMedia(f)
        \/ FailFetch(f)
        \/ CrashFetch(f)

-----------------------------------------------------------------------------
(* Properties *)

\* Rows and attachments agree: a stored row has an attachment and a pending one has
\* none, whatever is retried, redelivered or lost.  A second attachment, or one of a
\* failed row, takes a task that read the row before another task resolved it:
\* increment_attempt, whose result is ignored, does not stop it.  A task that starts
\* later is stopped.
AttachmentsMatchMedia ==
    \A m \in Media :
        /\ media[m] = "stored" => attachments[m] > 0
        /\ media[m] \in {"absent", "pending"} => attachments[m] = 0
        /\ attachments[m] > 1 \/ (media[m] = "failed" /\ attachments[m] > 0) => m \in raced

\* What a dispatch has read of a resolved row stays true: no late task turns a failed
\* attachment into a stored one or a stored one into a failed one.
ResolvedMediaIsFinal ==
    [][\A m \in Media : Terminal(m) => media'[m] = media[m]]_mediaVars
=============================================================================
