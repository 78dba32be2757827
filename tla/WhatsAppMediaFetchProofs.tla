---------------------- MODULE WhatsAppMediaFetchProofs ----------------------
(***************************************************************************)
(* Steps of WhatsAppMediaFetch, for every number of media and fetchers:    *)
(* the invariant that keeps rows and attachments in agreement.  It is used *)
(* by the theorems of DeadLetterReplayProofs.                              *)
(***************************************************************************)
EXTENDS WhatsAppMediaFetch, TLAPS

MediaTypes ==
    /\ media \in [Media -> {"absent", "pending", "stored", "failed"}]
    /\ retries \in [Media -> 0 .. MaxFetchRetries]
    /\ fetcher \in [Fetchers -> FetcherState]
    /\ attachments \in [Media -> Nat]
    /\ raced \in SUBSET Media

\* A task is at work on a row that exists.
FetchersHaveRows ==
    \A f \in Fetchers :
        fetcher[f].stage # "idle" =>
            fetcher[f].media \in Media /\ media[fetcher[f].media] # "absent"

\* Whoever is at work on a resolved row raced the task that resolved it.
LateIsRaced ==
    \A f \in Fetchers :
        fetcher[f].stage # "idle" /\ Terminal(fetcher[f].media) => fetcher[f].media \in raced

\* A pending row is fetched under its lock, which one task has.
FetchIsLocked ==
    /\ \A f \in Fetchers :
           /\ fetcher[f].locked => fetcher[f].stage = "fetching"
           /\ fetcher[f].stage = "fetching" /\ media[fetcher[f].media] = "pending" =>
                  fetcher[f].locked
    /\ \A f, g \in Fetchers :
           fetcher[f].locked /\ fetcher[g].locked /\ fetcher[f].media = fetcher[g].media =>
               f = g

MediaInv ==
    MediaTypes /\ FetchersHaveRows /\ LateIsRaced /\ FetchIsLocked /\ AttachmentsMatchMedia

\* A step of the fetchers creates no row, and changes pending rows alone.
MediaOnlyResolves ==
    \A m \in Media :
        /\ Terminal(m) => media'[m] = media[m]
        /\ media[m] = "absent" <=> media'[m] = "absent"
        /\ media'[m] = "pending" => media[m] = "pending"

-----------------------------------------------------------------------------
\* Nothing is fetched before a message is captured.
LEMMA MediaInvInit == MediaInit => MediaInv
  BY FetchAssumption DEF MediaInit, MediaInv, MediaTypes, FetchersHaveRows, LateIsRaced,
     FetchIsLocked, AttachmentsMatchMedia, FetcherState, IdleFetcher, Terminal

\* The placeholders of a new message become pending, where they have no row.
LEMMA CreatePendingKeeps ==
    ASSUME MediaInv, NEW ms \in SUBSET Media, CreatePending(ms)
    PROVE  MediaInv' /\ \A m \in Media : Terminal(m) => media'[m] = media[m]
  BY DEF MediaInv, MediaTypes, FetchersHaveRows, LateIsRaced, FetchIsLocked,
     AttachmentsMatchMedia, FetcherState, Terminal, CreatePending

\* A task finds a pending row.
LEMMA FindPendingKeeps ==
    ASSUME MediaInv, NEW f \in Fetchers, NEW m \in Media, NEW n \in 0 .. MaxFetchRetries,
           FindPending(f, m, n)
    PROVE  MediaInv' /\ MediaOnlyResolves
  <1> DEFINE found == [stage |-> "found", media |-> m, retry |-> n, locked |-> FALSE]
  <1>1. found \in FetcherState /\ media[m] = "pending"
    BY FetchAssumption DEF FetcherState, FindPending
  <1>2. /\ fetcher' = [fetcher EXCEPT ![f] = found]
        /\ UNCHANGED <<media, retries, attachments, raced>>
    BY DEF FindPending
  <1>3. MediaTypes' /\ FetchersHaveRows' /\ LateIsRaced' /\ FetchIsLocked'
    BY <1>1, <1>2 DEF MediaInv, MediaTypes, FetchersHaveRows, LateIsRaced, FetchIsLocked, Terminal
  <1>4. AttachmentsMatchMedia' /\ MediaOnlyResolves
    BY <1>2 DEF MediaInv, AttachmentsMatchMedia, MediaOnlyResolves, Terminal
  <1> QED BY <1>3, <1>4 DEF MediaInv

\* A task takes the lock, or finds the row resolved and goes on without it.
LEMMA IncrementAttemptKeeps ==
    ASSUME MediaInv, NEW f \in Fetchers, IncrementAttempt(f)
    PROVE  MediaInv' /\ MediaOnlyResolves
  <1> DEFINE m == fetcher[f].media
             taken == [fetcher[f] EXCEPT !.stage = "fetching", !.locked = ~Terminal(m)]
  <1>1. fetcher[f] \in FetcherState /\ m \in Media /\ media[m] # "absent"
    BY DEF MediaInv, MediaTypes, FetchersHaveRows, IncrementAttempt
  <1>2. /\ taken \in FetcherState /\ taken.stage = "fetching" /\ taken.media = m
        /\ taken.locked = ~Terminal(m)
    BY <1>1 DEF FetcherState, Terminal
  <1>3. /\ fetcher' = [fetcher EXCEPT ![f] = taken]
        /\ \A g \in Fetchers : ~(fetcher[g].locked /\ fetcher[g].media = m)
        /\ fetcher[f].stage = "found"
        /\ UNCHANGED <<media, retries, attachments, raced>>
    BY DEF IncrementAttempt
  <1> HIDE DEF taken
  <1>4. MediaTypes' /\ FetchersHaveRows' /\ LateIsRaced'
    BY <1>1, <1>2, <1>3 DEF MediaInv, MediaTypes, FetchersHaveRows, LateIsRaced, Terminal
  <1>5. FetchIsLocked'
    BY <1>1, <1>2, <1>3 DEF MediaInv, MediaTypes, FetchIsLocked, Terminal
  <1>6. AttachmentsMatchMedia' /\ MediaOnlyResolves
    BY <1>3 DEF MediaInv, AttachmentsMatchMedia, MediaOnlyResolves, Terminal
  <1> QED BY <1>4, <1>5, <1>6 DEF MediaInv

\* A task stores the attachment and resolves the row, unless it is resolved.
LEMMA StoreMediaKeeps ==
    ASSUME MediaInv, NEW f \in Fetchers, StoreMedia(f)
    PROVE  MediaInv' /\ MediaOnlyResolves
  <1> DEFINE m == fetcher[f].media
  <1>1. fetcher[f] \in FetcherState /\ m \in Media /\ media[m] # "absent" /\ IdleFetcher \in FetcherState
    BY FetchAssumption DEF MediaInv, MediaTypes, FetchersHaveRows, StoreMedia, FetcherState, IdleFetcher
  <1>2. /\ fetcher' = [fetcher EXCEPT ![f] = IdleFetcher]
        /\ IdleFetcher.stage = "idle" /\ IdleFetcher.locked = FALSE
        /\ media' = [media EXCEPT ![m] = Resolved(m, "stored")]
        /\ attachments' = [attachments EXCEPT ![m] = attachments[m] + 1]
        /\ raced' = raced \cup Contended(f) /\ retries' = retries
        /\ fetcher[f].stage = "fetching"
    BY DEF StoreMedia, IdleFetcher
  <1>3. /\ Terminal(m) => Resolved(m, "stored") = media[m]
        /\ ~Terminal(m) => Resolved(m, "stored") = "stored" /\ media[m] = "pending"
    BY <1>1 DEF Resolved, Terminal, MediaInv, MediaTypes
  <1>4. /\ Contended(f) \subseteq Media
        /\ \A g \in Fetchers : g # f /\ fetcher[g].media = m => m \in Contended(f)
    BY <1>1 DEF Contended
  <1>5. MediaTypes'
    BY <1>1, <1>2, <1>3, <1>4 DEF MediaInv, MediaTypes
  <1>6. MediaOnlyResolves
    BY <1>1, <1>2, <1>3 DEF MediaInv, MediaTypes, MediaOnlyResolves, Terminal
  <1>7. FetchersHaveRows' /\ FetchIsLocked'
    BY <1>1, <1>2, <1>3 DEF MediaInv, MediaTypes, FetchersHaveRows, FetchIsLocked, Terminal
  <1>8. LateIsRaced'
    BY <1>1, <1>2, <1>3, <1>4 DEF MediaInv, MediaTypes, FetchersHaveRows, LateIsRaced, Terminal
  <1>9. AttachmentsMatchMedia'
    <2> SUFFICES ASSUME NEW n \in Media
                 PROVE  /\ media'[n] = "stored" => attachments'[n] > 0
                        /\ media'[n] \in {"absent", "pending"} => attachments'[n] = 0
                        /\ attachments'[n] > 1 \/ (media'[n] = "failed" /\ attachments'[n] > 0)
                               => n \in raced'
      BY DEF AttachmentsMatchMedia
    <2>1. attachments[n] \in Nat
      BY DEF MediaInv, MediaTypes
    <2>2. CASE n # m
      BY <2>2, <1>2, <1>5, <1>1 DEF MediaInv, MediaTypes, AttachmentsMatchMedia
    <2>3. CASE n = m /\ Terminal(m)
      <3>1. m \in raced
        BY <2>3, <1>2 DEF MediaInv, LateIsRaced
      <3> QED BY <2>3, <2>1, <3>1, <1>1, <1>2, <1>3 DEF MediaInv, MediaTypes, Terminal
    <2>4. CASE n = m /\ ~Terminal(m)
      <3>1. attachments[m] = 0
        BY <2>4, <1>1, <1>3 DEF MediaInv, AttachmentsMatchMedia
      <3>2. attachments'[m] = 1 /\ media'[m] = "stored"
        BY <2>4, <3>1, <1>1, <1>2, <1>3 DEF MediaInv, MediaTypes
      <3> QED BY <2>4, <3>2
    <2> QED BY <2>2, <2>3, <2>4
  <1> QED BY <1>5, <1>6, <1>7, <1>8, <1>9 DEF MediaInv

\* A task gives up for now, or for good.
LEMMA FailFetchKeeps ==
    ASSUME MediaInv, NEW f \in Fetchers, FailFetch(f)
    PROVE  MediaInv' /\ MediaOnlyResolves
  <1> DEFINE m == fetcher[f].media
             n == fetcher[f].retry
  <1>1. /\ fetcher[f] \in FetcherState /\ m \in Media /\ media[m] # "absent"
        /\ IdleFetcher \in FetcherState /\ IdleFetcher.stage = "idle" /\ IdleFetcher.locked = FALSE
    BY FetchAssumption DEF MediaInv, MediaTypes, FetchersHaveRows, FailFetch, FetcherState, IdleFetcher
  <1>2. /\ fetcher' = [fetcher EXCEPT ![f] = IdleFetcher]
        /\ attachments' = attachments /\ fetcher[f].stage = "fetching"
    BY DEF FailFetch
  <1>3. n \in 0 .. MaxFetchRetries
    BY <1>1 DEF FetcherState
  <1>4. /\ Contended(f) \subseteq Media
        /\ \A g \in Fetchers : g # f /\ fetcher[g].media = m => m \in Contended(f)
    BY <1>1 DEF Contended
  <1>5. CASE n >= MaxFetchRetries
    <2>1. /\ media' = [media EXCEPT ![m] = Resolved(m, "failed")]
          /\ raced' = raced \cup Contended(f) /\ retries' = retries
      BY <1>5 DEF FailFetch
    <2>2. /\ Terminal(m) => Resolved(m, "failed") = media[m]
          /\ ~Terminal(m) => Resolved(m, "failed") = "failed" /\ media[m] = "pending"
      BY <1>1 DEF Resolved, Terminal, MediaInv, MediaTypes
    <2>3. MediaTypes'
      BY <1>1, <1>2, <2>1, <2>2, <1>4 DEF MediaInv, MediaTypes
    <2>4. MediaOnlyResolves
      BY <1>1, <2>1, <2>2 DEF MediaInv, MediaTypes, MediaOnlyResolves, Terminal
    <2>5. FetchersHaveRows' /\ FetchIsLocked'
      BY <1>1, <1>2, <2>1, <2>2 DEF MediaInv, MediaTypes, FetchersHaveRows, FetchIsLocked, Terminal
    <2>6. LateIsRaced'
      BY <1>1, <1>2, <1>4, <2>1, <2>2
         DEF MediaInv, MediaTypes, FetchersHaveRows, LateIsRaced, Terminal
    <2>7. AttachmentsMatchMedia'
      BY <1>1, <1>2, <2>1, <2>2 DEF MediaInv, MediaTypes, AttachmentsMatchMedia, Terminal
    <2> QED BY <2>3, <2>4, <2>5, <2>6, <2>7 DEF MediaInv
  <1>6. CASE ~(n >= MaxFetchRetries)
    <2>1. /\ retries' = [retries EXCEPT ![m] = IF retries[m] > n THEN retries[m] ELSE n + 1]
          /\ UNCHANGED <<media, raced>>
      BY <1>6 DEF FailFetch
    <2>2. MediaTypes'
      BY <1>1, <1>2, <1>3, <1>6, <2>1, FetchAssumption DEF MediaInv, MediaTypes
    <2>3. FetchersHaveRows' /\ LateIsRaced' /\ FetchIsLocked'
      BY <1>1, <1>2, <2>1
         DEF MediaInv, MediaTypes, FetchersHaveRows, LateIsRaced, FetchIsLocked, Terminal
    <2>4. AttachmentsMatchMedia' /\ MediaOnlyResolves
      BY <1>2, <2>1 DEF MediaInv, AttachmentsMatchMedia, MediaOnlyResolves, Terminal
    <2> QED BY <2>2, <2>3, <2>4 DEF MediaInv
  <1> QED BY <1>5, <1>6

\* A task dies, with its lock.
LEMMA CrashFetchKeeps ==
    ASSUME MediaInv, NEW f \in Fetchers, CrashFetch(f)
    PROVE  MediaInv' /\ MediaOnlyResolves
  <1>1. /\ fetcher' = [fetcher EXCEPT ![f] = IdleFetcher]
        /\ UNCHANGED <<media, retries, attachments, raced>>
        /\ IdleFetcher \in FetcherState /\ IdleFetcher.stage = "idle" /\ IdleFetcher.locked = FALSE
    BY FetchAssumption DEF CrashFetch, FetcherState, IdleFetcher
  <1>2. MediaTypes' /\ FetchersHaveRows' /\ LateIsRaced' /\ FetchIsLocked'
    BY <1>1 DEF MediaInv, MediaTypes, FetchersHaveRows, LateIsRaced, FetchIsLocked, Terminal
  <1>3. AttachmentsMatchMedia' /\ MediaOnlyResolves
    BY <1>1 DEF MediaInv, AttachmentsMatchMedia, MediaOnlyResolves, Terminal
  <1> QED BY <1>2, <1>3 DEF MediaInv

\* Every step of the fetchers keeps the invariant and leaves resolved rows alone.
LEMMA MediaStepKeeps ==
    ASSUME MediaInv, MediaNext
    PROVE  MediaInv' /\ MediaOnlyResolves
  BY FindPendingKeeps, IncrementAttemptKeeps, StoreMediaKeeps, FailFetchKeeps, CrashFetchKeeps
     DEF MediaNext

\* The other processes do not touch the media.
LEMMA MediaStutter ==
    ASSUME MediaInv, UNCHANGED mediaVars
    PROVE  MediaInv' /\ MediaOnlyResolves
  BY DEF MediaInv, MediaTypes, FetchersHaveRows, LateIsRaced, FetchIsLocked,
     AttachmentsMatchMedia, MediaOnlyResolves, Terminal, mediaVars
=============================================================================
