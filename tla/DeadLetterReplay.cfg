\* Three messages of which one is captured: an email with two workers and a replay, a
\* WhatsApp message with or without an attachment, a Shopify message replayed twice.
SPECIFICATION FairSpec
CONSTANTS
    email = email
    whatsapp = whatsapp
    shopify = shopify
    w1 = w1
    Media = {photo}
    Fetchers = {f1, f2}
    NoMedia = NoMedia
    MaxFetchRetries = 1
    Ingresses = {email, whatsapp, shopify}
    MediaOf <- MCMediaOf
    Workers = {w1, w2}
    WorkersOf <- MCWorkersOf
    Tasks = {t1}
    NoIngress = NoIngress
    MaxAttempts = 2
    MediaWaitLimit = 2
    MediaCommits = TRUE
    ReplayBound <- MCReplayBound
    RequestBound = 2
    CaptureBound = 1
\* Once the message is settled nothing moves.
CHECK_DEADLOCK FALSE
INVARIANTS
    TypeOK
    AttachmentsMatchMedia
    OneExecutionPerIngress
    DispatchedHasOutcome
    MediaIsWaitedFor
    DeadLetterNeedsTrouble
    ReplayClaimsAreExclusive
PROPERTIES
    ResolvedMediaIsFinal
    SettledIsFinal
    CapturedIsSettled
