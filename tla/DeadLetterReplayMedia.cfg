\* A WhatsApp message with an attachment, received by the webhook as it is wired.
SPECIFICATION Spec
CONSTANTS
    email = email
    whatsapp = whatsapp
    shopify = shopify
    w1 = w1
    Media = {photo}
    Fetchers = {f1}
    NoMedia = NoMedia
    MaxFetchRetries = 0
    Ingresses = {whatsapp}
    MediaOf <- MCMediaOf
    Workers = {w1}
    WorkersOf <- MCWorkersOf
    Tasks = {t1}
    NoIngress = NoIngress
    MaxAttempts = 2
    MediaWaitLimit = 2
    MediaCommits = FALSE
    ReplayBound <- MCReplayBound
    RequestBound = 0
    CaptureBound = 1
CHECK_DEADLOCK FALSE
INVARIANTS
    MediaIsKept
