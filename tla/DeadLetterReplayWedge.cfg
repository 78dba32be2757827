\* One message without attachments, one worker, one replay.
SPECIFICATION FairSpec
CONSTANTS
    email = email
    whatsapp = whatsapp
    shopify = shopify
    w1 = w1
    Media = {}
    Fetchers = {}
    NoMedia = NoMedia
    MaxFetchRetries = 0
    Ingresses = {email}
    MediaOf <- MCMediaOf
    Workers = {w1}
    WorkersOf <- MCWorkersOf
    Tasks = {t1}
    NoIngress = NoIngress
    MaxAttempts = 2
    MediaWaitLimit = 2
    MediaCommits = TRUE
    ReplayBound <- MCReplayBound
    RequestBound = 1
    CaptureBound = 1
CHECK_DEADLOCK FALSE
PROPERTIES
    ExhaustedIsDeadLettered
