\* Two executions of which one is requested, one that ingress may dispatch again or one
\* of a conversation; two publishers with one publisher_id, two overlapping sweeps of
\* which one may be lost.
SPECIFICATION FairSpec
CONSTANTS
    None = None
    Executions = {mail, chat}
    Ingress = {mail}
    Publishers = {p1, p2}
    Sweeps = {s1, s2}
    Identities = {"dispatch", "sweep"}
    IdentityOf <- MCIdentityOf
    MaxPublishAttempts = 2
    PublishBound = 4
    RollbackBound = 1
    RequestBound = 1
\* Once every row is published or out of budget nothing moves.
CHECK_DEADLOCK FALSE
INVARIANTS
    TypeOK
    PublishedWasSent
    SendsAreCounted
    FreshClaimIsExclusive
PROPERTIES
    PublishedIsFinal
    SweepsKeepBudget
    ClaimsAreReleased
    FailedPublicationIsResolved
