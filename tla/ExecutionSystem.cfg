\* An execution that ingress may dispatch again, its publisher, a sweep that may be lost, two slots.
SPECIFICATION Spec
CONSTANTS
    None = None
    Executions = {e1}
    Tasks = {t1, t2}
    Runs = {r1, r2}
    ErrorClasses <- MCErrorClasses
    MaxRetries = 1
    AttemptBound = 2
    Ingress = {e1}
    Publishers = {p1}
    Sweeps = {s1}
    Identities = {"dispatch", "sweep"}
    IdentityOf <- MCIdentityOf
    MaxPublishAttempts = 2
    PublishBound = 2
    RollbackBound = 1
\* Once every execution is settled and every message acknowledged nothing moves.
CHECK_DEADLOCK FALSE
SYMMETRY Interchangeable
INVARIANTS
    TypeOK
    StrandedOnlyByFault
