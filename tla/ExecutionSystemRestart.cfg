\* A worker that dies while its execution is claimed.
SPECIFICATION FairSpec
CONSTANTS
    None = None
    Executions = {e1}
    Tasks = {t1, t2}
    Runs = {r1, r2}
    ErrorClasses <- MCErrorClasses
    MaxRetries = 1
    AttemptBound = 2
    Ingress = {}
    Publishers = {p1}
    Sweeps = {s1}
    Identities = {"dispatch", "sweep"}
    IdentityOf <- MCIdentityOf
    MaxPublishAttempts = 2
    PublishBound = 2
    RollbackBound = 0
\* Once every execution is settled and every message acknowledged nothing moves.
CHECK_DEADLOCK FALSE
PROPERTIES
    RestartIsReclaimed
