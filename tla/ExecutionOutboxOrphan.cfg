\* A conversation execution whose publisher crashes after its commit.
SPECIFICATION FairSpec
CONSTANTS
    None = None
    Executions = {chat}
    Ingress = {}
    Publishers = {p1, p2}
    Sweeps = {s1, s2}
    Identities = {"dispatch", "sweep"}
    IdentityOf <- MCIdentityOf
    MaxPublishAttempts = 3
    PublishBound = 3
    RollbackBound = 2
    RequestBound = 1
CHECK_DEADLOCK FALSE
PROPERTIES
    IntentIsNotOrphaned
