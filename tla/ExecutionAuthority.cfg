\* One execution, two worker slots, two Celery tasks, three claims.
SPECIFICATION Spec
CONSTANTS
    None = None
    Executions = {e1}
    Tasks = {t1, t2}
    Runs = {r1, r2}
    ErrorClasses <- MCErrorClasses
    MaxRetries = 2
    AttemptBound = 3
\* Once every execution is settled and every message acknowledged nothing moves.
CHECK_DEADLOCK FALSE
SYMMETRY Interchangeable
INVARIANTS
    TypeOK
    AttemptLineage
    RunsOwnDistinctAttempts
    EffectsCommitOnce
    FailureIsHandedOff
    RetriesWithinBudget
PROPERTIES
    SettledIsFinal
    OnlyTheHolderReleases
    FailureFollowsPolicy
    AttemptHistoryAppends
    ImplementsContract
