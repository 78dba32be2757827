\* One reply, a worker and two operators who send it through the API, fairness.
SPECIFICATION FairSpec
CONSTANTS
    None = None
    Replies = {reply}
    Workers = {w1}
    Operators = {op1, op2}
    Sweeps = {s1}
    Tasks = {t1}
    MaxAttempts = 2
\* Once the reply is resolved nothing moves.
CHECK_DEADLOCK FALSE
INVARIANTS
    SentIsTrue
    DuplicateNeedsRetry
PROPERTIES
    IntentsAreResolved
