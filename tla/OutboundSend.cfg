\* One reply, two workers, two tasks, two attempts.
SPECIFICATION Spec
CONSTANTS
    None = None
    Replies = {reply}
    Workers = {w1, w2}
    Operators = {}
    Sweeps = {s1}
    Tasks = {t1, t2}
    MaxAttempts = 2
\* Once the reply is resolved nothing moves.
CHECK_DEADLOCK FALSE
SYMMETRY Interchangeable
INVARIANTS
    TypeOK
    DuplicateNeedsMishap
PROPERTIES
    ResolvedIsFinal
