\* A worker whose process dies, and an operator who has tried before it.
SPECIFICATION Spec
CONSTANTS
    None = None
    Replies = {reply}
    Workers = {w1}
    Operators = {op1}
    Sweeps = {s1}
    Tasks = {t1}
    MaxAttempts = 2
CHECK_DEADLOCK FALSE
PROPERTIES
    CrashCausesNoDuplicate
