\* The documented concurrency limit, with two turns whose bodies arrive late.
SPECIFICATION Spec
CONSTANTS
    Requests = {r1, r2, r3}
    Actors = {a1}
    Sessions = {s1}
    MaxConcurrent = 1
    None = None
INVARIANTS
    ConcurrencyLimit
CHECK_DEADLOCK FALSE
