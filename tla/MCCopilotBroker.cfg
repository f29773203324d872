\* Four requests of two actors, two sessions, one slot.
SPECIFICATION Spec
CONSTANTS
    Requests = {r1, r2, r3, r4}
    Actors = {a1, a2}
    Sessions = {s1, s2}
    MaxConcurrent = 1
    None = None
SYMMETRY Symmetry
INVARIANTS
    TypeOK
    SlotsCounted
    SessionsInStep
    OwnSession
    ClosedClean
CHECK_DEADLOCK FALSE
