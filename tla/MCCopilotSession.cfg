\* Two prompts with a tool turn, or one with two: three turns, two tool calls.
SPECIFICATION FairSpec
CONSTANTS
    Turns = {t1, t2, t3}
    Calls = {c1, c2}
    None = None
INVARIANTS
    IInv
    OneWaiter
    OwnEvents
    DeleteReleases
PROPERTIES
    TurnEnds
CHECK_DEADLOCK FALSE
