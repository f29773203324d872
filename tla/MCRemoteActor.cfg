\* Two jobs on three processes of the container; progress on timers and local
\* work alone.
SPECIFICATION FairSpec
CONSTANTS
    Jobs = {j1, j2}
    MaxLives = 3
INVARIANTS
    TypeOK
    JobsCounted
    BusyIsReal
    RunRootsOwned
    DeliveryEndsProcess
PROPERTIES
    WorkEnds
CHECK_DEADLOCK FALSE
