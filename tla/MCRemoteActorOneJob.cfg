\* The documented promise that a process serves one job.
SPECIFICATION FairSpec
CONSTANTS
    Jobs = {j1, j2}
    MaxLives = 1
INVARIANTS
    OneJobPerProcess
CHECK_DEADLOCK FALSE
