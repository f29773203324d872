\* The contract with the actors, and progress on the relay's timer alone.
SPECIFICATION FairSpec
CONSTANTS
    Requests = {p1, d1}
    Deletes = {d1}
    MaxConcurrent = 2
    MaxConnections = 2
PROPERTIES
    EventuallyAnswered
    ImplementsContract
CHECK_DEADLOCK FALSE
