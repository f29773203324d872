SPECIFICATION Spec
CONSTANTS
  MaxAttempts = 5
  OneActorAttempts = 3
  MaxLives = 6
INVARIANTS
  TypeOK
  OneAttemptAtWork
  FreshProcess
  AcceptedAfterRejections
CHECK_DEADLOCK FALSE
