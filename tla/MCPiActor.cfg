SPECIFICATION FairSpec
CONSTANTS
  Leader = leader
  Descendants = {child1, child2}
  MaxCalls = 3
INVARIANTS
  IInv
  SessionReleased
  ResultsOnce
  CommandsOver
PROPERTY
  AbortEnds
CHECK_DEADLOCK FALSE
