SPECIFICATION Spec
CONSTANTS
  ClientOptions <- MCClientOptions
  ActorOptions <- MCActorOptions
  Parts = {1}
  Texts = {"old", "new", "blank", "huge"}
  Absent = Absent
  Link = Link
  Paths = {"math", "built", "key", "policy"}
  Inside <- MCInside
  WhitespaceTexts = {"blank"}
  CredentialPaths = {"key"}
  CredentialTexts = {}
  ProtectedPaths = {"policy"}
  UnlistedPaths = {"built"}
  IgnoredPaths = {"built"}
  MaxEdits = 3
INVARIANTS
  IInv
  SourceArrives
  AcceptedWasTested
CHECK_DEADLOCK FALSE
