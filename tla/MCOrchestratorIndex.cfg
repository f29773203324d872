\* The documented promise that only the validated index is committed.
SPECIFICATION Spec
CONSTANTS
  Actors = {a1, a2}
  Options <- MCOptions
  Parts = {1, 2}
  Texts = {"old", "new", "key", "blank", "huge"}
  Absent = Absent
  Link = Link
  Paths <- MCPaths
  Inside <- MCInside
  WhitespaceTexts = {"blank"}
  CredentialPaths = {"key"}
  CredentialTexts = {"key"}
  ProtectedPaths = {"policy"}
  Tasks <- MCTasks
  InitialTrees <- MCInitialTrees
  Diffs <- MCDiffs
  Edits <- MCEdits
  MaxMoves = 3
PROPERTIES
  OnlyValidatedIndex
CHECK_DEADLOCK FALSE
