SPECIFICATION Spec
CONSTANTS
  Actors = {a1, a2}
  Options <- MCOptions
  Parts = {1, 2}
  Texts = {"old", "new", "key", "blank", "huge"}
  Absent = Absent
  Link = Link
  Paths <- MCPaths
  Inside <- MCInside
  WhitespaceTexts = {"blank"}
  CredentialPaths = {"key"}
  CredentialTexts = {"key"}
  ProtectedPaths = {"policy"}
  Tasks <- MCTasks
  InitialTrees <- MCInitialTrees
  Diffs <- MCDiffs
  Edits <- MCEdits
  MaxMoves = 3
INVARIANTS
  IInv
  EachPatchAsValidated
  PatchesCombine
PROPERTIES
  CommitsWhatWasTested
  EditsSurvive
  StagedKeepsPolicy
CHECK_DEADLOCK FALSE
