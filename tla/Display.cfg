CONSTANTS
  PageCount = 2
  Width = 2
  Texts = {0, 1, 2}
  SceneLines = 1
  RetryDelay = 2
  RedrawFails = FALSE
SPECIFICATION FairSpec
INVARIANTS
  UnsentIsDirty
  ReadyMeansShown
PROPERTY ShownAtLast
