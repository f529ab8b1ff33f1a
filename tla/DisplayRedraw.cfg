CONSTANTS
  PageCount = 2
  Width = 2
  Texts = {0, 1, 2}
  SceneLines = 1
  RetryDelay = 2
  RedrawFails = TRUE
SPECIFICATION FairSpec
INVARIANT ReadyMeansShown
