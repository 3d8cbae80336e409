\* A fill and two requests of two generator versions; one day stored before the pipeline.
SPECIFICATION Spec
CONSTANTS
  easy = easy
  hard = hard
  f1 = f1
  f2 = f2
  r1 = r1
  r2 = r2
  v1 = v1
  v2 = v2
  None = None
  Tracks <- TwoGames
  Fills = {f1}
  Requests = {r1, r2}
  Versions = {v1, v2}
  VersionOf <- Rollout
  Today = 1
  Ahead = 0
  Archive = 1
  AlertBelow = 1
  Unsolved <- OldDay
INVARIANTS
  ServedStable
  OkMeansFilled
  NeverMissing
CHECK_DEADLOCK FALSE
