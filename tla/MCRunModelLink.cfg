\* A finished run whose last checkpoint was kept, continued.
CONSTANTS
  Configs <- RoomForTwo
  Scores = {1, 2}
  Flags = {"", "--continue-run"}
  MaxTotal = 6
  MaxLaunches = 2
  MaxCrashes = 0
SPECIFICATION Spec
INVARIANT
  ModelResolves
CHECK_DEADLOCK FALSE
