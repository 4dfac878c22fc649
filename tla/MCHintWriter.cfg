\* Four problems, two calls at a time, a launch killed and taken up again by
\* one whose input has grown.
CONSTANTS
  NumProblems = 4
  BatchSize = 2
  SaveEvery = 2
  Rounds = 2
  Attempts = 2
  Sizes = {3, 4}
  Limits = {2, 4}
  MaxLaunches = 2
  MaxCrashes = 1
SPECIFICATION Spec
INVARIANTS
  CostOfAKill
  AllAttempted
PROPERTIES
  HintsAreKept
  LaunchesEnd
CHECK_DEADLOCK FALSE
