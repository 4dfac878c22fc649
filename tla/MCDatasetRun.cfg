\* Two launches with any options over three prompts, two to a batch.
CONSTANTS
  NumPrompts = 3
  BatchSize = 2
  MaxRetries = 1
  SeedStep = 3
  Samples <- FourSamples
  Options <- AllOptions
  MaxLaunches = 2
  MaxCrashes = 1
SPECIFICATION Spec
INVARIANT
  FinishedRun
PROPERTIES
  NothingIsLost
  ReplacesOnlyWhatItRetries
  RetriesDrawAnew
  LaunchesEnd
CHECK_DEADLOCK FALSE
