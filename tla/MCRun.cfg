\* Room for two checkpoints: crashes, continued, resumed and overwritten launches.
CONSTANTS
  Configs <- RoomForTwo
  Scores = {1, 2}
  Flags = {"", "--continue-run", "--overwrite", "--resume"}
  MaxTotal = 5
  MaxLaunches = 3
  MaxCrashes = 2
SPECIFICATION Spec
INVARIANTS
  TypeOK
  TrackedIsLoadable
  BestIsKept
  ResumesWhereItStopped
  FinishedRun
CHECK_DEADLOCK FALSE
