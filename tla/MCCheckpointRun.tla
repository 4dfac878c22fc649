-------------------------- MODULE MCCheckpointRun ---------------------------
(***************************************************************************)
(* Options for checking the runs of a run directory.                       *)
(***************************************************************************)
EXTENDS CheckpointRun

\* The best checkpoint and the last one, validated every other step.
BestRun == [totals |-> {3, 5}, testFreq |-> 2, saveFreq |-> 0, saveBest |-> TRUE,
  maxKeep |-> 2, cleanUp |-> "all"]

\* The same, validated at every step, its last checkpoint kept for a later run.
KeepingRun == [totals |-> {3}, testFreq |-> 1, saveFreq |-> 0, saveBest |-> TRUE,
  maxKeep |-> 2, cleanUp |-> "keep_state"]

\* Periodic checkpoints only, all that are left of them kept.
PeriodicRun == [totals |-> {3, 5}, testFreq |-> 0, saveFreq |-> 2, saveBest |-> FALSE,
  maxKeep |-> 2, cleanUp |-> "none"]

RoomForTwo == {BestRun, KeepingRun, PeriodicRun}
=============================================================================
