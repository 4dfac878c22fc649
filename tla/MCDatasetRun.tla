---------------------------- MODULE MCDatasetRun ----------------------------
(***************************************************************************)
(* Samples and options for checking the dataset file.                      *)
(***************************************************************************)
EXTENDS DatasetRun

\* Each of the verdicts and a cut of a right and of a wrong answer.
FourSamples == {
  [verdict |-> "abstained", finish |-> "stop"],
  [verdict |-> "incorrect", finish |-> "stop"],
  [verdict |-> "correct",   finish |-> "length"],
  [verdict |-> "incorrect", finish |-> "length"]}

AllOptions == Option
=============================================================================
