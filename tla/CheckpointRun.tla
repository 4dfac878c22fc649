--------------------------- MODULE CheckpointRun ---------------------------
(***************************************************************************)
(* One RL run directory over all its launches: the trainer that validates, *)
(* saves and prunes checkpoints, the launcher that guards the directory    *)
(* before training and turns checkpoints into models after it, and the     *)
(* crashes that separate any two of their writes and removals.             *)
(*                                                                         *)
(* The process keeps what it knows in memory (proc) and loses it when it   *)
(* crashes; everything else here is on disk, but for the ghosts val and    *)
(* ruined.                                                                 *)
(***************************************************************************)
EXTENDS Integers, Sequences, FiniteSets, FiniteSetsExt

CONSTANTS
  Configs,       \* options a run may be trained with, the same at each launch
  Scores,        \* validation scores
  Flags,         \* what launches are given: "", "--overwrite", "--continue-run", "--resume"
  MaxTotal,      \* the most steps a launch is told to train
  MaxLaunches,   \* bound: launches of the run
  MaxCrashes     \* bound: crashes of a launch

Config == [
  totals   : SUBSET (Nat \ {0}),  \* --total-steps, which launches may change
  testFreq : Nat,                 \* --test-freq, 0 for no validation
  saveFreq : Nat,                 \* --save-freq, 0 for no periodic save
  saveBest : BOOLEAN,             \* --save-best
  maxKeep  : Nat \ {0},           \* --max-ckpt-to-keep
  cleanUp  : {"all", "keep_state", "none"}]   \* what is left of the checkpoints

ASSUME RunAssumption ==
  /\ Configs \subseteq Config
  /\ \A c \in Configs : c.saveBest => c.testFreq > 0 /\ c.maxKeep >= 2
  /\ MaxTotal \in Nat /\ \A c \in Configs : c.totals \subseteq 1..MaxTotal
  /\ Scores \subseteq Nat
  /\ Flags \subseteq {"", "--overwrite", "--continue-run", "--resume"}
  /\ MaxLaunches \in Nat /\ MaxCrashes \in Nat

VARIABLES
  conf,       \* the run's options
  actor,      \* step -> what is on disk at global_step_<step>/actor
  tracker,    \* latest_checkpointed_iteration.txt: a step, Missing or Torn
  record,     \* best_checkpoint.json: step and score, or NoRecord, TornRecord
  models,     \* run_dir/model, run_dir/best and run_dir/last
  rollouts,   \* whether rollouts/ holds anything
  proc,       \* the process: its place in the code and its memory
  val,        \* ghost: the validation scores of the launch that is training
  ruined,     \* ghost: a removal of the checkpoints was begun and is unfinished
  launches, crashes

disk == <<actor, tracker, record, models, rollouts>>
rest == <<conf, ruined, launches, crashes>>
vars == <<disk, proc, val, rest>>

-----------------------------------------------------------------------------
\* A launch that finds its own last step to resume from trains one step more.
Steps == 1..(MaxTotal + MaxLaunches)

\* No directory; a directory whose actor was pruned; files half written or half
\* removed; a whole checkpoint.
ActorState == {"none", "pruned", "partial", "saved"}
OnDisk(k) == actor[k] # "none"

Missing == 0
Torn    == -1
NoRecord   == [step |-> Missing, score |-> -1]
TornRecord == [step |-> Torn, score |-> -1]
Unscored   == -1
NoScores   == [k \in Steps |-> Unscored]

\* A path under the run directory: absent, an empty directory, a conversion or a
\* removal cut short, the model of a step, or a symlink to another path.
Name == {"model", "best", "last"}
Absent   == [kind |-> "absent"]
Empty    == [kind |-> "empty"]
Half     == [kind |-> "half"]
Model(k) == [kind |-> "model", step |-> k]
Link(n)  == [kind |-> "link", to |-> n]

\* Path.resolve() of a path under the run directory.
Hop(ms, n) == IF ms[n].kind = "link" THEN ms[n].to ELSE n
Resolve(ms, n) == Hop(ms, Hop(ms, Hop(ms, n)))
Loops(ms, n) == ms[Resolve(ms, n)].kind = "link"

Idle == [pc |-> "idle"]

Init ==
  /\ conf \in Configs
  /\ actor = [k \in Steps |-> "none"]
  /\ tracker = Missing /\ record = NoRecord
  /\ models = [n \in Name |-> Absent]
  /\ rollouts = FALSE
  /\ proc = Idle
  /\ val = NoScores
  /\ ruined = FALSE
  /\ launches = 0 /\ crashes = 0

At(place) == proc.pc = place
Goto(place) == proc' = [proc EXCEPT !.pc = place]

-----------------------------------------------------------------------------
(***************************************************************************)
(* Launching.  _guard_existing_run decides; then output_path is resolved,  *)
(* which follows a model/ left by an earlier launch, and created.          *)
(***************************************************************************)
HoldsCheckpoints == \E k \in Steps : OnDisk(k)
HoldsModels == \E n \in Name : models[n].kind \notin {"absent", "empty"}
HoldsResults == HoldsCheckpoints \/ HoldsModels \/ rollouts

\* The checkpoint directory holds nothing.
Bare == ~HoldsCheckpoints /\ tracker = Missing /\ record = NoRecord

\* A process begins; going is what it is removing.
Start(place, total, resume, out) ==
  /\ launches < MaxLaunches
  /\ proc' = [pc |-> place, resume |-> resume, total |-> total, out |-> out,
              step |-> 0, best |-> NoRecord, saved |-> <<>>, lastSaved |-> 0,
              then |-> "periodic", converted |-> {}, going |-> {}]
  /\ launches' = launches + 1
  /\ UNCHANGED <<conf, actor, tracker, record, rollouts, val, ruined, crashes>>

MakeDir(n) == models' = IF models[n] = Absent THEN [models EXCEPT ![n] = Empty] ELSE models

LetIn(total, resume) ==
  LET out == Resolve(models, "model")
  IN  ~Loops(models, "model") /\ Start("load", total, resume, out) /\ MakeDir(out)

\* Whatever the flag, a run directory without results is simply used.
LaunchFresh(total) ==
  /\ At("idle") /\ ~HoldsResults /\ Flags \cap {"", "--overwrite"} # {}
  /\ LetIn(total, FALSE)

LaunchContinue(total) ==
  /\ At("idle") /\ HoldsCheckpoints /\ "--continue-run" \in Flags
  /\ LetIn(total, TRUE)

\* --resume names the checkpoints: nothing is guarded, output_path is not
\* resolved, and a model/ that leads nowhere cannot be created over.
LaunchResume(total) ==
  /\ At("idle") /\ "--resume" \in Flags
  /\ models["model"].kind = "link" =>
       models[Resolve(models, "model")].kind \notin {"absent", "link"}
  /\ Start("load", total, TRUE, "model") /\ MakeDir("model")

LaunchOverwrite(total) ==
  /\ At("idle") /\ HoldsResults /\ "--overwrite" \in Flags
  /\ Start("discard", total, FALSE, "model")
  /\ UNCHANGED models

-----------------------------------------------------------------------------
(***************************************************************************)
(* Removing.  rmtree takes the entries of a directory one by one, in any   *)
(* order, and a crash leaves the rest.                                     *)
(***************************************************************************)
\* One step of the removal of global_step_<k>.
Rot(k) ==
  \E left \in CASE actor[k] = "saved" -> {"partial"}
              [] actor[k] = "partial" -> {"pruned", "none"}
              [] actor[k] = "pruned" -> {"none"} :
    /\ actor' = [actor EXCEPT ![k] = left]
    /\ proc' = [proc EXCEPT !.going = IF left = "none" THEN {} ELSE {k}]

\* All checkpoints, before an --overwrite trains or after a run.
RemoveEntry ==
  /\ proc.pc \in {"discard", "remove all"}
  /\ \/ /\ proc.going = {} /\ tracker # Missing
        /\ tracker' = Missing /\ UNCHANGED <<actor, record, proc>>
     \/ /\ proc.going = {} /\ record # NoRecord
        /\ record' = NoRecord /\ UNCHANGED <<actor, tracker, proc>>
     \/ /\ \E k \in Steps : OnDisk(k) /\ proc.going \subseteq {k} /\ Rot(k)
        /\ UNCHANGED <<tracker, record>>
  /\ ruined' = ~Bare'
  /\ UNCHANGED <<conf, models, rollouts, val, launches, crashes>>

EndRemoval ==
  /\ Bare
  /\ \/ At("discard") /\ Goto("wipe")
     \/ At("remove all") /\ proc' = Idle
  /\ UNCHANGED <<disk, val, rest>>

\* What a step of its removal leaves of a path.
Shrunk(entry) == IF entry.kind = "model" THEN Half ELSE Absent

\* --overwrite goes on to rollouts/, model/, best/ and last/, and trains.
Wiped == <<"model", "best", "last">>

Wipe ==
  /\ At("wipe")
  /\ \/ /\ rollouts /\ rollouts' = FALSE
        /\ UNCHANGED <<models, proc>>
     \/ /\ ~rollouts
        /\ \E i \in 1..3 :
             /\ models[Wiped[i]] # Absent
             /\ \A j \in 1..(i - 1) : models[Wiped[j]] = Absent
             /\ models' = [models EXCEPT ![Wiped[i]] = Shrunk(@)]
        /\ UNCHANGED <<rollouts, proc>>
     \/ /\ ~rollouts /\ \A n \in Name : models[n] = Absent
        /\ MakeDir("model") /\ Goto("load")
        /\ UNCHANGED rollouts
  /\ UNCHANGED <<actor, tracker, record, val, rest>>

-----------------------------------------------------------------------------
(***************************************************************************)
(* Training.  A process that fails is as gone as one that crashes.         *)
(***************************************************************************)
Fail == proc' = Idle /\ val' = NoScores

\* Mutant: training begins at the step that was loaded.
LoadedAgain(step) ==
  /\ proc' = [proc EXCEPT !.pc = "train", !.step = Max({1, step}),
                          !.best = IF record = TornRecord THEN NoRecord ELSE record]
  /\ UNCHANGED val

\* The record is read when the first validation needs it; nobody writes it
\* before that.
Loaded(step) ==
  /\ proc' = [proc EXCEPT !.pc = "train", !.step = step + 1,
                          !.best = IF record = TornRecord THEN NoRecord ELSE record]
  /\ UNCHANGED val

\* _load_checkpoint: a tracker that cannot be read, or names a checkpoint
\* whose files are gone, is an error; one that names no directory is not, nor is
\* one whose directory lacks data.pt alone.
Load ==
  /\ At("load")
  /\ CASE ~proc.resume \/ tracker = Missing -> Loaded(0)
       [] proc.resume /\ tracker = Torn -> Fail
       [] proc.resume /\ tracker \in Steps ->
            \/ ~OnDisk(tracker) /\ Loaded(0)
            \/ actor[tracker] \in {"saved", "partial"} /\ Loaded(tracker)
            \/ actor[tracker] \in {"pruned", "partial"} /\ Fail
  /\ UNCHANGED <<disk, rest>>

LastStep == proc.step >= proc.total
Due(freq) == freq > 0 /\ (LastStep \/ proc.step % freq = 0)

\* Rollouts, the update, and the dump of the rollouts.
TrainStep ==
  /\ At("train")
  /\ rollouts' = TRUE
  /\ Goto("validate")
  /\ UNCHANGED <<actor, tracker, record, models, val, rest>>

\* Mutant: every validation saves a checkpoint, and only the best are recorded.
ValidateSavesAll ==
  /\ At("validate")
  /\ IF Due(conf.testFreq)
     THEN \E s \in Scores \cup {Unscored} :
            /\ val' = [val EXCEPT ![proc.step] = s]
            /\ IF conf.saveBest /\ s > proc.best.score
               THEN proc' = [proc EXCEPT !.best = [step |-> proc.step, score |-> s],
                                         !.pc = "prune", !.then = "record"]
               ELSE proc' = [proc EXCEPT !.pc = "prune", !.then = "periodic"]
     ELSE Goto("periodic") /\ UNCHANGED val
  /\ UNCHANGED <<disk, rest>>

\* _maybe_save_best_checkpoint, up to the save; a validation may produce no
\* usable metric.
Validate ==
  /\ At("validate")
  /\ IF Due(conf.testFreq)
     THEN \E s \in Scores \cup {Unscored} :
            /\ val' = [val EXCEPT ![proc.step] = s]
            /\ IF conf.saveBest /\ s > proc.best.score
               THEN proc' = [proc EXCEPT !.best = [step |-> proc.step, score |-> s],
                                         !.pc = "prune", !.then = "record"]
               ELSE Goto("periodic")
     ELSE Goto("periodic") /\ UNCHANGED val
  /\ UNCHANGED <<disk, rest>>

-----------------------------------------------------------------------------
(***************************************************************************)
(* _save_checkpoint: the checkpoint manager prunes what it remembers to    *)
(* have saved, then writes; the tracker follows.  A file opened for        *)
(* writing is torn until it is written.                                    *)
(***************************************************************************)
\* Mutant: room is made for two.
SurplusTwo == IF Len(proc.saved) >= conf.maxKeep THEN Len(proc.saved) - conf.maxKeep + 2 ELSE 0

Surplus == IF Len(proc.saved) >= conf.maxKeep THEN Len(proc.saved) - conf.maxKeep + 1 ELSE 0

Gone == {proc.saved[i] : i \in 1..Surplus}
Become(S, state) == [k \in Steps |-> IF k \in S THEN state ELSE actor[k]]

\* Mutant: the manager does not forget what it pruned.
PruneRemembers ==
  /\ At("prune")
  /\ actor' = Become(Gone, "partial")
  /\ proc' = [proc EXCEPT !.pc = "pruning", !.going = Gone]
  /\ UNCHANGED <<tracker, record, models, rollouts, val, rest>>

Prune ==
  /\ At("prune")
  /\ actor' = Become(Gone, "partial")
  /\ proc' = [proc EXCEPT !.pc = "pruning", !.going = Gone,
                          !.saved = SubSeq(@, Surplus + 1, Len(@))]
  /\ UNCHANGED <<tracker, record, models, rollouts, val, rest>>

EndPrune ==
  /\ At("pruning")
  /\ actor' = Become(proc.going, "pruned")
  /\ proc' = [proc EXCEPT !.pc = "save", !.going = {}]
  /\ UNCHANGED <<tracker, record, models, rollouts, val, rest>>

BeginSave ==
  /\ At("save")
  /\ actor' = [actor EXCEPT ![proc.step] = "partial"]
  /\ Goto("saving")
  /\ UNCHANGED <<tracker, record, models, rollouts, val, rest>>

EndSave ==
  /\ At("saving")
  /\ actor' = [actor EXCEPT ![proc.step] = "saved"]
  /\ proc' = [proc EXCEPT !.pc = "track", !.saved = Append(@, proc.step)]
  /\ UNCHANGED <<tracker, record, models, rollouts, val, rest>>

OpenTracker ==
  /\ At("track")
  /\ tracker' = Torn
  /\ Goto("tracking")
  /\ UNCHANGED <<actor, record, models, rollouts, val, rest>>

WriteTracker ==
  /\ At("tracking")
  /\ tracker' = proc.step
  /\ proc' = [proc EXCEPT !.pc = proc.then, !.lastSaved = proc.step]
  /\ UNCHANGED <<actor, record, models, rollouts, val, rest>>

OpenRecord ==
  /\ At("record")
  /\ record' = TornRecord
  /\ Goto("recording")
  /\ UNCHANGED <<actor, tracker, models, rollouts, val, rest>>

WriteRecord ==
  /\ At("recording")
  /\ record' = proc.best
  /\ Goto("periodic")
  /\ UNCHANGED <<actor, tracker, models, rollouts, val, rest>>

SaveThen(place) == proc' = [proc EXCEPT !.pc = "prune", !.then = place]

SavePeriodic ==
  /\ At("periodic")
  /\ IF Due(conf.saveFreq) THEN SaveThen("last") ELSE Goto("last")
  /\ UNCHANGED <<disk, val, rest>>

\* save_last: the final checkpoint, unless this step was saved already.
SaveLast ==
  /\ At("last")
  /\ IF LastStep /\ proc.lastSaved # proc.step THEN SaveThen("next") ELSE Goto("next")
  /\ UNCHANGED <<disk, val, rest>>

NextStep ==
  /\ At("next")
  /\ proc' = IF LastStep THEN [proc EXCEPT !.pc = "convert best"]
                         ELSE [proc EXCEPT !.pc = "train", !.step = @ + 1]
  /\ UNCHANGED <<disk, val, rest>>

-----------------------------------------------------------------------------
(***************************************************************************)
(* After training: best/ and last/ are converted, model/ is pointed at the *)
(* better one, and the checkpoints are cleaned up.                         *)
(***************************************************************************)
BestOnDisk == record.step \in Steps /\ OnDisk(record.step)
LastOnDisk == Max({k \in Steps : OnDisk(k)})

\* _clear(dest), and the merger starts on the checkpoint's actor directory; a
\* checkpoint without one is skipped.  A crash finds the path cleared or not yet
\* whole.
BeginConvert(label, step, merging, next) ==
  IF actor[step] = "pruned"
  THEN Goto(next) /\ UNCHANGED <<models, val>>
  ELSE /\ Goto(merging) /\ UNCHANGED val
       /\ \E entry \in {Absent, Half} : models' = [models EXCEPT ![label] = entry]

\* The merger may fail on a checkpoint whose files are not all there.
EndConvert(label, step, next) ==
  \/ /\ models' = [models EXCEPT ![label] = Model(step)]
     /\ proc' = [proc EXCEPT !.pc = next, !.converted = @ \cup {label}]
     /\ UNCHANGED val
  \/ actor[step] # "saved" /\ Fail /\ UNCHANGED models

ConvertBest ==
  /\ \/ /\ At("convert best") /\ BestOnDisk
        /\ BeginConvert("best", record.step, "converting best", "convert last")
     \/ At("convert best") /\ ~BestOnDisk /\ Goto("convert last") /\ UNCHANGED <<models, val>>
     \/ At("converting best") /\ EndConvert("best", record.step, "convert last")
  /\ UNCHANGED <<actor, tracker, record, rollouts, rest>>

\* Copied from best/ when the final step also won, which comes to the same.
ConvertLast ==
  /\ \/ /\ At("convert last")
        /\ BeginConvert("last", LastOnDisk, "converting last", "clear")
     \/ At("converting last") /\ EndConvert("last", LastOnDisk, "clear")
  /\ UNCHANGED <<actor, tracker, record, rollouts, rest>>

\* Mutant: the last checkpoint is preferred.
PrimaryLast == IF "last" \in proc.converted THEN "last" ELSE "best"

Primary == IF "best" \in proc.converted THEN "best" ELSE "last"

ClearOutput ==
  /\ At("clear")
  /\ \/ proc.converted = {} /\ Goto("clean up") /\ UNCHANGED models
     \/ /\ proc.converted # {}
        /\ models' = [models EXCEPT ![proc.out] = Shrunk(@)]
        /\ Goto(IF Shrunk(models[proc.out]) = Absent THEN "link" ELSE "clear")
  /\ UNCHANGED <<actor, tracker, record, rollouts, val, rest>>

LinkOutput ==
  /\ At("link")
  /\ models' = [models EXCEPT ![proc.out] = Link(Primary)]
  /\ Goto("clean up")
  /\ UNCHANGED <<actor, tracker, record, rollouts, val, rest>>

CleanUpCheckpoints ==
  /\ At("clean up")
  /\ \/ conf.cleanUp = "all" /\ Goto("remove all")
     \/ conf.cleanUp = "keep_state" /\ Goto("remove old")
     \/ conf.cleanUp = "none" /\ proc' = Idle
  /\ val' = NoScores
  /\ UNCHANGED <<disk, rest>>

\* keep_state: all but the last, the oldest first.
RemoveOld ==
  /\ At("remove old")
  /\ \/ /\ \E k \in Steps : /\ OnDisk(k) /\ k # LastOnDisk
                           /\ \A j \in Steps : OnDisk(j) => j >= k
                           /\ Rot(k)
     \/ /\ \A k \in Steps : OnDisk(k) => k = LastOnDisk
        /\ proc' = Idle /\ UNCHANGED actor
  /\ UNCHANGED <<tracker, record, models, rollouts, val, rest>>

Crash ==
  /\ ~At("idle") /\ crashes < MaxCrashes
  /\ Fail
  /\ crashes' = crashes + 1
  /\ UNCHANGED <<disk, conf, ruined, launches>>

Launch == \E t \in conf.totals :
            LaunchFresh(t) \/ LaunchOverwrite(t) \/ LaunchContinue(t) \/ LaunchResume(t)
Remove == RemoveEntry \/ EndRemoval \/ Wipe \/ RemoveOld
Train == Load \/ TrainStep \/ Validate \/ SavePeriodic \/ SaveLast \/ NextStep
Save == Prune \/ EndPrune \/ BeginSave \/ EndSave \/ OpenTracker \/ WriteTracker
        \/ OpenRecord \/ WriteRecord
Finish == ConvertBest \/ ConvertLast \/ ClearOutput \/ LinkOutput \/ CleanUpCheckpoints

Next == Launch \/ Remove \/ Train \/ Save \/ Finish \/ Crash

Spec == Init /\ [][Next]_vars

-----------------------------------------------------------------------------
Removing == {"discard", "wipe", "remove all", "remove old"}
Training == proc.pc \notin {"idle", "load"} \cup Removing
Entry == {Absent, Empty, Half} \cup {Model(k) : k \in Steps} \cup {Link(n) : n \in {"best", "last"}}

\* Types, and what the manager remembers: at most conf.maxKeep checkpoints, each
\* of them whole.
TypeOK ==
  /\ conf \in Config
  /\ actor \in [Steps -> ActorState]
  /\ tracker \in Steps \cup {Missing, Torn}
  /\ record.step \in Steps \cup {Missing, Torn}
  /\ models \in [Name -> Entry]
  /\ Training =>
       /\ proc.step \in Steps
       /\ Len(proc.saved) <= conf.maxKeep
       /\ \A i \in DOMAIN proc.saved : actor[proc.saved[i]] = "saved"

\* "Resume ... from its latest checkpoint" (pipeline/__main__.py:559): whatever
\* step the tracker names, at every moment of every save, conversion and clean-up,
\* its files are whole.  A removal of all checkpoints that a crash cuts short takes
\* this away: it may leave the tracker naming files that are half gone.
TrackedIsLoadable == ~ruined /\ tracker \in Steps => actor[tracker] = "saved"

\* Where the best checkpoint is the only one saved but the last, the one that
\* best_checkpoint.json names outlives all pruning, until the checkpoints are
\* removed, as a whole or by keep_state, which leaves the record without it.
BestIsKept ==
  conf.saveFreq = 0 /\ conf.cleanUp # "keep_state" /\ ~ruined /\ record.step \in Steps =>
    actor[record.step] = "saved"

\* A run that goes on after crashes never trains a step again whose checkpoint
\* the tracker names: it starts past that step and stays past it.
ResumesWhereItStopped ==
  At("train") /\ ~ruined /\ tracker \in Steps => proc.step > tracker

\* What a finished launch that resumed nothing leaves: last/ holds its last step,
\* best/ the recorded one, which is "the checkpoint with the highest validation
\* score" (pipeline/__main__.py:560) if there was a score, and model/ the one "the
\* run should be judged on" (training.py:961-962).  A resumed launch may have
\* forgotten the best score: the record is written after the checkpoint it names,
\* and a crash may fall between the two.
FinishedRun ==
  At("clean up") /\ ~proc.resume /\ conf.saveFreq = 0 =>
    LET judged == conf.saveBest /\ \E k \in Steps : val[k] # Unscored
    IN  /\ models["last"] = Model(proc.step)
        /\ judged => /\ models["best"] = Model(record.step)
                     /\ record.score = Max({val[k] : k \in Steps})
        /\ models[Resolve(models, "model")] = models[IF judged THEN "best" ELSE "last"]

-----------------------------------------------------------------------------
(***************************************************************************)
(* What comments and help texts say, checked by runs that refute it.       *)
(***************************************************************************)
\* training.py:961-962: model/ is "what method.rl_model_path resolves to, so
\* point it at the checkpoint the run should be judged on".
ModelResolves ==
  At("clean up") => models[Resolve(models, "model")].kind = "model"
=============================================================================
