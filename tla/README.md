# abstention-reasoning: specifications, model checking and proofs

This directory holds TLA+ models of the parts of this repository whose order of
events matters: the hint rollout that generates training data for RL, the tag
walks that decide what a response is worth, the tensors it is trained on, the
generator loops that evaluation and SFT data use in its place, the run directory
an RL run lives in over its launches, and the two programs that sample datasets
into a file which later launches take up. TLC checks the models on small
instances, TLAPS proves the central theorems for every value of the constants.

`PROJECT.json` maps each definition to the source lines it stands for, and lists
the runs, a mutant for each property, the hazards and the theorems.

## 1. The system

The program trains models to reason, ask for hints and abstain. A command line
(`src/pipeline`) prepares data, samples datasets, runs SFT, and launches RL in a
fork of verl (`src/verl`) whose rollout worker plays several turns with the
policy: the policy may ask for a hint, is given one, and goes on.

| Component | Source | State it keeps | Operations | Modelled by |
|---|---|---|---|---|
| Turn rules | `verl/workers/rollout/hint_loop.py`: `RolloutState`, `HintLoop` | one record per rollout: text, lengths, turns, hints given, four outcome flags | `can_generate`, `ingest`, `_inject_hint`, `_append_environment_turn`, `finalize_unfinished`, `force_answers` | `TurnRules`, `HintRollout` |
| Round driver | `run_rounds`, and the blocking engine call in `vllm_rollout_spmd.py` | the round, the batch | a batch, a barrier, the replies | `RoundsDriver` |
| Continuous driver | `run_continuous`, and `submit`, `step`, `busy` in `vllm_rollout_spmd.py` | pending requests, the next id, what the engine holds | submit, step, take a result, resubmit, leave | `ContinuousDriver` |
| Scaffolds and validators | `answer_scaffold` (`hint_loop.py`), `_answer_scaffold` (`pipeline/core/generator.py`), `has_malformed_structure` (`verl/recipe/countdown/reward_function.py`), its nested twin (`verl/recipe/shared/nested_grammar.py`) | none | one walk each over the tags of a response | `TagGrammar`, `TagWalk` |
| Rollout worker's tensors | `process_agentic_outputs`, `agentic_generate_sequences` (`vllm_rollout_spmd.py`), `get_response_mask` (`torch_functional.py`), `verify` (`reward_manager/batch.py`) | partials and masks of each rollout, the batch | cut, pad, mask, decode | `ResponseTensor` |
| Run directory | `pipeline/commands/training.py`, `ray_trainer.py`, `fsdp_checkpoint_manager.py`, `checkpoint_manager.py` | checkpoints, tracker, best record, `model/`, `best/`, `last/`, `rollouts/`; in memory the step, the best score, the paths to prune | guard, resume, step, validate, save, prune, convert, link, clean up | `CheckpointRun` |
| Dataset sampling | `generate` in `pipeline/commands/inference.py`, `pipeline/core/io.py` | one JSON file of records; in memory the records, the attempt, what is left to do | resume, sample a batch, rewrite, retry | `DatasetRun` |
| Prefix-hint writer | `pipeline/tasks/competition_math/rewrite_solutions_prefix_hints.py` | one JSON file of entries; in memory the results, how many are unsaved, the coroutines | resume, call, record, save, retry in rounds, give up | `HintWriter` |
| Evaluation and SFT generators | `pipeline/core/generator.py` | per prompt: text, tokens, turns, hints given, finish reason | a turn, a hint served, a hint forced, closing a block, forced answers | `EvalRollout`; `TagWalk` for the scaffold of forced answers; single-turn generation is not modelled |
| Reward functions | `verl/recipe/*/reward_function.py` | none | score a response | structure (`TagWalk`) and hint count (`HintRollout`); scores are not modelled |
| Adaptive reward manager | `verl/workers/reward_manager/adaptive.py` | a moving average | update, clamp | not modelled (serves one deprecated method) |
| Evaluation of datasets | `evaluate` in `inference.py` | none | count and print | not modelled |
| Task definitions, data preparation | `pipeline/tasks`, `pipeline/commands` | none | parse, split, format | not modelled |
| Command line, SFT command | `pipeline/__main__.py`, `pipeline/commands` | none | parse flags, start a process | not modelled |
| verl itself | the rest of `src/verl` | | tensors, Ray workers, other backends | not modelled (vendored) |

How they meet. The worker's `agentic_loop` makes a `RolloutState` per sample and
hands them all to one of the two drivers. A driver calls the turn rules for each
generation; the rules append the hint and say whether the rollout goes on. When
the driver returns, `force_answers` repairs truncated rollouts with
`answer_scaffold` and one more batch. The worker cuts and pads the tapes into
tensors; the reward manager decodes what the attention mask leaves of a row, and
its functions read the tags back with `has_malformed_structure` and
`get_num_hints`: they and the loop communicate through the tags alone. The
trainer validates, saves and prunes by step number; the launcher, another
process, finds out what happened from the files, and turns checkpoints into
`best/`, `last/` and `model/`. `generate` and the hint writer run alone, and meet
only their own earlier launches, through their output file.

What is hard here:

* two rollout schedules, one with a barrier and one without, that should mean
  the same; results in any order; an engine that may lose a request;
* two token limits spent at different rates (injected text is charged to the
  window and not to the budget) and tested at different places;
* three hand-written walks over the tags that have to agree;
* outcome flags set in three places, read by the reward;
* two masks over one row: what is trained on comes from the loop's bookkeeping,
  what is attended to and graded from the first end-of-sequence token, which may
  stand in the middle of a tape;
* evaluation repeats the loop by hand, and SFT sampling rewrites text that is
  already committed when it forces a hint;
* a run directory written by two processes over several launches, each file
  written in place and directories removed entry by entry, with a crash possible
  between any two of these steps; what may be pruned is remembered only in memory;
* a dataset file rewritten in place after every batch, read again by attempts of
  the same launch and by later launches that retry some of it, on four code
  paths that resume differently; seeds that have to differ between attempts;
* coroutines that share a results list and a counter of unsaved results, hold a
  semaphore over several attempts, and finish in any order.

What makes each component correct is what section 3 asks of it.

## 2. The modules

| Module | What it is |
|---|---|
| `TagGrammar` | The grammar of responses, as sets and quantifiers: `WellFormed`, `Rescuable`, `AnswerScaffold`. |
| `TagWalk` | The walks as the code writes them, an index moving over the tags, and what is claimed of each response. |
| `MCTagWalk` | A response growing by a tag at a time; both grammars (`Outside`, `Inline`) through INSTANCE. |
| `TurnRules` | The turn rules, one operator per method, from rollout record to rollout record. |
| `HintRollout` | The abstract batch: what a set of rollouts promises, whoever schedules it. |
| `RoundsDriver`, `ContinuousDriver` | The two schedules, each shown to implement `HintRollout`. |
| `ResponseTensor` | `HintRollout`'s batch with the text and the mask of each tape, and the tensors made of them. |
| `EvalRollout` | The generator's multi-turn loops for one prompt, beside the record training would keep of the same generations. |
| `CheckpointRun` | The run directory over all its launches. |
| `DatasetRun` | The output file of `generate` over all its launches. |
| `HintWriter` | The prefix-hint writer over all its launches. |
| `MC...` | Constants for TLC. |
| `TurnRulesProofs` (with the grammar's and the walks' lemmas), `HintRolloutProofs` (with the tensors' and `MCTagWalk`'s), `GeneratorProofs`, `RoundsDriverProofs`, `ContinuousDriverProofs`, `CheckpointRunProofs`, `DatasetRunProofs`, `HintWriterProofs` | Theorems. |

`TurnRules` extends `TagGrammar`; the batch, both drivers and `EvalRollout` extend
`TurnRules`. Each driver instantiates `HintRollout` with a refinement mapping;
`ResponseTensor` extends it and conjoins to its actions what they do to the tapes.

### State and code

*A rollout* keeps its length and its structural tags instead of its text; the
rules look at nothing else. `total` is `total_len()`, `resp` is `response_len`,
`given` is `last_given + 1`. Text between tags is dropped, but for one case: an
opening request tag that is not closed at once is rejected by scaffold and
validator before they parse anything, so it is a tag of its own (`Loose`). A
closing tag without its opening one is what it is in the code: a shorter
sequence. A generation ends at its first stop string, which `RulesAssumption`
states; a forced answer ends at `</answer>` alone, and may hold any tags before it
(`AnswersAssumption`). Lengths in the runs are in units of 32 tokens: `MIN_GENERATION_BUFFER`
is 2 units.

*Engine.* External. A turn's generation is any of `Texts` with any length up to
the budget asked for and the window (`Fits`); a forced answer is any of `AnswerTexts`,
closed by the policy or not.
In the continuous driver the engine finishes any nonempty subset of its requests
per step, in any order, and may drop one (`Lossy`). A generation is chosen when
its result is taken, from what the *request* said (`Serves`), not from the
rollout; `InFlightFresh` says the two agree.

*Driver.* `phase` is the driver's place in the code. `SubmitAll`, `TakeResult`,
`Resubmit`, `LeaveLoop` follow the body of `run_continuous`; marking a rollout
that `can_generate` refuses is a part of the step that asks. The engine's step
is the only point where control leaves the driver, so a step is one pass of
straight-line code between two such points or two rollouts.

*Tensors.* A token is kept as where it comes from: the prompt, the policy
(`sampled`, or the end-of-sequence token that stopped it), the environment, or
padding. `tape` has the partials and masks that `append` writes. A turn that ran
into no stop string may have ended on an end-of-sequence token (`TurnMayStop`),
as may a forced answer (`AnswerMayStop`). `Cut`, `Padded`, `ResponseMask` and
`Graded` are the worker's slice, `pad_2d_list_to_length`, `get_response_mask` and
the reward manager's decoding with `skip_special_tokens`. `PadIsEos` says whether
the padding token is among the end-of-sequence tokens, `Width` is
`config.response_length`.

*Generator loops.* `e` is one entry of the `state` dictionary of the synchronous
loops, and the locals of `process_single_prompt` in the asynchronous ones; an
action is one pass of the `while True`. `given` is `last_given_index + 1`, and
`tokens` is `model_token_count` in the spliced loop. The text loops recount
`accumulated_text` without its `<response>` blocks on every pass, and so charge
the model for the tags the loop itself wrote (`MarkupLen`); an end-of-sequence
alone is no text to them. The two spliced loops differ in scheduling only and are
one action; the two text loops cut differently and are two. A prompt depends on
its batch-mates in one place: in the synchronous text loop the group shares its
smallest remaining budget, so there a turn may be cut at any length. What trimming
to a sentence boundary leaves of a text is any prefix of its tags
(`ClosedForRequest`). `train` is a ghost: `Ingest` of `TurnRules` applied to the
same generations.

*Run directory.* `actor[k]` is what is on disk at `global_step_k/actor`:
nothing, a directory whose actor was pruned, files half written or half removed, or
a whole checkpoint. `tracker` and `record` are the two small files, each torn between
open and write. `models` gives for each name nothing, an empty directory, half a
conversion or removal, the model of a step, or a symlink. `proc` is the process: its
place in the code (`pc`) and its memory. A crash sets `proc` to idle and leaves the
rest. A launch is let in by the guard (`LaunchFresh`, `LaunchContinue`,
`LaunchOverwrite`) or names the checkpoints itself (`LaunchResume`, `--resume`), in which
case the guard is not asked and `output_path` is not resolved. Each write of a save is
its own action (`Prune`, `EndPrune`, `BeginSave`, `EndSave`, `OpenTracker`, `WriteTracker`,
`OpenRecord`, `WriteRecord`), likewise after training (`ConvertBest`, `ConvertLast`,
`ClearOutput`, `LinkOutput`, `CleanUpCheckpoints`).

An `rmtree` takes the entries of a directory one at a time and in any order: a whole
checkpoint is half removed, then pruned or gone, and one that is begun is finished
before the next entry (`going`). `RemoveEntry` does this to all checkpoints, with the
tracker and the record, for `--overwrite` (`discard`) and for the clean-up (`remove
all`); `Wipe` goes on to `rollouts/`, `model/`, `best/` and `last/`, in this order;
`RemoveOld` is the clean-up of `keep_state`, the oldest checkpoint first. A prune
within a save takes two steps, and so do clearing a path and the merger that
fills it. A validation gives one of `Scores` or no usable metric (`Unscored`).

Two variables are ghosts. `val` has the validation scores of the launch that is
training. `ruined` says that a removal of all checkpoints was begun and is not
finished: from its first entry until nothing is left, whichever launch finishes it.

*Dataset file.* `file` is missing, torn (between the open that empties it and the
end of the write) or whole; `saved` is what the last whole file held. `proc` has
the place in `generate`, `records_by_index`, what is left of `remaining_prompts`,
and the attempt. A record is what a retry looks at: verdict and finish reason.
The asynchronous paths hand all prompts to one call, the synchronous ones a batch
at a time and save once more at the end; asynchronous single-turn generation
retries from memory within its event loop, the other paths read the file again
(`Retry`, `Read`). `Generate` is a call with the open of the save behind it:
nothing outside the process tells an earlier crash from one inside the call. The
ghosts `seed` and `launch` of a record say which draw it was. A call of a token-spliced
loop adds a prompt's place in the call to the seed; single-turn generation and the
text-based loops, which a call takes that forces a hint on any of its prompts, give all
prompts the attempt's seed (`OwnSeeds`).

*Hint writer.* `task[i]` is where problem `i`'s coroutine is. The semaphore is
`Cardinality(In("calling")) < BatchSize`; it is held over all attempts of a call.
`save_result` waits for nothing once it has its lock, and nothing inside the lock
waits, so no other coroutine runs between it and the `_save` it may call: a save is the places `save` and `saveFailed`, where
only `Save` and a crash are possible. What the model answers is one of
`Responses`; a rate limit waits without being counted and is a call not answered
yet.

## 3. The runs

| Run | Question | Bounds | Answer |
|---|---|---|---|
| `tag_walk` | Do walks and grammar agree, flat and nested? Does a scaffold land in what the validator accepts? Do the scaffolds of training and evaluation agree? | all responses of up to 15 tags, of which 3 beyond the last rescuable prefix | yes |
| `rollout_flat` | Budgets, hint order, flags, what the validator and the reward see | 1 rollout, 4 turns, 2 hints allowed, puzzles with 0, 1 and 3 hints, 9 texts, 8 forced answers, window 12 and budget 6 units, prompts 1, 5, 11 | yes |
| `rounds` | Does the barrier leave anyone behind? Does the driver implement the batch? Does it end? | 2 rollouts, 3 rounds, nested requests | yes |
| `continuous` | Stale or doubled requests? Anyone waiting for another? An idle engine at the end? Refinement, termination | 2 rollouts, 3 turns, any order, drops | yes |
| `tensor` | Is exactly what the policy sampled trained on? Is a row as wide as documented graded to its end? | 2 rollouts, 3 turns, window 14, budget 4, width as documented, prompts 1 and 14, drops, the padding token an end-of-sequence token | yes |
| `eval` | Does evaluation keep what training would? Is a sample with forced hints accepted? Does the loop end, and cut only the turn at hand? | 1 prompt, each loop, budget 5, window 12, prompts 1 and 6, puzzles with 0, 1 and 3 hints, 0 to 2 forced | yes |
| `run` | Can what is tracked be loaded, and is no tracked step trained again? Is the best kept? What does a finished run leave? | 3 launches, 2 crashes, totals of 3 and 5 steps, 2 scores or none, three configurations, all flags | yes, while no removal of the checkpoints is left unfinished |
| `dataset` | Is a record of a whole file ever lost, or replaced without being asked? Does a retry draw anew? What does a launch that returns leave? Does it end? | 3 prompts, batches of 2, 1 retry, 2 launches with any of the 24 combinations of options, 1 crash | yes |
| `hint_writer` | What does a kill cost, within a rewrite and outside one? Are hints kept from one whole file to the next? Has every problem had all its attempts? Does a launch end? | 4 problems, 2 calls at a time, a save every 2 results, 2 rounds of 2 attempts, inputs of 3 and 4, `--max-samples` 2 and 4, 2 launches, 1 crash | less than a save's worth, or the file; yes |
| `transcript` | Does the synchronous text loop leave earlier exchanges alone? | 2 hints, both forced | no |
| `model_link` | Does `model/` lead to a model after a continued run? | 2 launches, no crash | no |
| `forced_unread` | Is a forced answer graded to its end? | 1 rollout, a tensor with room to spare | no |

Why the bounds are enough:

* *Tags.* The walks' state is a position in a cycle of at most six tags and what
  comes after it. 15 tags hold two whole exchanges (or three inline ones) and an
  ending with room for one tag too many. Once no tape extending a response
  can be rescued, the walks only reject, so a few tags past that point
  (`MaxDead`) cover every way to fail.
* *Rollouts.* A rollout has no state shared with others but the engine, so one
  is enough for what concerns a rollout (and the proofs hold for any number).
  Two give the drivers every order of two results, a result beside a running
  request, and one rollout done while another goes on. Three rollouts with two
  turns were also checked (53 913 states).
* *Budgets.* 12 and 6 units leave room for every cause to stop a rollout first:
  budget, window after a generation, window after a reply, buffer, turn cap,
  hint cap, end of the hints. The prompt of 11 units has no room from the start.
* *Tensors.* Rows meet in padding only, so two rollouts give every case: the row
  that sets the length and the row that is padded to it (the prompt of 14 units
  has no room, and its row is all padding). Turns follow one another, so they are
  taken one at a time. `PadIsEos = FALSE` was checked as well. `MCWidth` is the
  documented width for the most replies three turns can bring.
* *Generator.* Budget 5 lets a sample be served or forced two hints and still
  answer; a prompt of 6 makes the training record run into its window while
  evaluation goes on, which `AgreesWithTraining` then leaves out. The policy writes
  tidy turns (`MCEvalRollout`): on others evaluation stops where training calls the
  rollout malformed. `HintTransition` is FALSE: its outcomes include those of TRUE.
* *Launches.* Each of the questions about the run directory concerns a launch
  that leaves files and one that finds them; three launches and two crashes let
  a resumed run crash and be resumed again, and a launch that overwrites crash
  within its removal and find what the removal left (10.5 million states, about a
  minute). Two scores give a new best, an equal one and a worse one, beside a
  validation without a score. `MaxTotal` bounds
  the totals; `Steps` goes beyond it by a step for every launch, since one resumed
  at its last step trains one more.
* *Dataset.* With three prompts and batches of two there is a full batch and one
  that is not; a prompt done, one cut and one wrong at the same time, in any order;
  and places in a call that differ from one attempt to the next. `SeedStep` is 3
  where the code has 1000: the smallest that `RetriesDrawAnew` needs for three prompts.
* *Hint writer.* Four problems and two calls leave two waiting; a save every two
  results has one result unsaved while another call is on; a launch with a
  longer input, or a larger `--max-samples`, finds an entry that is not there.

No deadlock check: a batch that is done, a run directory or a file with no launch
left, and a response of the greatest length, really stop.

### Fairness

`RoundsDriver` assumes weak fairness of its one thread: the engine call blocks
and returns. `ContinuousDriver` assumes weak fairness of the driver and of
`EngineStep`: the driver is one thread that calls `step` in a loop, and an
engine that is stepped finishes requests it still holds, since each is bounded
by its token budget. Nothing is assumed of drops. Under these, `Terminates` holds; with
drops it needs the test of an idle engine that `run_continuous` makes.
`EvalRollout` assumes weak fairness of the prompt's loop: each pass waits for one
generation, which its token budget bounds. `DatasetRun` assumes weak fairness of
`Work`, a launch's steps taken together: a process that is not killed goes on,
and a call of the generator ends. `HintWriter` assumes the same of its `Work`; a
call is answered in the end and a rate limit is not for ever, since the code waits
for it without counting. Neither says which coroutine goes on: `LaunchesEnd` needs
no more, for every step of a launch brings it nearer its end. A crash ends a
launch too. `CheckpointRun`, `HintRollout` and `ResponseTensor` have no fairness:
nothing is claimed there that must happen.

## 4. Where the code and its words part

Shown by a run (see `findings` in `PROJECT.json` for lines and quotations):

* **Forcing a hint may delete an earlier one** (`transcript`). The synchronous text
  loop cuts a capped turn at the last sentence boundary of the whole accumulated
  text. If the turn has none, the cut lands in the exchange before it, which
  `num_hints` and `last_given_index` still count. The asynchronous loop, and
  `_close_think_for_request`, cut only the turn (`TurnsAreCutAlone`).
* **`model/` of a continued run leads nowhere** (`model_link`): `output_path` is
  resolved through the symlink an earlier launch left, so clearing it deletes
  the directory it leads to, `best/` or `last/`, and puts a symlink in its place.
* **A forced answer may be graded without its closing tag** (`forced_unread`). When
  the policy ends a forced answer with its end-of-sequence token, the loop appends
  `</answer>` behind it (`hint_loop.py:472-476`). `get_response_mask` stops at the
  first end-of-sequence token of the row (`torch_functional.py:241-242`), and the
  reward manager decodes only what is attended to (`batch.py:49-55`): the response
  is graded as malformed. `GradesTheWholeTape` is therefore stated of tapes that no
  answer was forced onto.

Met while modelling, with no run of their own.

The hint loop and its tensors:

* A rollout that asks on every turn is not forced. With `max_hints = max_turns - 1`,
  the worker's default, its last request is refused with a text that reopens no
  `<think>`, which the flat `answer_scaffold` cannot place. `finalize_unfinished`
  flags it for forcing, and it is not forced.
* `ppo_trainer.yaml:398-399` gives the width of the response tensor without the
  scaffold and the closing tag of a forced answer; the theorem `TapeIsBounded`
  counts them. The launcher sets no `think_budget`, so the width it passes is the
  policy's own budget, and hints push the end of a tape past it. A turn whose
  end-of-sequence token is the budget's last token, and that is then forced, has
  sampled answer tokens that are trained on and not attended to.
* `hint_loop.py:261-267` returns before it counts a request made by the generation
  that fills the budget, though `test_hint_loop.py:219-220` says "num_hints counts
  requests made, not hints delivered".
* `hint_loop.py:419` says a rollout still truncated after forcing "carries no
  complete answer". A generation that closes its answer with the last token of
  the response budget does carry one: it is flagged `truncated` before its text
  is read, is not rescuable, and ends with `answer_truncated`.
* `hint_loop.py:391-393` says of a dropped rollout that it is scored zero; one
  whose earlier turns left a rescuable tape is forced, and may score.
* `hint_loop.py:67-69` says "a forced completion is only worth anything if it lands
  somewhere that accepts". The scaffold lands there (`ScaffoldLandsInValidator`), but
  the answer itself has `</answer>` as its only stop string, and nothing looks at what
  else the policy writes into it: with any further tag there the rollout is rejected.
  `ForcedIsAccepted` says that a forced tape is accepted exactly when there is none.
* A generation cut by the context window, with budget left, is neither truncated
  nor forced.

The generators:

* `generator.py:398` says the spliced loop matches the RL rollout. It does as far
  as `AgreesWithTraining` says. Beyond that it has no hint cap, turn cap, window
  check or malformed check; it refuses with a text that reopens `<think>`, where
  `NO_MORE_HINTS` does not; an end-of-sequence, a bare `<abstain>` included, gets
  `</think>` and another turn; and an answer or a request on the budget's last
  token counts, where training truncates.
* After a text loop has closed a block for an end-of-sequence, a forced hint strips
  one `</think>` of two, so the sample is malformed (`StoppedIsWellFormed` is stated
  of samples no text was closed in). `generator.py:44-46` says
  "Any </think> or <answer> the model already produced this turn is stripped".
* In the synchronous text loop the group shares its smallest remaining budget, so
  a sample may end as `length` with budget left (`CutSpentItsBudget` excludes it).
* `generator.py:133-142` and the rollout loop disagree on a response with a bare
  `<abstain>`: the single-turn scaffold does not see that tag. `ScaffoldsAgree`
  excludes it.

The run directory:

* With `max_ckpt_to_keep` 1, a crash inside a save leaves nothing to resume: pruning
  comes before writing. `TrackedIsLoadable` is checked and proved for two or more.
* A crash between a best checkpoint and its record loses the best score: the
  record is written after the checkpoint it names. `FinishedRun` is stated of
  launches that resumed nothing.
* With both `--save-best` and `--save-freq` a step may be saved twice: the tracked
  checkpoint is rewritten in place, its path stands twice in
  `previous_saved_paths`, and pruning the first removes the second's files. With
  `saveFreq = 1`, `saveBest` and `maxKeep = 2` TLC finds `TrackedIsLoadable`
  violated; the runs and the proofs do not combine the two options.
* `training.py:365-366` says "--overwrite clears the run directory and therefore
  the id"; the guard removes checkpoints, rollouts and models, and never
  `wandb_run_id`, so the new run writes on to the discarded run's curve.
* `training.py:567-569` says two checkpoints survive, the best and the last;
  when the best is the last there may be one.
* A crash inside a run's first save leaves a step directory and no tracker;
  `--continue-run` is accepted and starts at step 0.
* A torn tracker stops every later `--continue-run` with a `ValueError`.
* A crash inside the removal of the checkpoints, by `--overwrite` or by the clean-up
  after training, leaves any part of them, and `--continue-run` accepts what is left as
  long as a step directory is there. Without its tracker, or with one that names a
  directory that is gone, the launch trains from the start beside the old
  checkpoints; with one that names files half gone, loading them fails; a record that
  outlives its checkpoint holds back every score below its own. The properties about
  tracker and record are stated while no such removal is unfinished (`ruined`).
* `--resume` takes whatever is in the checkpoints named, the guard unasked.
* A run resumed at its last step trains one step past its total.
* The paths to prune are kept in memory, so a resumed run keeps more than
  `max_ckpt_to_keep`: what it finds is never pruned.
* `keep_state` keeps the highest step on disk, which an earlier launch with more
  steps may have left, and leaves tracker and record naming what is gone.
* A dataset that ends before `total_training_steps` ends the run without its
  final checkpoint.

Datasets and hints:

* `__main__.py:453` says truncated records are retried "with different seeds". The
  attempts of one launch are (`RetriesDrawAnew`); the first attempt of the next
  launch starts from `--seed` again, and may draw what was cut from the seed
  that cut it.
* The output file is rewritten in place: a kill inside the write leaves a file that
  does not parse, and every later launch ends on reading it; of the dataset until
  somebody removes it, of the hint writer until `--no-resume` does. `NothingIsLost` and
  `HintsAreKept` speak of whole files: that a record or a hint is carried from each to
  the next. `CostOfAKill` says what a kill costs at each place of the hint writer:
  less than `--save-every` results while the file is whole, and all of them, those of
  earlier launches included, while it is rewritten.
* With `--retry-incorrect`, `--retry-truncated` looks only at what was wrong: a
  correct record that was cut stays as it is (`FinishedRun`).
* `inference.py:411-413` says of `prefer_abstain` that a correct sample is picked if
  there is one; lines 443-447 take an abstaining one first. The choice among a
  prompt's samples is outside the model.
* The hint writer's prompt asks for five hints (lines 120-121), and its validator
  wants a sixth (`range(1, 7)`): an answer in the format asked for raises a
  `KeyError`, which line 293 takes for an API error, and is refused on every
  attempt. `Accepted` says so.

## 5. What is proved

Eight modules hold theorems. All are proved for every value of the constants that
meets the named assumptions of their modules (`RulesAssumption`,
`AnswersAssumption`, `BatchAssumption`, `ContinuousAssumption`, `RunAssumption`,
`DatasetAssumption`, `WriterAssumption`); an assumption a single theorem needs
beside these stands in its statement.

### Grammar

`TurnRulesProofs`, about tapes of any length and both grammars:
`ScaffoldAccepted`: if a tape is `Rescuable`, then tape, scaffold, and
`</answer>` are `WellFormed`. A rescuable tape is `k` whole exchanges and a
cut. Each of the four cuts completed by its scaffold is zero or one more
exchange and an ending, so the result is `k` or `k + 1` exchanges and an
ending (`AppendAfter`, `OneMoreExchange`). There is no induction: positions
are compared directly.

`WalksGoOverTheGrammar`: the validator's walk accepts exactly what the grammar
generates, and the scaffold's walk rescues exactly the cuts the grammar lists, with
the tags it lists. `ScaffoldsLand` follows from it and `ScaffoldAccepted`: what the
scaffold opens, the validator accepts once it is closed; and as no ending is a
cut, what it accepts already is given no scaffold.

A walk is a function of positions that is defined from its own values further
right, and what such a function computes would ask for an induction. It is avoided
in two steps. At a position where a whole exchange stands each of the four walks says
what it says behind that exchange, and at any other position what `NoEnding` or
`Opening` say of the tags left (`FlatLooks`, `NestedLooks`, `FlatReaches`,
`NestedReaches`, from `MatchedIs`: the inner loop finds the longest beginning of the
cycle). A function of that shape (`Walk`) exists, because the place where each
position's walk ends can be named outright (`WalkExists`), and its value at the
first position is what the last alternative says behind the last of the
exchanges that the response begins with: the greatest `n` for which the
value is the same `n` exchanges further on is that number (`WalkEnds`). Behind the
last exchange (`Behind`) what is left decides: the endings and the cuts are all
shorter than an exchange (`CutsAndEndings`), so the grammar's "some number of
exchanges" can only be the greatest (`AllExchanges`).

`HintRolloutProofs` instantiates these theorems for both grammars and draws the
conclusion for `MCTagWalk!WalkSpec`, whatever `MaxTags` and `MaxDead`:
`WalksAreTheGrammar` (`WalksMatchGrammar`), `WalksLandWhereTheyShould`
(`ScaffoldLandsInValidator`) and `TheGeneratorsAgree` (`ScaffoldsAgree`). They need no
more of a response than that it is made of tags.

The last one rests on `TheScaffoldsAgree`: on a response without hint tags and
`<abstain>` the single-turn scaffold of `generator.py`, which filters the tags by its
own pattern first, appends what the loop's scaffold does. Its filter `PlainTags` is
a function of positions, so that it can be compared with the response tag by tag; on
such a response it keeps everything (`PlainTagsAll`), and the loop's walk, which
finds no exchange to go over, looks at the first tags as the single-turn scaffold
does (`ScaffoldIsTerminal`).

### The hint loop

`HintRolloutProofs` proves of `HintRollout!Spec`, for any number of rollouts:

| Theorem | Property |
|---|---|
| `TypeCorrect` | `TypeOK` |
| `BudgetsAreRespected` | `BudgetsRespected` |
| `HintsAreServedInOrder` | `HintsServedInOrder` |
| `TruncationKindsExclusive` | `TruncationKinds` |
| `ForcedAnswersAreAccepted` | `ForcedIsAccepted` |
| `TapeIsBounded` | `TapeBounded` |
| `UnfinishedIsAtTurnCap` | `UnfinishedOnlyAtTurnCap` |
| `RejectedStaysRejected` | `MalformedStaysMalformed` |
| `RewardCountsTheRequests` | `RewardSeesTheHints` |
| `TrainsOnTheSampled` (of `TensorSpec`) | `TrainsOnWhatWasSampled` |
| `WholeTapeIsGraded` (of `TensorSpec`) | `GradesTheWholeTape` |

None of these is inductive as it stands. A bound on the tape says nothing of a
step unless one knows how the length is made up, and what holds of a rollout
that may still take a turn is stronger than what holds of one that may not. The
invariant `IInv` says of each rollout

* before forcing, `Turning`: its length is prompt, sampled and injected tokens;
  the injected length follows from its requests; the hints given follow from
  requests, cap and supply; one that is not completed is within window and
  budget, has asked on every turn, and has none of the final flags;
* after forcing, `Settling`: the flags agree with each other, a forced tape is
  well formed exactly when the policy's answer has no further tag (`PlainAnswer`), and
  the bounds include what forcing adds.

`TurnRulesProofs` shows that `Ingest`, `CutShort` and `Finalize` each keep `Turning`
(`IngestKeepsTurning`, `CutShortKeepsTurning`, `FinalizeFacts`), whoever calls them
and in whichever order; `Settled` turns it into `Settling` (`SettledFacts`), which
uses `ScaffoldAccepted`.

What the validator and the reward read needs a second invariant, `Judged` before
forcing and `Verdict` after it. A well formed tape ends in an answer or an
abstention (`EndsInAnswer`), and the tape of a rollout that the loop calls malformed
ends in the tag that spoiled it, where the engine stopped (`SpoiledByLastTag`,
`StopsAtStopTag`); nothing is appended to it later. While a rollout is open every
`</response>` on its tape was put there by a reply (`OneResponseEach`), so counting
them counts its requests (`CountOneMore`, `AnswerRequestCounts`).

The two theorems about tensors need `TapeInv` beside `IInv`: text and mask of a tape
are of one length, and the mask is 1 on what the policy wrote and nowhere else
(`IsTape`); the length of an unforced tape is what its record counts, which is how
the documented width bounds it (`TapeFits`); and an end-of-sequence token is
the last of its tape (`EndedLast`), so that `get_response_mask` hides nothing behind
it. While a rollout is open there is none on its tape (`Unended`): without that,
the next turn would be appended behind one. Cutting and padding then keep text and
mask in step.

`RoundsDriverProofs` and `ContinuousDriverProofs`, for any number of rollouts:

| Theorem | Property |
|---|---|
| `RoundsDriverProofs!TypeCorrect` | `TypeOK` |
| `RoundsAreLockstep` | `Lockstep` |
| `RoundsImplement` | `ImplementsHintRollout` |
| `ContinuousDriverProofs!TypeCorrect` | `TypeOK` |
| `InHandIsFresh` | `InFlightFresh` (fresh, and one request each) |
| `EngineIsKeptFull` | `KeepsEngineFull` |
| `EngineIsIdleWhenForcing` | `ForcingFindsEngineIdle` |
| `ContinuousImplements` | `ImplementsHintRollout` |
| `EveryStepComesNearer`, of each driver | every step leaves fewer steps to take |
| `RoundsAreNeverStuck`, `ContinuousIsNeverStuck` | before its end a driver has a step to take |

The round driver's invariant adds `Batched`: while a batch runs it holds every
rollout that is not finished, and each had room. The continuous driver's adds
`Waiting`: who waits for what, phase by phase; between a result and its
resubmission exactly the rollout `again` may be without a request. Each refinement
takes the driver's steps one by one (`StartRoundImplements`,
`TakeResultImplements`, ...): marking rollouts without room is `RunOut`, results are
`TakeTurns`, a drop is `Lose`, submitting is a stutter. So a driver inherits every
theorem about `HintRollout`.

The last rows are what `Terminates` rests on. `StepsLeft` counts what a driver may
still do. For the round driver these are two steps for every round to come and three
to close: 2 * `MaxTurns` + 3 at first. For the continuous driver they are
three for every turn a rollout may still ask for (the engine finishes it, the
driver takes the result, the driver submits the next), two for a request in the
engine, one for a result in hand, and a few for the phase the driver is in; before
the first requests are sent, two for each of them:
3 * (`NumRollouts` * `MaxTurns`) + 2 * `NumRollouts` + 4. Every
step of driver or engine leaves fewer, in whatever order results arrive; a drop
uses up its request. `NotStuck` says what the next step needs: a request that the
engine can answer within window and budget, or, at the end, room for the answers.
It assumes only that there is a text the engine may return (`Texts # {}`). A driver
that waited for a request the engine had dropped would break it.

### The run directory

`CheckpointRunProofs`, for any steps, scores, launches and crashes:

| Theorem | Property | Assumed of every configuration |
|---|---|---|
| `TypeCorrect` | `TypeOK`, with what the manager remembers | best or periodic checkpoints, not both |
| `TrackedCanBeLoaded` | `TrackedIsLoadable` | the same, `--max-ckpt-to-keep` 2 or more, not `keep_state` |
| `TrackedStepsAreNotTrainedAgain` | `ResumesWhereItStopped` | the same |
| `BestIsNeverPruned` | `BestIsKept` | nothing |
| `FinishedRunIsWhatWasTrained` | `FinishedRun` | nothing |

"Nothing" means that the property itself says of which launches it speaks: without
periodic checkpoints, for `BestIsKept` without `keep_state`, and for `FinishedRun`
resumed from nothing. `TrackedIsLoadable`, `ResumesWhereItStopped` and `BestIsKept` are
stated while no removal of the checkpoints is left unfinished (`~ruined`). The other assumptions are
those under which the statements are true (section 4). `ResumesWhereItStopped` is
strict: every step that is trained lies past the tracked one, so that it needs the step
that `fit` moves on by before it trains.

The invariant `Inv` is types and five parts. `OneKind` is the first assumption carried
along. `Remembers`: the checkpoints the manager remembers are whole, at most
`maxKeep`, and in the order of their steps. `Course`: how the saves of a step
follow on each other; what `lastSaved` says of each place, and that `convert`
comes only after the last step was saved; while files are pruned they are half gone
(`going`). `Tracks`, when `Roomy`: the tracker
names the last remembered checkpoint, except between a save and its tracker, and
pruning leaves that one because there is room for it beside the new one. `HoldsBest`,
when `OnlyBest`: the recorded step is whole, and wherever a prune is still to come it
is the last remembered one or not remembered at all. A prune forgets oldest first
(`PruneFacts`). `MaxIsIn` (a set of steps has a greatest one) goes by well-founded
strict inclusion, without an operator to induct on.

`FinishedRun` compares what is converted with the scores of all validations, so it
needs `FreshInv` as well, for launches that resumed nothing: a launch starts from a
bare directory (`Begins`). An overwriting one has emptied it; another found no results,
and then there is no record either, because rollouts are dumped before anything is
saved and `--overwrite` removes them last (`Littered`). The process's best score is the highest
validated, and the last step is validated (`Judged`); between a best save and its
record apart, the record is what the process knows, and the next prune does not
reach it (`Held`); and after training each of `best/`, `last/` and `model/` holds what
was converted into it by then (`Converts`).

### The generator

`GeneratorProofs` proves of `EvalRollout!Spec`, for any texts, lengths, hints and
either kind of request:

| Theorem | Property | Assumed |
|---|---|---|
| `TypeCorrect` | `TypeOK` | nothing |
| `EvaluationMatchesTraining` | `AgreesWithTraining` | a budget above 0 |
| `CutSamplesSpentTheirBudget` | `CutSpentItsBudget` | nothing |
| `CommittedTurnsAreKept` | `TurnsAreCutAlone` | nothing |
| `TidyStopsAreWellFormed` | `StoppedIsWellFormed` | each text is reasoning, `</think>`, a request or an ending (`Tidy`) |
| `EverySampleComesNearer` | every step leaves fewer steps to take | nothing |
| `SamplesAreNeverStuck` | an open sample can be ended or takes a turn | `Texts # {}` |

With a budget of 0 the evaluation loop ends before its first turn, and training is
not asked. `Tidy` is what the run assumes of the policy too.

`AgreesWithTraining` is not inductive: it says nothing of a training rollout that
was refused or cut, and a step may begin there. `Beside` adds that the training loop
is never ahead in turns, that its marks are never taken back, that it has budget
left while it runs, and that there is no answer on an open tape: the evaluation loop
looks for one on the whole tape, training in the last turn only. The training side
of a step is `Ingest`, so its facts come from `TurnRulesProofs` (`IngestFacts`).

`TurnsAreCutAlone` rests on where a turn begins: never before the last reply
(`TurnBeginIs`), and a longer tape has its last reply no earlier (`LaterReply`).
`StoppedIsWellFormed` rests on `WholeInv`: while no text was closed by the loop, an
open tape is whole exchanges, the last thing on it a reply. What a forced hint leaves
of a tidy turn is nothing (`NothingKept`), so it adds one exchange as a request would
(`ForcedAfterTidy`). TLC checked `WholeInv` and `BesideInv` before they were proved, with
requests inside and outside the block, and with and without `HintTransition`.

Every loop here is a `while True`. That a sample's ends is not a matter of its
token budget alone: a forced hint cuts the turn's text and hands the tokens of what
it cut back. It uses up a hint, though, and `StepsLeft` weighs a hint that is left
with more than the whole budget (`MaxResponseLen` + 2); any other turn that does
not end its sample spends a token at least (`SplicedGoesOn`, `ForcedGoesOn`).

### The dataset file and the hint writer

| Theorem | Property |
|---|---|
| `DatasetRunProofs!TypeCorrect` | `TypeOK` |
| `FinishedRunIsComplete` | `FinishedRun` |
| `NoRecordIsLost` | `NothingIsLost` |
| `RecordsAreReplacedOnRequest` | `ReplacesOnlyWhatItRetries` |
| `AttemptsDrawAnew` (no more prompts than `SeedStep`) | `RetriesDrawAnew` |
| `DatasetRunProofs!LaunchesAreBounded` | every step of a launch leaves fewer, and none is made for nobody |
| `HintWriterProofs!TypeCorrect` | `TypeOK` |
| `KillsCostLittleOutsideARewrite` | `CostOfAKill` |
| `ReturnsWithEveryEntry` | `AllAttempted` |
| `NoHintsAreLost` | `HintsAreKept` |
| `HintWriterProofs!LaunchesAreBounded` | every step of a launch leaves fewer |

`DatasetRunProofs`: between a save and the next call, memory is the file
(`MemoryIsSaved`); during a save it differs only where the launch asked for it
(`MemoryDiffersWhereAsked`); what is still to do was asked for, and what is not has
its record (`TodoIsAsked`, `OthersAreDone`). The three action properties follow
because a file becomes whole only at `Write` and `Rewrite`, from memory
(`SaveChangesWhatWasAsked`). `SeedsBelow` splits the seeds by attempt: those of the
launch's records lie below the attempt's first seed where the prompt is still to
be drawn, and below the next attempt's everywhere else; a prompt's place in its
call is less than the number of prompts (`PositionBound`). The code's step of 1000
gives the theorem up to a thousand prompts; beyond that a place in one attempt may
repeat the seed of another place in the next, and the same prompt may meet it.

`HintWriterProofs`: what is counted stays below what it is counted for (`Counting`);
the saver starts from the file, which is torn while it is rewritten and whole
elsewhere (`Loaded`); memory has the file's hints, and the
results that are not in the file are no more than `unsaved` (`Ahead`); a problem of
the launch has its hints or a coroutine, or was given up after all its attempts
(`Covered`).

`LaunchesEnd` of either module rests on its `LaunchesAreBounded`. An attempt of a
dataset run takes two steps for each prompt that is still to do, to generate and to
write it, and four around them: a launch starts with (`MaxRetries` + 1) *
(2 * `NumPrompts` + 4) steps. This holds because no batch is empty, which
`SomethingToDo` says, and is proved with it: the generator is called for somebody,
and a further attempt begins only where a record is cut. A round of the hint writer
takes up to two steps for an attempt of a call, two for a result (handing it in and
the save it may bring on) and one for the semaphore: `RoundSteps`, and a launch
starts with `Rounds` * (`RoundSteps` + 1) + 5. A failed problem that comes back in the
next round is paid for by that round. A kill ends the launch and so leaves none. Waiting
out a rate limit is no step of the model (section 3).

### Model-checked only

Every safety invariant and every action property that a passing run checks is
stated by a theorem, some under the assumptions of the tables above. What is left to
TLC:

* liveness: `Terminates` of the drivers and of `EvalRollout`, `LaunchesEnd` of
  `DatasetRun` and of `HintWriter`. Proved are the number that every step lowers and,
  of the drivers and of `EvalRollout`, that there is always a step; to conclude
  that the end comes takes the rule of weak fairness, which speaks of `ENABLED`, and
  an induction on that number, and the provers do neither.
* For the same reason `NotStuck` spells out what a step needs instead of saying
  `ENABLED`. On the runs' small instances `Terminates` would fail of a driver that
  is stuck before its end.
* The disagreements of section 4, each by the run that shows it.

## 6. What is not modelled

Most of the source tree is vendored verl: tensor code, Ray workers, other rollout
backends, other recipes. Of this repository's own code the models cover what
keeps state over several steps; the rest is parsing, formatting and arithmetic.

* Tokens and text. Ids are glued, never decoded; a tape is tags and a length, and in
  `ResponseTensor` the origin of its tokens. Tokenising is left out.
* In the worker: position ids, the repetition of non-tensor fields, and the plain
  `generate_sequences`.
* In `EvalRollout`: `ban_hint_requests`, hints that are `None`, an engine stream
  that ends without a result, single-turn generation with `_force_answers`, and the
  engine's own context window, which is taken as never reached.
* In `CheckpointRun`: the torch state in a checkpoint, `wandb_run_id`, the critic, the
  elastic-shutdown save, the derivation of hyperparameters, files under another
  run id, a dataset that ends early, a `--resume` path outside the run directory, and
  the order in which the files of one actor directory are written or removed: half of
  them is one state. Two launches of one run at the same time are
  not considered.
* In `DatasetRun`: the choice among several samples of a prompt, and what a record
  says beside its verdict and finish reason. `evaluate` reads finished files and
  counts.
* In `HintWriter`: the text of hints; the pauses between attempts.
* Scores and penalties of the reward functions: functions of one response without
  state. The adaptive manager: a recurrence with one writer, for one method its
  configuration marks deprecated; its average is saved with every checkpoint and restored
  on resume (`adaptive.py:265-277`, `ray_trainer.py:1059-1062` and `1130-1135`).
* Hint interactions of the sglang backend, data preparation, task definitions,
  command line, SFT command: nothing in them interleaves, fails halfway or is
  resumed.

## 7. Plan

Done: grammar and walks; turn rules and abstract batch; the two drivers and their
refinement; the worker's tensors; the run directory; the dataset file; the hint
writer; the generator's multi-turn loops; the proofs of section 5. The order was
chosen by what a mistake costs: the loop decides what every sample is worth, the
run directory decides what is left of a week of training, the dataset file what is
left of a day of sampling.

What could come next, in this order:

1. `EvalRollout` extended: single-turn generation with `_force_answers` on both of
   its paths, `ban_hint_requests`, the engine's window.
2. `Scoring`: the reward of a tape and its flags, on top of `TurnRules`: which
   order of outcomes it keeps.
3. `CheckpointRun` with a dataset that ends.
