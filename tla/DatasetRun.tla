----------------------------- MODULE DatasetRun -----------------------------
(***************************************************************************)
(* The output file of `generate` over all the launches that write it: each *)
(* launch reads what the earlier ones left, samples the prompts that are   *)
(* not done, saves the whole file after every batch and, if asked to,      *)
(* samples again what was wrong or was cut short.                          *)
(*                                                                         *)
(* A prompt is its position in the prompts file.  Seeds are counted from   *)
(* --seed, the same at every launch.                                       *)
(***************************************************************************)
EXTENDS Integers, FiniteSets

CONSTANTS
  NumPrompts,    \* len(prompts_data)
  BatchSize,     \* --batch-size
  MaxRetries,    \* --max-retries
  SeedStep,      \* what an attempt adds to the seed: 1000
  Samples,       \* what the engine may return
  Options,       \* how launches may be started
  MaxLaunches, MaxCrashes   \* bounds: launches, and crashes over all of them

Sample == [verdict : {"correct", "abstained", "incorrect"},
           finish  : {"stop", "length", "error"}]

\* --async, the method and whether it may force hints, --retry-incorrect,
\* --retry-truncated
Option == [async : BOOLEAN, method : {"single", "hints", "forced hints"},
           incorrect : BOOLEAN, truncated : BOOLEAN]

ASSUME DatasetAssumption ==
  /\ NumPrompts \in Nat /\ BatchSize \in Nat \ {0} /\ MaxRetries \in Nat
  /\ SeedStep \in Nat
  /\ Samples \subseteq Sample /\ Options \subseteq Option
  /\ MaxLaunches \in Nat /\ MaxCrashes \in Nat

VARIABLES
  file,       \* the output file: "missing", "torn" (being rewritten) or "whole"
  saved,      \* its records, or those of the last whole file when it is torn
  proc,       \* the process: its place in the code and its memory
  launches, crashes

vars == <<file, saved, proc, launches, crashes>>

Prompts == 1..NumPrompts

\* A record is the sample it keeps and, as ghosts, its seed and its launch.
None == [verdict |-> "none"]
Record == [verdict : {"correct", "abstained", "incorrect"},
           finish  : {"stop", "length", "error"},
           seed : Nat, launch : Nat]
Records == [Prompts -> Record \union {None}]
NoRecords == [i \in Prompts |-> None]

Cut(r) == r # None /\ r.finish = "length"
Wrong(r) == r # None /\ r.verdict = "incorrect"

Idle == [pc |-> "idle"]

Init ==
  /\ file = "missing" /\ saved = NoRecords
  /\ proc = Idle
  /\ launches = 0 /\ crashes = 0

At(place) == proc.pc = place
Goto(place) == proc' = [proc EXCEPT !.pc = place]
Running == ~At("idle") /\ ~At("returned")

-----------------------------------------------------------------------------
Launch(o) ==
  /\ ~Running /\ launches < MaxLaunches
  /\ launches' = launches + 1
  /\ proc' = [pc |-> "read", opts |-> o, attempt |-> 0, records |-> NoRecords, todo |-> {}]
  /\ UNCHANGED <<file, saved, crashes>>

\* Mutant: a plain launch, too, samples what was cut short.
CompletedUncut(r, o) == r # None /\ ~Cut(r) /\ (o.incorrect => ~Wrong(r))

\* What a launch does not sample again; retry_incorrect is looked at first.
Completed(r, o) ==
  /\ r # None
  /\ IF o.incorrect THEN ~Wrong(r) ELSE o.truncated => ~Cut(r)

Remaining == {i \in Prompts : ~Completed(saved[i], proc.opts)}

\* Mutant: the records of the file are not carried over.
ReadForgetful ==
  /\ At("read") /\ file # "torn"
  /\ proc' = [proc EXCEPT !.todo = Remaining,
                          !.pc = IF Remaining = {} THEN "returned" ELSE "generate"]
  /\ UNCHANGED <<file, saved, launches, crashes>>

\* Every attempt reads the file again; a file that does not parse ends it.
Read ==
  /\ At("read")
  /\ proc' = IF file = "torn" THEN Idle
             ELSE [proc EXCEPT !.records = saved, !.todo = Remaining,
                               !.pc = IF Remaining = {} THEN "returned" ELSE "generate"]
  /\ UNCHANGED <<file, saved, launches, crashes>>

\* Mutant: a retry of single-turn prompts takes all of them.
RetryAll ==
  /\ At("retry")
  /\ proc' = [proc EXCEPT !.todo = Prompts, !.pc = "generate"]
  /\ UNCHANGED <<file, saved, launches, crashes>>

\* Asynchronous single-turn generation retries within one event loop, from
\* memory, and then asks only for what was cut.
Retry ==
  /\ At("retry")
  /\ proc' = [proc EXCEPT !.todo = {i \in Prompts : Cut(proc.records[i])}, !.pc = "generate"]
  /\ UNCHANGED <<file, saved, launches, crashes>>

-----------------------------------------------------------------------------
\* A prompt's place among those still to do: its place in its call, too.
Position(i) == Cardinality({j \in proc.todo : j < i})

\* Asynchronous calls take all prompts at once, synchronous ones a batch.
Batch == {i \in proc.todo : proc.opts.async \/ Position(i) < BatchSize}

\* Mutant: attempts share their seed.
SeedFixed(i, own) == IF own THEN Position(i) ELSE 0

\* A call gives each prompt a seed of its own, or all of them the attempt's.
Seed(i, own) == proc.attempt * SeedStep + (IF own THEN Position(i) ELSE 0)

\* The token-spliced loops do the first, single-turn generation the second, and
\* so do the text-based loops, which a call takes that forces a hint anywhere.
OwnSeeds == {own \in BOOLEAN : IF own THEN proc.opts.method # "single"
                                      ELSE proc.opts.method # "hints"}

Recorded(i, s, own) == [verdict |-> s.verdict, finish |-> s.finish,
                        seed |-> Seed(i, own), launch |-> launches]

\* One call of the generator; its answers are in memory and save_json has
\* opened the file, which empties it.
Generate ==
  /\ At("generate")
  /\ \E s \in [Batch -> Samples], own \in OwnSeeds :
       proc' = [proc EXCEPT
         !.records = [i \in Prompts |-> IF i \in Batch THEN Recorded(i, s[i], own) ELSE @[i]],
         !.todo = @ \ Batch,
         !.pc = "write"]
  /\ file' = "torn"
  /\ UNCHANGED <<saved, launches, crashes>>

\* Mutant: attempts are not counted.
NextAttemptStuck ==
  IF proc.opts.truncated /\ \E i \in Prompts : Cut(proc.records[i])
  THEN proc' = [proc EXCEPT
         !.pc = IF proc.opts.async /\ proc.opts.method = "single" THEN "retry" ELSE "read"]
  ELSE Goto("returned")

\* Mutant: the check for truncated records is left out.
NextAttemptNever == Goto("returned")

\* The end of an attempt.
NextAttempt ==
  IF /\ proc.opts.truncated /\ proc.attempt < MaxRetries
     /\ \E i \in Prompts : Cut(proc.records[i])
  THEN proc' = [proc EXCEPT
         !.attempt = @ + 1,
         !.pc = IF proc.opts.async /\ proc.opts.method = "single" THEN "retry" ELSE "read"]
  ELSE Goto("returned")

Save == file' = "whole" /\ saved' = proc.records

Write ==
  /\ At("write") /\ Save
  /\ IF proc.opts.async THEN NextAttempt
     ELSE Goto(IF proc.todo = {} THEN "final" ELSE "generate")
  /\ UNCHANGED <<launches, crashes>>

\* The synchronous path saves once more at the end of an attempt.
OpenFinal ==
  /\ At("final") /\ file' = "torn" /\ Goto("rewrite")
  /\ UNCHANGED <<saved, launches, crashes>>

Rewrite ==
  /\ At("rewrite") /\ Save /\ NextAttempt
  /\ UNCHANGED <<launches, crashes>>

Crash ==
  /\ Running /\ crashes < MaxCrashes
  /\ crashes' = crashes + 1 /\ proc' = Idle
  /\ UNCHANGED <<file, saved, launches>>

\* Everything but what starts a launch and what kills it.
Work == Read \/ Retry \/ Generate \/ Write \/ OpenFinal \/ Rewrite

Next == (\E o \in Options : Launch(o)) \/ Work \/ Crash

\* A launch that is not killed goes on.
Spec == Init /\ [][Next]_vars /\ WF_vars(Work)

-----------------------------------------------------------------------------
Process == [
  pc      : {"read", "retry", "generate", "write", "final", "rewrite", "returned"},
  opts    : Options,
  attempt : 0..MaxRetries,
  records : Records,           \* records_by_index
  todo    : SUBSET Prompts]    \* what is left of remaining_prompts

\* The type invariant.
TypeOK ==
  /\ file \in {"missing", "torn", "whole"} /\ saved \in Records
  /\ proc \in {Idle} \union Process
  /\ launches \in 0..MaxLaunches /\ crashes \in 0..MaxCrashes

\* Neither a retry, nor a batch, nor a resumed launch drops the record of a
\* prompt it did not sample: what one whole file holds, the next one holds.
KeepsRecords == \A i \in Prompts : saved[i] # None => saved'[i] # None
NothingIsLost == [][KeepsRecords]_saved

\* A record is replaced only on request: because it is wrong by a launch with
\* --retry-incorrect, because it was cut by one with --retry-truncated.
ReplacesOnRequest ==
  \A i \in Prompts :
    saved[i] # None /\ saved'[i] # saved[i] =>
      \/ proc.opts.incorrect /\ Wrong(saved[i])
      \/ proc.opts.truncated /\ Cut(saved[i])
ReplacesOnlyWhatItRetries == [][ReplacesOnRequest]_saved

\* The attempts of a launch never draw a prompt twice from one seed: its seeds
\* go up, whatever places the prompts have among those still to do, as long as
\* the prompts are no more than the seeds an attempt moves on by.
SeedsGoUp ==
  \A i \in Prompts :
    /\ saved[i] # None /\ saved'[i] # saved[i]
    /\ saved[i].launch = launches
    => saved[i].seed < saved'[i].seed
RetriesDrawAnew == [][SeedsGoUp]_saved

\* A launch that returns leaves a whole file with a record of every prompt, and
\* one that retries what was cut leaves a cut record only when its attempts
\* are used up.  With --retry-incorrect, a correct record may stay cut.
FinishedRun ==
  At("returned") /\ NumPrompts > 0 =>
    /\ file = "whole" /\ \A i \in Prompts : saved[i] # None
    /\ \/ ~proc.opts.truncated \/ proc.opts.incorrect
       \/ proc.attempt = MaxRetries
       \/ \A i \in Prompts : ~Cut(saved[i])

\* However samples turn out, a launch comes to an end.
LaunchesEnd == At("read") ~> ~Running
=============================================================================
