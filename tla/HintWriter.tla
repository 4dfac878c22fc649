----------------------------- MODULE HintWriter -----------------------------
(***************************************************************************)
(* rewrite_solutions_prefix_hints.py: one coroutine per problem asks a     *)
(* model for the problem's hints, at most BatchSize of them at a time, and *)
(* hands what it gets to a saver that rewrites the output file every       *)
(* SaveEvery results.  What fails is tried again in rounds; what a launch  *)
(* leaves open, because it failed or was killed, the next one takes up.    *)
(*                                                                         *)
(* A problem is its position in the input, to which later launches may     *)
(* append.  A rate-limited call waits and is not counted: it is a call not *)
(* answered yet.                                                           *)
(***************************************************************************)
EXTENDS Integers, FiniteSets

CONSTANTS
  NumProblems,   \* problems of the longest input
  BatchSize,     \* --batch-size: calls at a time
  SaveEvery,     \* --save-every
  Rounds,        \* --max-retries of the script
  Attempts,      \* max_retries of one call
  Sizes,         \* lengths of the inputs launches are given
  Limits,        \* their --max-samples, or NumProblems when there is none
  MaxLaunches, MaxCrashes   \* bounds: launches, and crashes over all of them

ASSUME WriterAssumption ==
  /\ NumProblems \in Nat
  /\ BatchSize \in Nat \ {0} /\ SaveEvery \in Nat \ {0}
  /\ Rounds \in Nat \ {0} /\ Attempts \in Nat \ {0}
  /\ Sizes \subseteq 0..NumProblems /\ Limits \subseteq 0..NumProblems
  /\ MaxLaunches \in Nat /\ MaxCrashes \in Nat

VARIABLES
  file,       \* the output file: "missing", "torn" (being rewritten) or "whole"
  saved,      \* its entries, or those of the last whole file when it is torn
  proc,       \* the process: its place in the code and its memory
  launches, crashes

vars == <<file, saved, proc, launches, crashes>>

Problems == 1..NumProblems

\* No entry; a null placeholder; an entry whose prefix_hints are null; hints.
Entry == {"absent", "null", "failed", "hints"}
Nothing == [i \in Problems |-> "absent"]

\* Where a problem's coroutine is; "off" when this round has none for it.
Stage == {"off", "waiting", "calling", "failed", "done"}
AllOff == [i \in Problems |-> "off"]

Idle == [pc |-> "idle"]

Init ==
  /\ file = "missing" /\ saved = Nothing
  /\ proc = Idle
  /\ launches = 0 /\ crashes = 0

At(place) == proc.pc = place
Goto(place) == proc' = [proc EXCEPT !.pc = place]
Running == ~At("idle") /\ ~At("returned")
In(stage) == {i \in Problems : proc.task[i] = stage}

-----------------------------------------------------------------------------
(***************************************************************************)
(* Starting: --no-resume deletes the file, the saver loads or creates it.  *)
(***************************************************************************)
Launch(size, limit, resume) ==
  /\ ~Running /\ launches < MaxLaunches
  /\ launches' = launches + 1
  /\ IF resume THEN UNCHANGED <<file, saved>> ELSE file' = "missing" /\ saved' = Nothing
  /\ proc' = [pc |-> "open", size |-> size, limit |-> limit, round |-> 1,
              results |-> Nothing, unsaved |-> 0,
              task |-> AllOff, tries |-> [i \in Problems |-> 0]]
  /\ UNCHANGED crashes

\* Room for every problem of the input, behind what the file already has.
Extended(entries) ==
  [i \in Problems |-> IF i <= proc.size /\ entries[i] = "absent" THEN "null" ELSE entries[i]]

\* Mutant: the file is not loaded, only found to be there.
OpenWithoutLoading ==
  /\ At("open")
  /\ IF file = "torn" THEN proc' = Idle /\ UNCHANGED file
     ELSE /\ file' = IF file = "missing" THEN "torn" ELSE file
          /\ proc' = [proc EXCEPT !.results = Extended(Nothing),
                                  !.pc = IF file = "missing" THEN "create" ELSE "plan"]
  /\ UNCHANGED <<saved, launches, crashes>>

\* IncrementalSaver.__init__; a file that does not parse ends the launch.
Open ==
  /\ At("open")
  /\ IF file = "torn" THEN proc' = Idle /\ UNCHANGED file
     ELSE /\ file' = IF file = "missing" THEN "torn" ELSE file
          /\ proc' = [proc EXCEPT !.results = Extended(saved),
                                  !.pc = IF file = "missing" THEN "create" ELSE "plan"]
  /\ UNCHANGED <<saved, launches, crashes>>

\* The end of _save: the file is whole again.
Written == file' = "whole" /\ saved' = proc.results

Create ==
  /\ At("create") /\ Written /\ Goto("plan")
  /\ UNCHANGED <<launches, crashes>>

\* Mutant: an entry counts as completed once it is there.
PendingIfNull == {i \in Problems :
  i <= proc.size /\ i <= proc.limit /\ proc.results[i] \in {"absent", "null"}}

\* get_pending_indices, within the first --max-samples problems.
Pending == {i \in Problems :
  i <= proc.size /\ i <= proc.limit /\ proc.results[i] # "hints"}

\* Every problem in S gets a coroutine, which starts by waiting for its turn.
Start(S) == [i \in Problems |-> IF i \in S THEN "waiting" ELSE "off"]

Plan ==
  /\ At("plan")
  /\ proc' = IF Pending = {} THEN [proc EXCEPT !.pc = "returned"]
             ELSE [proc EXCEPT !.task = Start(Pending), !.pc = "round"]
  /\ UNCHANGED <<file, saved, launches, crashes>>

-----------------------------------------------------------------------------
(***************************************************************************)
(* A round: the coroutines interleave wherever they wait.                  *)
(***************************************************************************)

\* The semaphore is held until the hints are there or the attempts are spent.
Acquire(i) ==
  /\ At("round") /\ proc.task[i] = "waiting" /\ Cardinality(In("calling")) < BatchSize
  /\ proc' = [proc EXCEPT !.task[i] = "calling", !.tries[i] = 0]
  /\ UNCHANGED <<file, saved, launches, crashes>>

\* Responses: hints in the format the prompt asks for, hints with a sixth one,
\* anything that is not hints, and an API error.
Responses == {"five", "six", "unusable", "error"}

\* parse_hints_response asks for five hints and validates six: without the
\* sixth it raises, which the caller takes for an API error.
Accepted(response) == response = "six"

\* Mutant: one result too many before the file is rewritten.
RecordLate(i, entry) ==
  LET full == proc.unsaved + 1 > SaveEvery
  IN  /\ proc' = [proc EXCEPT !.results[i] = entry,
                              !.task[i] = "done",
                              !.unsaved = @ + 1,
                              !.pc = IF full THEN (IF At("round") THEN "save" ELSE "saveFailed") ELSE @]
      /\ file' = IF full THEN "torn" ELSE file

\* save_result, with the start of the _save it may call.  No other coroutine
\* runs until that is done.
Record(i, entry) ==
  LET full == proc.unsaved + 1 >= SaveEvery
  IN  /\ proc' = [proc EXCEPT !.results[i] = entry,
                              !.task[i] = "done",
                              !.unsaved = @ + 1,
                              !.pc = IF full THEN (IF At("round") THEN "save" ELSE "saveFailed") ELSE @]
      /\ file' = IF full THEN "torn" ELSE file

\* Mutant: after the last attempt they start over.
RejectedAnew(i) ==
  /\ proc' = [proc EXCEPT !.tries[i] = IF @ + 1 < Attempts THEN @ + 1 ELSE 0]
  /\ UNCHANGED file

\* A failure is counted, and after the last attempt the problem is queued for
\* the next round.
Rejected(i) ==
  /\ proc' = [proc EXCEPT !.tries[i] = @ + 1,
                          !.task[i] = IF proc.tries[i] + 1 < Attempts THEN "calling" ELSE "failed"]
  /\ UNCHANGED file

Respond(i, response) ==
  /\ At("round") /\ proc.task[i] = "calling"
  /\ IF Accepted(response) THEN Record(i, "hints") ELSE Rejected(i)
  /\ UNCHANGED <<saved, launches, crashes>>

Save ==
  /\ At("save") \/ At("saveFailed")
  /\ Written
  /\ proc' = [proc EXCEPT !.unsaved = 0, !.pc = IF At("save") THEN "round" ELSE "giveUp"]
  /\ UNCHANGED <<launches, crashes>>

\* Mutant: the last round's failures are not written down.
EndRoundSilently ==
  /\ At("round") /\ In("waiting") = {} /\ In("calling") = {}
  /\ proc' = IF In("failed") # {} /\ proc.round < Rounds
             THEN [proc EXCEPT !.round = @ + 1, !.task = Start(In("failed"))]
             ELSE [proc EXCEPT !.pc = "finalize"]
  /\ UNCHANGED <<file, saved, launches, crashes>>

\* gather returns when every coroutine has.
EndRound ==
  /\ At("round") /\ In("waiting") = {} /\ In("calling") = {}
  /\ proc' = IF In("failed") = {} THEN [proc EXCEPT !.pc = "finalize"]
             ELSE IF proc.round < Rounds
             THEN [proc EXCEPT !.round = @ + 1, !.task = Start(In("failed"))]
             ELSE [proc EXCEPT !.pc = "giveUp"]
  /\ UNCHANGED <<file, saved, launches, crashes>>

-----------------------------------------------------------------------------
(***************************************************************************)
(* The end of a launch.                                                    *)
(***************************************************************************)
GiveUp(i) ==
  /\ At("giveUp") /\ proc.task[i] = "failed"
  /\ Record(i, "failed")
  /\ UNCHANGED <<saved, launches, crashes>>

Finalize ==
  /\ At("finalize") \/ (At("giveUp") /\ In("failed") = {})
  /\ file' = "torn" /\ Goto("close")
  /\ UNCHANGED <<saved, launches, crashes>>

Close ==
  /\ At("close") /\ Written /\ Goto("returned")
  /\ UNCHANGED <<launches, crashes>>

Crash ==
  /\ Running /\ crashes < MaxCrashes
  /\ crashes' = crashes + 1 /\ proc' = Idle
  /\ UNCHANGED <<file, saved, launches>>

Work ==
  \/ Open \/ Create \/ Plan \/ Save \/ EndRound \/ Finalize \/ Close
  \/ \E i \in Problems :
       Acquire(i) \/ GiveUp(i) \/ \E response \in Responses : Respond(i, response)

Next ==
  \/ \E size \in Sizes, limit \in Limits, resume \in BOOLEAN : Launch(size, limit, resume)
  \/ Work \/ Crash

\* A launch that is not killed goes on: calls are answered in the end, and a
\* rate limit is not for ever.
Spec == Init /\ [][Next]_vars /\ WF_vars(Work)

-----------------------------------------------------------------------------
Process == [
  pc      : {"open", "create", "plan", "round", "save", "giveUp", "saveFailed",
             "finalize", "close", "returned"},
  size    : Sizes,
  limit   : Limits,
  round   : 1..Rounds,
  results : [Problems -> Entry],
  unsaved : 0..SaveEvery,          \* unsaved_count
  task    : [Problems -> Stage],
  tries   : [Problems -> 0..Attempts]]

\* The type invariant.
TypeOK ==
  /\ file \in {"missing", "torn", "whole"} /\ saved \in [Problems -> Entry]
  /\ proc \in {Idle} \union Process
  /\ launches \in 0..MaxLaunches /\ crashes \in 0..MaxCrashes

\* What a kill costs.  Outside a rewrite of the file it is less than --save-every
\* results, whatever the order the answers came in: fewer than that are in
\* memory and not in the file.  A rewrite begins by emptying the file, so within
\* one it is everything, the results of earlier launches included: what is left
\* does not parse, and ends every launch that would take it up.
Unsaved == {i \in Problems :
  proc.results[i] \in {"hints", "failed"} /\ proc.results[i] # saved[i]}
Rewriting == proc.pc \in {"create", "save", "saveFailed", "close"}
CostOfAKill ==
  Running /\ ~At("open") =>
    IF Rewriting THEN file = "torn"
    ELSE file = "whole" /\ Cardinality(Unsaved) < SaveEvery

\* Hints that are in the file stay there, through failures of other problems,
\* kills and inputs that have grown, unless --no-resume asks for a new file.
KeepsHints ==
  \A i \in Problems : saved[i] = "hints" => saved'[i] = "hints" \/ saved' = Nothing
HintsAreKept == [][KeepsHints]_saved

\* A launch that returns leaves hints for every problem it was given, or an
\* entry that says they failed where it was itself refused on every attempt of
\* every round, whatever an earlier launch had found.
AllAttempted ==
  At("returned") =>
    /\ file = "whole"
    /\ \A i \in Problems : i <= proc.size /\ i <= proc.limit =>
         \/ saved[i] = "hints"
         \/ /\ saved[i] = "failed" /\ proc.task[i] = "done"
            /\ proc.round = Rounds /\ proc.tries[i] = Attempts

\* Every launch comes to an end: no coroutine holds the semaphore for ever.
LaunchesEnd == At("open") ~> ~Running
=============================================================================
