-------------------------- MODULE DatasetRunProofs --------------------------
(***************************************************************************)
(* What holds of a dataset file whatever its size, its batches and the     *)
(* number of its launches.                                                 *)
(***************************************************************************)
EXTENDS DatasetRun, FiniteSetTheorems, TLAPS

USE DatasetAssumption

\* Why a launch samples a prompt.
Asked(i) ==
  \/ saved[i] = None
  \/ proc.opts.incorrect /\ Wrong(saved[i])
  \/ proc.opts.truncated /\ Cut(saved[i])

\* Between a save and the next call of the generator memory is the file.
MemoryIsSaved ==
  proc.pc \in {"retry", "generate", "final", "rewrite", "returned"} => proc.records = saved

\* While a save is under way memory is the file but for what was asked for.
MemoryDiffersWhereAsked ==
  At("write") => \A i \in Prompts :
    \/ proc.records[i] = saved[i]
    \/ i \notin proc.todo /\ Asked(i) /\ proc.records[i] # None

\* What is still to do was asked for; what is not has its record.
TodoIsAsked ==
  /\ At("retry") => proc.opts.truncated
  /\ At("generate") => \A i \in proc.todo : Asked(i)
  /\ At("write") => \A i \in proc.todo : Asked(i) /\ proc.records[i] = saved[i]

OthersAreDone ==
  /\ proc.pc \in {"generate", "write"} =>
       \A i \in Prompts \ proc.todo : proc.records[i] # None
  /\ proc.pc \in {"retry", "final", "rewrite", "returned"} =>
       \A i \in Prompts : proc.records[i] # None
  /\ At("write") /\ proc.opts.async => proc.todo = {}

MissingIsEmpty == file = "missing" => saved = NoRecords

Inv ==
  /\ TypeOK /\ MissingIsEmpty /\ FinishedRun
  /\ MemoryIsSaved /\ MemoryDiffersWhereAsked /\ TodoIsAsked /\ OthersAreDone

\* The seeds of the records that the current launch drew.
Below(r, bound) == r # None /\ r.launch = launches => r.seed < bound

FirstSeed(a) == a * SeedStep

SeedsBelow ==
  /\ \A i \in Prompts : saved[i] # None => saved[i].launch <= launches
  /\ proc.pc \in {"read", "retry"} =>
       \A i \in Prompts : Below(saved[i], FirstSeed(proc.attempt))
  /\ proc.pc \in {"generate", "write"} =>
       \A i \in proc.todo : Below(saved[i], FirstSeed(proc.attempt))
  /\ proc.pc \in {"generate", "write", "final", "rewrite"} =>
       \A i \in Prompts : Below(saved[i], FirstSeed(proc.attempt + 1))
  /\ At("write") => \A i \in Prompts :
       \/ proc.records[i] = saved[i]
       \/ /\ Below(saved[i], FirstSeed(proc.attempt))
          /\ proc.records[i].launch = launches
          /\ FirstSeed(proc.attempt) <= proc.records[i].seed
          /\ proc.records[i].seed < FirstSeed(proc.attempt + 1)
-----------------------------------------------------------------------------
\* A prompt's place among those to do is less than the number of prompts.
LEMMA PositionBound ==
  ASSUME proc.todo \subseteq Prompts, NEW i \in Prompts
  PROVE  Position(i) \in Nat /\ Position(i) < NumPrompts
<1> DEFINE before == {j \in proc.todo : j < i}
<1>1. before \subseteq 1..(i-1)
  BY DEF Prompts
<1>2. IsFiniteSet(1..(i-1)) /\ Cardinality(1..(i-1)) = i-1
  BY FS_Interval DEF Prompts
<1>3. IsFiniteSet(before) /\ Cardinality(before) <= i-1
  BY <1>1, <1>2, FS_Subset
<1>4. Cardinality(before) \in Nat
  BY <1>3, FS_CardinalityType
<1> QED  BY <1>3, <1>4 DEF Position, Prompts

LEMMA Awake == TypeOK /\ ~At("idle") => proc \in Process
BY DEF TypeOK, At, Idle

LEMMA SeedType ==
  ASSUME TypeOK, At("generate"), NEW i \in Prompts, NEW own \in BOOLEAN
  PROVE  Seed(i, own) \in Nat
<1>1. Position(i) \in Nat
  BY PositionBound, Awake DEF At, Process
<1>2. proc.attempt \in Nat
  BY Awake DEF At, Process
<1>3. proc.attempt * SeedStep \in Nat
  BY <1>2
<1> QED  BY <1>1, <1>3 DEF Seed

\* What a call of the generator leaves in memory.
LEMMA RecordedType ==
  ASSUME TypeOK, At("generate"), NEW s \in [Batch -> Samples], NEW own \in BOOLEAN, NEW i \in Batch
  PROVE  Recorded(i, s[i], own) \in Record /\ Recorded(i, s[i], own) # None
<1>1. i \in Prompts
  BY Awake DEF Batch, At, Process
<1>2. Seed(i, own) \in Nat
  BY <1>1, SeedType
<1>3. s[i] \in Sample
  OBVIOUS
<1>4. launches \in Nat
  BY DEF TypeOK
<1> QED  BY <1>2, <1>3, <1>4 DEF Recorded, Record, Sample, None

LEMMA TypeInit == Init => TypeOK
BY DEF Init, TypeOK, Records, NoRecords

LEMMA TypeNext == TypeOK /\ [Next]_vars => TypeOK'
<1> SUFFICES ASSUME TypeOK, [Next]_vars
             PROVE  TypeOK'
  OBVIOUS
<1> USE DEF TypeOK, At, Goto
<1>1. ASSUME NEW o \in Options, Launch(o)
      PROVE  TypeOK'
  BY <1>1 DEF Launch, Running, NoRecords, Records, Process
<1>2. CASE Read
  <2>1. proc \in Process
    BY <1>2, Awake DEF Read
  <2>2. Remaining \in SUBSET Prompts
    BY DEF Remaining
  <2>3. CASE file = "torn"
    BY <1>2, <2>3 DEF Read
  <2>4. CASE file # "torn"
    BY <1>2, <2>1, <2>2, <2>4 DEF Read, Process
  <2> QED  BY <2>3, <2>4
<1>3. CASE Retry
  <2>1. proc \in Process
    BY <1>3, Awake DEF Retry
  <2> QED  BY <1>3, <2>1 DEF Retry, Process
<1>4. CASE Generate
  <2>1. PICK s \in [Batch -> Samples], own \in OwnSeeds :
          proc' = [proc EXCEPT
            !.records = [i \in Prompts |-> IF i \in Batch THEN Recorded(i, s[i], own) ELSE @[i]],
            !.todo = @ \ Batch,
            !.pc = "write"]
    BY <1>4 DEF Generate
  <2>2. \A i \in Batch : Recorded(i, s[i], own) \in Record
    BY <1>4, RecordedType DEF Generate, OwnSeeds
  <2>3. proc \in Process
    BY <1>4, Awake DEF Generate
  <2>4. [i \in Prompts |-> IF i \in Batch THEN Recorded(i, s[i], own) ELSE proc.records[i]] \in Records
    BY <2>2, <2>3 DEF Records, Process
  <2> QED  BY <1>4, <2>1, <2>3, <2>4 DEF Generate, Process
<1>5. ASSUME Save, NextAttempt, ~At("idle"), UNCHANGED <<launches, crashes>>
      PROVE  TypeOK'
  <2>1. proc \in Process
    BY <1>5, Awake
  <2>2. proc' \in Process
    <3>1. CASE proc' = [proc EXCEPT !.pc = "returned"]
      BY <2>1, <3>1 DEF Process
    <3>2. CASE /\ proc.attempt < MaxRetries
               /\ \E place \in {"retry", "read"} :
                    proc' = [proc EXCEPT !.attempt = @ + 1, !.pc = place]
      <4>1. proc.attempt + 1 \in 0..MaxRetries
        BY <2>1, <3>2 DEF Process
      <4> QED  BY <2>1, <3>2, <4>1 DEF Process
    <3> QED  BY <1>5, <3>1, <3>2 DEF NextAttempt
  <2> QED  BY <1>5, <2>1, <2>2 DEF Save, Process
<1>6. CASE Write
  <2>1. CASE proc.opts.async
    BY <1>5, <1>6, <2>1 DEF Write
  <2>2. CASE ~proc.opts.async
    <3>1. proc \in Process
      BY <1>6, Awake DEF Write
    <3> QED  BY <1>6, <2>2, <3>1 DEF Write, Save, Process
  <2> QED  BY <2>1, <2>2
<1>7. CASE OpenFinal
  <2>1. proc \in Process
    BY <1>7, Awake DEF OpenFinal
  <2> QED  BY <1>7, <2>1 DEF OpenFinal, Process
<1>8. CASE Rewrite
  BY <1>5, <1>8 DEF Rewrite
<1>9. CASE Crash
  BY <1>9 DEF Crash, Running
<1>10. CASE UNCHANGED vars
  BY <1>10 DEF vars
<1> QED
  BY <1>1, <1>2, <1>3, <1>4, <1>6, <1>7, <1>8, <1>9, <1>10 DEF Next, Work

\* Every reachable state has its type, and a launch makes no more attempts
\* than --max-retries allows it.
THEOREM TypeCorrect == Spec => []TypeOK
BY TypeInit, TypeNext, PTL DEF Spec
-----------------------------------------------------------------------------
LEMMA InvInit == Init => Inv
BY TypeInit DEF Init, Inv, MissingIsEmpty, FinishedRun, MemoryIsSaved,
  MemoryDiffersWhereAsked, TodoIsAsked, OthersAreDone, At, Idle

LEMMA InvLaunch ==
  ASSUME Inv, TypeOK', NEW o \in Options, Launch(o)
  PROVE  Inv'
BY DEF Launch, Inv, MissingIsEmpty, FinishedRun, MemoryIsSaved,
  MemoryDiffersWhereAsked, TodoIsAsked, OthersAreDone, At

LEMMA InvRead ==
  ASSUME Inv, TypeOK', Read
  PROVE  Inv'
<1> USE DEF Inv, At
<1>1. proc \in Process
  BY Awake DEF Read
<1>2. MissingIsEmpty'
  BY DEF Read, MissingIsEmpty
<1>3. CASE file = "torn"
  BY <1>2, <1>3 DEF Read, Idle, FinishedRun, MemoryIsSaved, MemoryDiffersWhereAsked,
    TodoIsAsked, OthersAreDone
<1>4. CASE file # "torn"
  <2>1. /\ proc'.pc = IF Remaining = {} THEN "returned" ELSE "generate"
        /\ proc'.records = saved /\ proc'.todo = Remaining /\ proc'.opts = proc.opts
        /\ saved' = saved /\ file' = file
    BY <1>1, <1>4 DEF Read, Process
  <2>2. \A i \in Prompts \ Remaining : Completed(saved[i], proc.opts)
    BY DEF Remaining
  <2>3. \A i \in Remaining : Asked(i)
    BY DEF Remaining, Completed, Asked
  <2>4. TodoIsAsked'
    BY <2>1, <2>3 DEF TodoIsAsked, Asked
  <2>5. OthersAreDone'
    BY <2>1, <2>2 DEF OthersAreDone, Completed
  <2>6. ASSUME proc'.pc = "returned", NumPrompts > 0
        PROVE  file = "whole"
    <3>1. 1 \in Prompts
      BY <2>6 DEF Prompts
    <3>2. saved[1] # None
      BY <2>1, <2>2, <2>6, <3>1 DEF Completed
    <3> QED  BY <1>4, <3>1, <3>2 DEF MissingIsEmpty, NoRecords, TypeOK
  <2>7. FinishedRun'
    BY <2>1, <2>2, <2>6 DEF FinishedRun, Completed
  <2> QED  BY <1>2, <2>1, <2>4, <2>5, <2>7 DEF MemoryIsSaved, MemoryDiffersWhereAsked
<1> QED  BY <1>3, <1>4

LEMMA InvRetry ==
  ASSUME Inv, TypeOK', Retry
  PROVE  Inv'
<1> USE DEF Inv, At
<1>1. proc \in Process
  BY Awake DEF Retry
<1>2. /\ proc'.pc = "generate" /\ proc'.opts = proc.opts /\ proc'.records = proc.records
      /\ proc'.todo = {i \in Prompts : Cut(proc.records[i])}
      /\ saved' = saved /\ file' = file
  BY <1>1 DEF Retry, Process
<1>3. proc.records = saved /\ proc.opts.truncated
  BY DEF Retry, MemoryIsSaved, TodoIsAsked
<1>4. TodoIsAsked'
  BY <1>2, <1>3 DEF TodoIsAsked, Asked
<1>5. OthersAreDone'
  BY <1>2 DEF OthersAreDone, Retry
<1> QED  BY <1>2, <1>3, <1>4, <1>5 DEF MissingIsEmpty, FinishedRun, MemoryIsSaved,
  MemoryDiffersWhereAsked

LEMMA InvGenerate ==
  ASSUME Inv, TypeOK', Generate
  PROVE  Inv'
<1> USE DEF Inv, At
<1>1. proc \in Process /\ proc.pc = "generate"
  BY Awake DEF Generate
<1>2. PICK s \in [Batch -> Samples], own \in OwnSeeds :
        proc' = [proc EXCEPT
          !.records = [i \in Prompts |-> IF i \in Batch THEN Recorded(i, s[i], own) ELSE @[i]],
          !.todo = @ \ Batch,
          !.pc = "write"]
  BY DEF Generate
<1>3. /\ proc'.pc = "write" /\ proc'.opts = proc.opts /\ proc'.todo = proc.todo \ Batch
      /\ \A i \in Prompts : proc'.records[i] =
           IF i \in Batch THEN Recorded(i, s[i], own) ELSE proc.records[i]
      /\ saved' = saved /\ file' = "torn"
  BY <1>1, <1>2 DEF Generate, Process
<1>4. \A i \in Batch : Recorded(i, s[i], own) # None
  BY RecordedType DEF Generate, OwnSeeds
<1>5. Batch \subseteq proc.todo /\ proc.todo \subseteq Prompts
  BY <1>1 DEF Batch, Process
<1>6. proc.records = saved
  BY <1>1 DEF MemoryIsSaved
<1>7. \A i \in proc.todo : Asked(i)'
  BY <1>1, <1>3 DEF TodoIsAsked, Asked
<1>8. MemoryDiffersWhereAsked'
  BY <1>3, <1>4, <1>5, <1>6, <1>7 DEF MemoryDiffersWhereAsked
<1>9. TodoIsAsked'
  BY <1>3, <1>5, <1>6, <1>7 DEF TodoIsAsked
<1>10. OthersAreDone'
  <2>1. proc.opts.async => Batch = proc.todo
    BY DEF Batch
  <2> QED  BY <1>1, <1>3, <1>4, <1>5, <2>1 DEF OthersAreDone
<1> QED  BY <1>3, <1>8, <1>9, <1>10 DEF MissingIsEmpty, FinishedRun, MemoryIsSaved

\* An attempt ends with every prompt on record.
LEMMA InvNextAttempt ==
  ASSUME Inv, TypeOK', ~At("idle"), Save, NextAttempt,
         \A i \in Prompts : proc.records[i] # None
  PROVE  Inv'
<1> USE DEF Inv, At
<1>1. proc \in Process
  BY Awake
<1>2. /\ proc'.pc \in {"retry", "read", "returned"} /\ proc'.records = proc.records
      /\ proc'.opts = proc.opts
      /\ proc'.pc = "retry" => proc.opts.truncated
      /\ proc'.pc = "returned" =>
           /\ proc'.attempt = proc.attempt
           /\ \/ ~proc.opts.truncated \/ proc.attempt = MaxRetries
              \/ \A i \in Prompts : ~Cut(proc.records[i])
  <2> DEFINE again == /\ proc.opts.truncated /\ proc.attempt < MaxRetries
                      /\ \E i \in Prompts : Cut(proc.records[i])
  <2>1. CASE again
    BY <1>1, <2>1 DEF NextAttempt, Process
  <2>2. CASE ~again
    <3>1. proc' = [proc EXCEPT !.pc = "returned"]
      BY <2>2 DEF NextAttempt, Goto
    <3>2. proc.attempt \in 0..MaxRetries
      BY <1>1 DEF Process
    <3> QED  BY <1>1, <2>2, <3>1, <3>2 DEF Process
  <2> QED  BY <2>1, <2>2
<1>3. saved' = proc.records /\ file' = "whole"
  BY DEF Save
<1> QED  BY <1>2, <1>3 DEF MissingIsEmpty, FinishedRun, MemoryIsSaved,
  MemoryDiffersWhereAsked, TodoIsAsked, OthersAreDone

LEMMA InvWrite ==
  ASSUME Inv, TypeOK', Write
  PROVE  Inv'
<1> USE DEF Inv, At
<1>1. proc \in Process /\ proc.pc = "write"
  BY Awake DEF Write
<1>2. CASE proc.opts.async
  <2>1. \A i \in Prompts : proc.records[i] # None
    BY <1>1, <1>2 DEF OthersAreDone
  <2> QED  BY <1>1, <1>2, <2>1, InvNextAttempt DEF Write
<1>3. CASE ~proc.opts.async
  <2>1. /\ proc' = [proc EXCEPT !.pc = IF proc.todo = {} THEN "final" ELSE "generate"]
        /\ saved' = proc.records /\ file' = "whole"
    BY <1>3 DEF Write, Save, Goto
  <2>2. /\ proc'.pc = IF proc.todo = {} THEN "final" ELSE "generate"
        /\ proc'.records = proc.records /\ proc'.todo = proc.todo /\ proc'.opts = proc.opts
    BY <1>1, <2>1 DEF Process
  <2>3. \A i \in proc.todo : Asked(i)'
    BY <1>1, <2>1, <2>2 DEF TodoIsAsked, Asked
  <2>4. OthersAreDone'
    BY <1>1, <2>2 DEF OthersAreDone
  <2> QED  BY <2>1, <2>2, <2>3, <2>4 DEF MissingIsEmpty, FinishedRun, MemoryIsSaved,
    MemoryDiffersWhereAsked, TodoIsAsked
<1> QED  BY <1>2, <1>3

LEMMA InvOpenFinal ==
  ASSUME Inv, TypeOK', OpenFinal
  PROVE  Inv'
<1> USE DEF Inv, At
<1>1. proc \in Process
  BY Awake DEF OpenFinal
<1>2. /\ proc.pc = "final" /\ proc'.pc = "rewrite" /\ proc'.records = proc.records
      /\ file' = "torn" /\ saved' = saved
  BY <1>1 DEF OpenFinal, Goto, Process
<1> QED  BY <1>2 DEF MissingIsEmpty, FinishedRun, MemoryIsSaved, MemoryDiffersWhereAsked,
  TodoIsAsked, OthersAreDone

LEMMA InvNext == Inv /\ [Next]_vars => Inv'
<1> SUFFICES ASSUME Inv, [Next]_vars
             PROVE  Inv'
  OBVIOUS
<1>1. TypeOK'
  BY TypeNext DEF Inv
<1>2. CASE Rewrite
  BY <1>1, <1>2, InvNextAttempt DEF Rewrite, At, Inv, OthersAreDone
<1>3. CASE Crash
  BY <1>1, <1>3 DEF Crash, Inv, Idle, MissingIsEmpty, FinishedRun, MemoryIsSaved,
    MemoryDiffersWhereAsked, TodoIsAsked, OthersAreDone, At
<1>4. CASE UNCHANGED vars
  BY <1>4 DEF vars, Inv, TypeOK, MissingIsEmpty, FinishedRun, MemoryIsSaved,
    MemoryDiffersWhereAsked, TodoIsAsked, OthersAreDone, At, Asked
<1> QED
  BY <1>1, <1>2, <1>3, <1>4, InvLaunch, InvRead, InvRetry, InvGenerate, InvWrite,
    InvOpenFinal DEF Next, Work

LEMMA InvHolds == Spec => []Inv
BY InvInit, InvNext, PTL DEF Spec

\* A launch that returns has done what it was asked to, up to --max-retries.
THEOREM FinishedRunIsComplete == Spec => []FinishedRun
<1>1. Inv => FinishedRun
  BY DEF Inv
<1> QED  BY <1>1, InvHolds, PTL
\* What a save may change, seen from the memory that it writes.
LEMMA SaveChangesWhatWasAsked ==
  ASSUME Inv, [Next]_vars, saved' # saved
  PROVE  /\ At("write") /\ saved' = proc.records /\ launches' = launches
         /\ \A i \in Prompts :
              \/ proc.records[i] = saved[i]
              \/ Asked(i) /\ proc.records[i] # None
<1>1. CASE Write
  BY <1>1 DEF Write, Save, Inv, MemoryDiffersWhereAsked
<1>2. CASE Rewrite
  <2>1. proc.records = saved
    BY <1>2 DEF Rewrite, At, Inv, MemoryIsSaved
  <2> QED  BY <1>2, <2>1 DEF Rewrite, Save
<1> QED
  BY <1>1, <1>2 DEF Next, Work, Launch, Read, Retry, Generate, OpenFinal, Crash, vars

\* No launch, however it is started, killed or resumed, drops a record.
THEOREM NoRecordIsLost == Spec => NothingIsLost
<1>1. Inv /\ [Next]_vars => [KeepsRecords]_saved
  BY SaveChangesWhatWasAsked DEF KeepsRecords
<1> QED  BY <1>1, InvHolds, PTL DEF Spec, NothingIsLost

\* A record is only ever replaced because a retry was asked for it.
THEOREM RecordsAreReplacedOnRequest == Spec => ReplacesOnlyWhatItRetries
<1>1. Inv /\ [Next]_vars => [ReplacesOnRequest]_saved
  BY SaveChangesWhatWasAsked DEF ReplacesOnRequest, Asked
<1> QED  BY <1>1, InvHolds, PTL DEF Spec, ReplacesOnlyWhatItRetries

-----------------------------------------------------------------------------
LEMMA SeedsBetween ==
  ASSUME NumPrompts <= SeedStep, TypeOK, At("generate"), NEW i \in Prompts, NEW own \in BOOLEAN
  PROVE  /\ FirstSeed(proc.attempt) <= Seed(i, own)
         /\ Seed(i, own) < FirstSeed(proc.attempt + 1)
<1>1. proc \in Process
  BY Awake DEF At
<1>2. Position(i) \in Nat /\ Position(i) < NumPrompts
  BY <1>1, PositionBound DEF Process
<1>3. proc.attempt \in Nat
  BY <1>1 DEF Process
<1>4. /\ proc.attempt * SeedStep \in Nat
      /\ (proc.attempt + 1) * SeedStep = proc.attempt * SeedStep + SeedStep
  BY <1>3
<1> QED  BY <1>2, <1>4 DEF Seed, FirstSeed, Prompts

LEMMA SeedsStep ==
  ASSUME NEW a \in Nat
  PROVE  /\ FirstSeed(a) \in Nat /\ FirstSeed(a + 1) \in Nat
         /\ FirstSeed(a) <= FirstSeed(a + 1)
<1>1. a * SeedStep \in Nat /\ (a + 1) * SeedStep = a * SeedStep + SeedStep
  OBVIOUS
<1> QED  BY <1>1 DEF FirstSeed
LEMMA SeedsInit == Init => SeedsBelow
BY DEF Init, SeedsBelow, At, Idle, NoRecords, None

\* After a save no record of the launch has a seed past the attempt's.
LEMMA SeedsSave ==
  ASSUME Inv, SeedsBelow, At("write") \/ At("rewrite"), Save, launches' = launches
  PROVE  /\ \A i \in Prompts : saved'[i] # None => saved'[i].launch <= launches'
         /\ \A i \in Prompts : saved'[i] # None /\ saved'[i].launch = launches
                                => saved'[i].seed < FirstSeed(proc.attempt + 1)
<1>1. \A i \in Prompts : Below(saved[i], FirstSeed(proc.attempt + 1))
  BY DEF SeedsBelow, At
<1>2. launches \in Nat
  BY DEF Inv, TypeOK
<1>3. ASSUME NEW i \in Prompts
      PROVE  /\ saved'[i] # None => saved'[i].launch <= launches
             /\ saved'[i] # None /\ saved'[i].launch = launches
                => saved'[i].seed < FirstSeed(proc.attempt + 1)
  <2>1. CASE saved'[i] = saved[i]
    BY <1>1, <2>1 DEF SeedsBelow, Below
  <2>2. CASE saved'[i] # saved[i]
    <3>1. At("write") /\ saved' = proc.records
      BY <2>2 DEF Save, Inv, MemoryIsSaved, At
    <3>2. /\ proc.records[i].launch = launches
          /\ proc.records[i].seed < FirstSeed(proc.attempt + 1)
      BY <2>2, <3>1 DEF SeedsBelow
    <3> QED  BY <1>2, <3>1, <3>2
  <2> QED  BY <2>1, <2>2
<1> QED  BY <1>1, <1>3 DEF Below

LEMMA SeedsNextAttempt ==
  ASSUME Inv, SeedsBelow, (Write /\ proc.opts.async) \/ Rewrite
  PROVE  SeedsBelow'
<1> USE DEF At
<1>1. proc \in Process
  BY Awake DEF Write, Rewrite, Inv
<1>2. proc.attempt \in Nat
  BY <1>1 DEF Process
<1>3. Save /\ NextAttempt /\ launches' = launches
  BY DEF Write, Rewrite
<1>4. \A i \in Prompts :
        /\ saved'[i] # None => saved'[i].launch <= launches'
        /\ saved'[i] # None /\ saved'[i].launch = launches
           => saved'[i].seed < FirstSeed(proc.attempt + 1)
  BY <1>3, SeedsSave DEF Write, Rewrite
<1>5. CASE proc' = [proc EXCEPT !.pc = "returned"]
  BY <1>1, <1>4, <1>5 DEF SeedsBelow, Process
<1>6. CASE \E place \in {"retry", "read"} :
             proc' = [proc EXCEPT !.attempt = @ + 1, !.pc = place]
  <2>1. proc'.pc \in {"retry", "read"} /\ proc'.attempt = proc.attempt + 1
    BY <1>1, <1>6 DEF Process
  <2> QED  BY <1>3, <1>4, <2>1 DEF SeedsBelow, Below
<1> QED  BY <1>3, <1>5, <1>6 DEF NextAttempt, Goto

LEMMA SeedsGenerate ==
  ASSUME NumPrompts <= SeedStep, Inv, SeedsBelow, Generate
  PROVE  SeedsBelow'
<1> USE DEF At
<1>1. proc \in Process /\ proc.pc = "generate"
  BY Awake DEF Generate, Inv
<1>2. PICK s \in [Batch -> Samples], own \in OwnSeeds :
        proc' = [proc EXCEPT
          !.records = [i \in Prompts |-> IF i \in Batch THEN Recorded(i, s[i], own) ELSE @[i]],
          !.todo = @ \ Batch,
          !.pc = "write"]
  BY DEF Generate
<1>3. /\ proc'.pc = "write" /\ proc'.attempt = proc.attempt
      /\ proc'.todo = proc.todo \ Batch
      /\ \A i \in Prompts : proc'.records[i] =
           IF i \in Batch THEN Recorded(i, s[i], own) ELSE proc.records[i]
      /\ saved' = saved /\ launches' = launches
  BY <1>1, <1>2 DEF Generate, Process
<1>4. Batch \subseteq proc.todo
  BY DEF Batch
<1>5. proc.records = saved
  BY <1>1 DEF Inv, MemoryIsSaved
<1>6. ASSUME NEW i \in Prompts
      PROVE  \/ proc'.records[i] = saved[i]
             \/ /\ Below(saved[i], FirstSeed(proc.attempt))
                /\ proc'.records[i].launch = launches
                /\ FirstSeed(proc.attempt) <= proc'.records[i].seed
                /\ proc'.records[i].seed < FirstSeed(proc.attempt + 1)
  <2>1. CASE i \in Batch
    <3>1. proc'.records[i] = Recorded(i, s[i], own)
      BY <1>3, <2>1
    <3>2. proc'.records[i].launch = launches /\ proc'.records[i].seed = Seed(i, own)
      BY <3>1 DEF Recorded
    <3>3. Below(saved[i], FirstSeed(proc.attempt))
      BY <1>1, <1>4, <2>1 DEF SeedsBelow
    <3> QED  BY <1>1, <3>2, <3>3, SeedsBetween DEF Inv, OwnSeeds
  <2>2. CASE i \notin Batch
    BY <1>3, <1>5, <2>2
  <2> QED  BY <2>1, <2>2
<1>7. /\ \A i \in Prompts : saved[i] # None => saved[i].launch <= launches
      /\ \A i \in proc.todo : Below(saved[i], FirstSeed(proc.attempt))
      /\ \A i \in Prompts : Below(saved[i], FirstSeed(proc.attempt + 1))
  BY <1>1 DEF SeedsBelow
<1> QED  BY <1>3, <1>6, <1>7 DEF SeedsBelow, Below

LEMMA SeedsNext ==
  ASSUME NumPrompts <= SeedStep, Inv, SeedsBelow, [Next]_vars
  PROVE  SeedsBelow'
<1> USE DEF At
<1>1. ASSUME NEW o \in Options, Launch(o)
      PROVE  SeedsBelow'
  <2>1. \A i \in Prompts : saved[i] # None => saved[i] \in Record
    BY DEF Inv, TypeOK, Records
  <2>2. \A i \in Prompts : saved[i] # None => saved[i].launch < launches + 1
    BY <2>1 DEF SeedsBelow, Record, Inv, TypeOK
  <2>3. proc'.pc = "read" /\ saved' = saved /\ launches' = launches + 1
    BY <1>1 DEF Launch
  <2>4. launches \in Nat
    BY DEF Inv, TypeOK
  <2>5. \A i \in Prompts : saved'[i] # None =>
          saved'[i].launch <= launches' /\ saved'[i].launch # launches'
    BY <2>1, <2>2, <2>3, <2>4 DEF Record
  <2> QED  BY <2>3, <2>5 DEF SeedsBelow, Below
<1>2. CASE Read \/ Retry
  <2>1. proc \in Process /\ proc.pc \in {"read", "retry"}
    BY <1>2, Awake DEF Read, Retry, Inv
  <2>2. proc.attempt \in Nat
    BY <2>1 DEF Process
  <2>3. \A i \in Prompts : Below(saved[i], FirstSeed(proc.attempt))
    BY <2>1 DEF SeedsBelow
  <2>4. \A i \in Prompts : Below(saved[i], FirstSeed(proc.attempt + 1))
    <3>1. \A i \in Prompts : saved[i] # None => saved[i].seed \in Nat
      BY DEF Inv, TypeOK, Records, Record
    <3> QED  BY <2>2, <2>3, <3>1, SeedsStep DEF Below
  <2>5. saved' = saved /\ launches' = launches
    BY <1>2 DEF Read, Retry
  <2>6. \/ proc'.pc = "idle"
        \/ /\ proc'.pc \in {"generate", "returned"} /\ proc'.attempt = proc.attempt
           /\ proc'.todo \subseteq Prompts
    <3>1. CASE Read
      BY <2>1, <3>1 DEF Read, Remaining, Process, Idle
    <3>2. CASE Retry
      BY <2>1, <3>2 DEF Retry, Process
    <3> QED  BY <1>2, <3>1, <3>2
  <2> QED  BY <2>3, <2>4, <2>5, <2>6 DEF SeedsBelow, Below
<1>3. CASE Write /\ ~proc.opts.async
  <2>1. proc \in Process /\ proc.pc = "write" /\ launches' = launches
    BY <1>3, Awake DEF Write, Inv
  <2>2. /\ proc'.pc \in {"final", "generate"} /\ proc'.attempt = proc.attempt
        /\ proc'.todo = proc.todo /\ saved' = proc.records
    BY <1>3, <2>1 DEF Write, Save, Goto, Process
  <2>3. \A i \in proc.todo : proc.records[i] = saved[i]
    BY <2>1 DEF Inv, TodoIsAsked
  <2>4. \A i \in proc.todo : Below(saved[i], FirstSeed(proc.attempt))
    BY <2>1 DEF SeedsBelow
  <2>5. \A i \in Prompts :
          /\ saved'[i] # None => saved'[i].launch <= launches'
          /\ saved'[i] # None /\ saved'[i].launch = launches
             => saved'[i].seed < FirstSeed(proc.attempt + 1)
    BY <1>3, SeedsSave DEF Write
  <2> QED  BY <2>1, <2>2, <2>3, <2>4, <2>5 DEF SeedsBelow, Below
<1>4. CASE OpenFinal
  <2>1. proc \in Process
    BY <1>4, Awake DEF OpenFinal, Inv
  <2>2. /\ proc.pc = "final" /\ proc'.pc = "rewrite" /\ proc'.attempt = proc.attempt
        /\ saved' = saved /\ launches' = launches
    BY <1>4, <2>1 DEF OpenFinal, Goto, Process
  <2> QED  BY <2>2 DEF SeedsBelow, Below
<1>5. CASE Crash
  BY <1>5 DEF Crash, Idle, SeedsBelow
<1>6. CASE UNCHANGED vars
  BY <1>6 DEF vars, SeedsBelow, Below
<1> QED
  BY <1>1, <1>2, <1>3, <1>4, <1>5, <1>6, SeedsGenerate, SeedsNextAttempt DEF Next, Work

\* A launch draws no prompt twice from one seed, as long as --seed's step
\* between attempts is no less than the number of prompts.
THEOREM AttemptsDrawAnew ==
  ASSUME NumPrompts <= SeedStep
  PROVE  Spec => RetriesDrawAnew
<1>1. Inv /\ SeedsBelow /\ [Next]_vars => [SeedsGoUp]_saved
  <2> SUFFICES ASSUME Inv, SeedsBelow, [Next]_vars, saved' # saved
               PROVE  SeedsGoUp
    OBVIOUS
  <2>1. At("write") /\ saved' = proc.records
    BY SaveChangesWhatWasAsked
  <2>2. proc \in Process
    BY <2>1, Awake DEF Inv, At
  <2>3. FirstSeed(proc.attempt) \in Nat
    BY <2>2, SeedsStep DEF Process
  <2>4. \A i \in Prompts : /\ saved[i] # None => saved[i].seed \in Nat
                           /\ proc.records[i] # None => proc.records[i].seed \in Nat
    BY <2>2 DEF Inv, TypeOK, Process, Records, Record
  <2>5. \A i \in Prompts : proc.records[i] = saved[i] \/ proc.records[i] # None
    BY SaveChangesWhatWasAsked
  <2> QED  BY <2>1, <2>3, <2>4, <2>5 DEF SeedsBelow, SeedsGoUp, Below
<1>2. Inv /\ SeedsBelow /\ [Next]_vars => SeedsBelow'
  BY SeedsNext
<1> QED  BY <1>1, <1>2, SeedsInit, InvHolds, PTL DEF Spec, RetriesDrawAnew

-----------------------------------------------------------------------------
(***************************************************************************)
(* How long a launch may go on.  An attempt takes at most two steps for    *)
(* every prompt it samples, and four more.                                 *)
(***************************************************************************)
AttemptSteps == 2 * NumPrompts + 4

PhaseSteps ==
  CASE At("read") \/ At("retry") -> AttemptSteps
    [] At("generate") -> 2 * Cardinality(proc.todo) + 3
    [] At("write")    -> 2 * Cardinality(proc.todo) + 4
    [] At("final")    -> 2
    [] At("rewrite")  -> 1
    [] OTHER          -> 0

StepsLeft ==
  IF Running THEN (MaxRetries - proc.attempt) * AttemptSteps + PhaseSteps ELSE 0

ComesNearer == StepsLeft' \in Nat /\ StepsLeft' < StepsLeft

\* The generator is called for somebody: no attempt spins over an empty batch.
SomethingToDo ==
  /\ At("generate") => proc.todo # {}
  /\ At("retry") => \E i \in Prompts : Cut(proc.records[i])

LEMMA PhaseIs ==
  /\ At("read") \/ At("retry") => PhaseSteps = AttemptSteps
  /\ At("generate") => PhaseSteps = 2 * Cardinality(proc.todo) + 3
  /\ At("write") => PhaseSteps = 2 * Cardinality(proc.todo) + 4
  /\ At("final") => PhaseSteps = 2
  /\ At("rewrite") => PhaseSteps = 1
BY DEF PhaseSteps, At

LEMMA TodoIsFinite ==
  ASSUME NEW S \in SUBSET Prompts
  PROVE  /\ IsFiniteSet(S) /\ Cardinality(S) \in Nat /\ Cardinality(S) <= NumPrompts
         /\ Cardinality(S) = 0 <=> S = {}
<1>1. IsFiniteSet(Prompts) /\ Cardinality(Prompts) = NumPrompts
  BY FS_Interval DEF Prompts
<1>2. IsFiniteSet(S) /\ Cardinality(S) <= NumPrompts
  BY <1>1, FS_Subset
<1> QED BY <1>2, FS_CardinalityType, FS_EmptySet

\* What is true while a launch runs, of it and of its measure.
LEMMA RunningFacts ==
  ASSUME TypeOK, Running
  PROVE  /\ proc \in Process /\ proc.attempt \in 0..MaxRetries
         /\ PhaseSteps \in Nat /\ PhaseSteps >= 1
         /\ At("read") \/ At("retry") \/ At("generate") \/ At("write") \/ At("final")
            \/ At("rewrite")
<1>1. proc \in Process
  BY Awake DEF Running
<1>2. /\ proc.attempt \in 0..MaxRetries /\ proc.todo \in SUBSET Prompts
      /\ At("read") \/ At("retry") \/ At("generate") \/ At("write") \/ At("final")
         \/ At("rewrite")
  BY <1>1 DEF Process, Running, At
<1>3. Cardinality(proc.todo) \in Nat
  BY <1>2, TodoIsFinite
<1>4. AttemptSteps \in Nat /\ AttemptSteps >= 1
  BY DEF AttemptSteps
<1>5. PhaseSteps \in Nat /\ PhaseSteps >= 1
  BY <1>2, <1>3, <1>4, PhaseIs
<1> QED BY <1>1, <1>2, <1>5

Measured == Running => PhaseSteps \in Nat

LEMMA AttemptsOutweigh ==
  ASSUME NEW m \in Nat, NEW a \in Nat, NEW w \in Nat, a <= m
  PROVE  /\ (m - a) * w \in Nat
         /\ a < m => (m - a) * w = (m - (a + 1)) * w + w
<1> DEFINE d == m - a
<1>1. d \in Nat /\ d * w \in Nat
  OBVIOUS
<1>2. ASSUME a < m PROVE d * w = (m - (a + 1)) * w + w
  <2> DEFINE e == m - (a + 1)
  <2>1. e \in Nat /\ d = e + 1
    BY <1>2
  <2> HIDE DEF d, e
  <2>2. d * w = e * w + w
    BY <2>1
  <2> QED BY <2>2 DEF e
<1> QED BY <1>1, <1>2

\* Within an attempt: the next place is nearer to its end.
WithinAttempt ==
  /\ Running /\ proc'.attempt = proc.attempt /\ Running'
  /\ PhaseSteps' < PhaseSteps

\* From one attempt to the next, and out of the last one.
NextOne ==
  /\ Running /\ Running' /\ proc.attempt < MaxRetries
  /\ proc'.attempt = proc.attempt + 1 /\ PhaseSteps' = AttemptSteps

LEMMA MovesNearer ==
  ASSUME TypeOK, Measured', WithinAttempt \/ NextOne \/ (Running /\ ~Running')
  PROVE  ComesNearer
<1> DEFINE w == AttemptSteps
           a == proc.attempt
           p == PhaseSteps
           q == PhaseSteps'
<1>1. /\ a \in Nat /\ a <= MaxRetries /\ p \in Nat /\ p >= 1
      /\ StepsLeft = (MaxRetries - a) * w + p
  BY RunningFacts DEF WithinAttempt, NextOne, StepsLeft
<1>2. w \in Nat
  BY DEF AttemptSteps
<1> HIDE DEF w, a, p
<1>3. /\ (MaxRetries - a) * w \in Nat
      /\ a < MaxRetries => (MaxRetries - a) * w = (MaxRetries - (a + 1)) * w + w
  BY <1>1, <1>2, AttemptsOutweigh
<1>4. CASE WithinAttempt
  <2>1. q \in Nat
    BY <1>4 DEF WithinAttempt, Measured
  <2>2. StepsLeft' = (MaxRetries - a) * w + q /\ q < p
    BY <1>4 DEF WithinAttempt, StepsLeft, a, w, p
  <2> HIDE DEF q
  <2>3. StepsLeft' \in Nat /\ StepsLeft' < StepsLeft
    BY <1>1, <1>3, <2>1, <2>2
  <2> QED BY <2>3 DEF ComesNearer
<1>5. CASE NextOne
  <2>1. StepsLeft' = (MaxRetries - (a + 1)) * w + w /\ a < MaxRetries
    BY <1>5 DEF NextOne, StepsLeft, a, w
  <2>2. StepsLeft' \in Nat /\ StepsLeft' < StepsLeft
    BY <1>1, <1>3, <2>1
  <2> QED BY <2>2 DEF ComesNearer
<1>6. CASE Running /\ ~Running'
  <2>1. StepsLeft' = 0
    BY <1>6 DEF StepsLeft
  <2>2. StepsLeft >= 1
    BY <1>1, <1>3
  <2> QED BY <1>1, <1>3, <2>1, <2>2 DEF ComesNearer
<1> QED BY <1>4, <1>5, <1>6

\* The end of an attempt is the beginning of the next one, or of nothing.
LEMMA NextAttemptIs ==
  ASSUME TypeOK, Running, NextAttempt
  PROVE  NextOne \/ ~Running'
<1>1. proc \in Process
  BY RunningFacts
<1>2. CASE proc' = [proc EXCEPT !.pc = "returned"]
  BY <1>1, <1>2 DEF Process, Running, At
<1>3. CASE /\ proc.attempt < MaxRetries
           /\ \E place \in {"retry", "read"} :
                proc' = [proc EXCEPT !.attempt = @ + 1, !.pc = place]
  <2>1. proc'.attempt = proc.attempt + 1 /\ proc'.pc \in {"retry", "read"}
    BY <1>1, <1>3 DEF Process
  <2>2. Running' /\ PhaseSteps' = AttemptSteps
    BY <2>1 DEF Running, At, PhaseSteps
  <2> QED BY <1>3, <2>1, <2>2 DEF NextOne
<1> QED BY <1>2, <1>3 DEF NextAttempt, Goto

\* A call takes at least one prompt.  (What comes before a prompt shrinks with
\* it, and strict inclusion is well founded on the subsets of a finite set.)
LEMMA BatchIsSome ==
  ASSUME proc.todo \in SUBSET Prompts, proc.todo # {}
  PROVE  Batch # {} /\ Batch \subseteq proc.todo
<1> DEFINE S == proc.todo
           Before(i) == {j \in S : j < i}
           Heads == {Before(i) : i \in S}
           R == StrictSubsetOrdering(S)
<1>1. IsFiniteSet(S) /\ S \subseteq Int
  BY TodoIsFinite DEF Prompts
<1>2. IsWellFoundedOn(R, SUBSET S)
  BY <1>1, FS_FiniteSubsetsOfFinite, FS_StrictSubsetOrderingWellFounded
<1>3. Heads \subseteq SUBSET S /\ Heads # {}
  OBVIOUS
<1>4. PICK a \in Heads : \A b \in Heads : ~(<<b, a>> \in R)
  <2> HIDE DEF R, Heads
  <2> QED BY <1>2, <1>3, WFMin
<1>5. PICK i \in S : a = Before(i)
  BY <1>4
<1>6. ASSUME NEW j \in S, j < i PROVE FALSE
  <2>1. Before(j) \subseteq Before(i)
    BY <1>1, <1>6
  <2>2. j \in Before(i) /\ j \notin Before(j)
    BY <1>1, <1>6
  <2>3. <<Before(j), Before(i)>> \in R
    BY <2>1, <2>2 DEF StrictSubsetOrdering
  <2> QED BY <1>4, <1>5, <2>3
<1>7. {j \in proc.todo : j < i} = {}
  BY <1>6
<1>8. Position(i) = 0
  BY <1>7, FS_EmptySet DEF Position
<1>9. 0 < BatchSize
  OBVIOUS
<1>10. i \in Batch
  BY <1>8, <1>9 DEF Batch
<1> QED BY <1>10 DEF Batch

\* So a call leaves fewer to do, by enough to pay for the save.
LEMMA GenerateNearer ==
  ASSUME TypeOK, SomethingToDo, Generate
  PROVE  WithinAttempt
<1>1. At("generate") /\ Running
  BY DEF Generate, Running, At
<1>2. proc \in Process /\ proc.todo \in SUBSET Prompts
  BY <1>1, RunningFacts DEF Process
<1>3. PICK f : proc' = [proc EXCEPT !.records = f, !.todo = @ \ Batch, !.pc = "write"]
  BY DEF Generate
<1>4. proc'.todo = proc.todo \ Batch /\ proc'.pc = "write" /\ proc'.attempt = proc.attempt
  BY <1>2, <1>3 DEF Process
<1>5. Batch # {} /\ Batch \subseteq proc.todo
  BY <1>1, <1>2, BatchIsSome DEF SomethingToDo
<1> DEFINE k == Cardinality(proc.todo)
           l == Cardinality(proc'.todo)
<1>6. k \in Nat /\ l \in Nat /\ l < k
  <2>1. IsFiniteSet(proc.todo) /\ k \in Nat
    BY <1>2, TodoIsFinite
  <2>2. proc'.todo \in SUBSET proc.todo /\ proc'.todo # proc.todo
    BY <1>4, <1>5
  <2>3. IsFiniteSet(proc'.todo) /\ l <= k /\ (k = l => proc.todo = proc'.todo)
    BY <2>1, <2>2, FS_Subset
  <2>4. l \in Nat
    BY <2>3, FS_CardinalityType
  <2> QED BY <2>1, <2>2, <2>3, <2>4
<1>7. PhaseSteps = 2 * k + 3 /\ PhaseSteps' = 2 * l + 4
  BY <1>1, <1>4 DEF PhaseSteps, At
<1> HIDE DEF k, l
<1>8. PhaseSteps' < PhaseSteps
  BY <1>6, <1>7
<1>9. Running'
  BY <1>4 DEF Running, At
<1> QED BY <1>1, <1>4, <1>8, <1>9 DEF WithinAttempt

\* Reading, or taking from memory, what is to be done.
LEMMA TodoNearer ==
  ASSUME TypeOK, At("read") \/ At("retry"), proc'.pc = "generate",
         proc'.attempt = proc.attempt, proc'.todo \in SUBSET Prompts
  PROVE  WithinAttempt
<1> DEFINE l == Cardinality(proc'.todo)
<1>1. l \in Nat /\ l <= NumPrompts
  BY TodoIsFinite
<1>2. PhaseSteps = 2 * NumPrompts + 4 /\ PhaseSteps' = 2 * l + 3
  BY DEF PhaseSteps, At, AttemptSteps
<1> HIDE DEF l
<1>3. PhaseSteps' < PhaseSteps
  BY <1>1, <1>2
<1>4. Running /\ Running'
  BY DEF Running, At
<1> QED BY <1>3, <1>4 DEF WithinAttempt

\* A save on the way: to the next batch, or to the last save.
LEMMA WriteNearer ==
  ASSUME TypeOK, At("write"), proc'.attempt = proc.attempt, proc'.todo = proc.todo,
         proc'.pc = IF proc.todo = {} THEN "final" ELSE "generate"
  PROVE  WithinAttempt
<1> DEFINE k == Cardinality(proc.todo)
<1>1. Running /\ Running'
  BY DEF Running, At
<1>2. k \in Nat
  BY <1>1, RunningFacts, TodoIsFinite DEF Process
<1>3. PhaseSteps = 2 * k + 4
  BY DEF PhaseSteps, At
<1>4. PhaseSteps' = IF proc.todo = {} THEN 2 ELSE 2 * k + 3
  BY DEF PhaseSteps, At
<1> HIDE DEF k
<1>5. PhaseSteps' < PhaseSteps
  BY <1>2, <1>3, <1>4
<1> QED BY <1>1, <1>5 DEF WithinAttempt

\* Every step of a launch is one of the moves above.
LEMMA WorkIsNearer ==
  ASSUME TypeOK, SomethingToDo, Work \/ Crash
  PROVE  WithinAttempt \/ NextOne \/ (Running /\ ~Running')
<1>1. CASE Read
  <2>1. Running /\ At("read")
    BY <1>1 DEF Read, Running, At
  <2>2. proc \in Process
    BY <2>1, RunningFacts
  <2>3. CASE file = "torn" \/ Remaining = {}
    <3>1. proc'.pc \in {"idle", "returned"}
      BY <1>1, <2>2, <2>3 DEF Read, Process, Idle
    <3> QED BY <2>1, <3>1 DEF Running, At
  <2>4. CASE file # "torn" /\ Remaining # {}
    <3>1. /\ proc'.pc = "generate" /\ proc'.attempt = proc.attempt
          /\ proc'.todo = Remaining
      BY <1>1, <2>2, <2>4 DEF Read, Process
    <3>2. Remaining \in SUBSET Prompts
      BY DEF Remaining
    <3> QED BY <2>1, <3>1, <3>2, TodoNearer
  <2> QED BY <2>3, <2>4
<1>2. CASE Retry
  <2>1. Running /\ At("retry")
    BY <1>2 DEF Retry, Running, At
  <2>2. proc \in Process
    BY <2>1, RunningFacts
  <2>3. /\ proc'.pc = "generate" /\ proc'.attempt = proc.attempt
        /\ proc'.todo \in SUBSET Prompts
    BY <1>2, <2>2 DEF Retry, Process
  <2> QED BY <2>1, <2>3, TodoNearer
<1>3. CASE Generate
  BY <1>3, GenerateNearer
<1>4. CASE Write
  <2>1. Running /\ At("write")
    BY <1>4 DEF Write, Running, At
  <2>2. proc \in Process
    BY <2>1, RunningFacts
  <2>3. CASE proc.opts.async
    BY <1>4, <2>1, <2>3, NextAttemptIs DEF Write
  <2>4. CASE ~proc.opts.async
    <3>1. proc' = [proc EXCEPT !.pc = IF proc.todo = {} THEN "final" ELSE "generate"]
      BY <1>4, <2>4 DEF Write, Goto
    <3>2. /\ proc'.attempt = proc.attempt /\ proc'.todo = proc.todo
          /\ proc'.pc = IF proc.todo = {} THEN "final" ELSE "generate"
      BY <2>2, <3>1 DEF Process
    <3> QED BY <2>1, <3>2, WriteNearer
  <2> QED BY <2>3, <2>4
<1>5. CASE OpenFinal
  <2>1. At("final") /\ Running
    BY <1>5 DEF OpenFinal, Running, At
  <2>2. proc'.pc = "rewrite" /\ proc'.attempt = proc.attempt
    BY <1>5, <2>1, RunningFacts DEF OpenFinal, Goto, Process
  <2>3. PhaseSteps = 2 /\ PhaseSteps' = 1 /\ Running'
    BY <2>1, <2>2 DEF PhaseSteps, At, Running
  <2> QED BY <2>1, <2>2, <2>3 DEF WithinAttempt
<1>6. CASE Rewrite
  <2>1. Running
    BY <1>6 DEF Rewrite, Running, At
  <2> QED BY <1>6, <2>1, NextAttemptIs DEF Rewrite
<1>7. CASE Crash
  BY <1>7 DEF Crash, Running, At, Idle
<1> QED BY <1>1, <1>2, <1>3, <1>4, <1>5, <1>6, <1>7 DEF Work

LEMMA SomethingToDoNext == TypeOK /\ SomethingToDo /\ [Next]_vars => SomethingToDo'
<1> SUFFICES ASSUME TypeOK, SomethingToDo, [Next]_vars PROVE SomethingToDo'
  OBVIOUS
<1>1. ASSUME NextAttempt, Running PROVE SomethingToDo'
  <2>1. proc \in Process
    BY <1>1, RunningFacts
  <2>2. CASE proc' = [proc EXCEPT !.pc = "returned"]
    BY <2>1, <2>2 DEF SomethingToDo, Process, At
  <2>3. CASE /\ \E i \in Prompts : Cut(proc.records[i])
             /\ \E place \in {"retry", "read"} :
                  proc' = [proc EXCEPT !.attempt = @ + 1, !.pc = place]
    <3>1. proc'.records = proc.records /\ proc'.pc \in {"retry", "read"}
      BY <2>1, <2>3 DEF Process
    <3> QED BY <2>3, <3>1 DEF SomethingToDo, At
  <2> QED BY <1>1, <2>2, <2>3 DEF NextAttempt, Goto
<1>2. CASE Read
  <2>1. proc \in Process
    BY <1>2, Awake DEF Read, At
  <2>2. CASE file = "torn"
    BY <1>2, <2>2 DEF Read, SomethingToDo, At, Idle
  <2>3. CASE file # "torn"
    <3>1. /\ proc'.pc = IF Remaining = {} THEN "returned" ELSE "generate"
          /\ proc'.todo = Remaining
      BY <1>2, <2>1, <2>3 DEF Read, Process
    <3> QED BY <3>1 DEF SomethingToDo, At
  <2> QED BY <2>2, <2>3
<1>3. CASE Retry
  <2>1. proc \in Process
    BY <1>3, Awake DEF Retry, At
  <2>2. proc'.pc = "generate" /\ proc'.todo = {i \in Prompts : Cut(proc.records[i])}
    BY <1>3, <2>1 DEF Retry, Process
  <2>3. \E i \in Prompts : Cut(proc.records[i])
    BY <1>3 DEF Retry, SomethingToDo
  <2> QED BY <2>2, <2>3 DEF SomethingToDo, At
<1>4. CASE Generate
  <2>1. proc'.pc = "write"
    BY <1>4, Awake DEF Generate, Process, At
  <2> QED BY <2>1 DEF SomethingToDo, At
<1>5. CASE Write
  <2>1. Running /\ proc \in Process
    BY <1>5, Awake DEF Write, Running, At
  <2>2. CASE proc.opts.async
    BY <1>1, <1>5, <2>1, <2>2 DEF Write
  <2>3. CASE ~proc.opts.async
    <3>1. /\ proc'.pc = IF proc.todo = {} THEN "final" ELSE "generate"
          /\ proc'.todo = proc.todo
      BY <1>5, <2>1, <2>3 DEF Write, Goto, Process
    <3> QED BY <3>1 DEF SomethingToDo, At
  <2> QED BY <2>2, <2>3
<1>6. CASE OpenFinal
  <2>1. proc'.pc = "rewrite"
    BY <1>6, Awake DEF OpenFinal, Goto, Process, At
  <2> QED BY <2>1 DEF SomethingToDo, At
<1>7. CASE Rewrite
  BY <1>1, <1>7 DEF Rewrite, Running, At
<1>8. CASE Crash
  BY <1>8 DEF Crash, SomethingToDo, Idle, At
<1>9. ASSUME NEW o \in Options, Launch(o) PROVE SomethingToDo'
  BY <1>9 DEF Launch, SomethingToDo, At
<1>10. CASE UNCHANGED vars
  BY <1>10 DEF vars, SomethingToDo, At
<1> QED BY <1>2, <1>3, <1>4, <1>5, <1>6, <1>7, <1>8, <1>9, <1>10 DEF Next, Work

\* A launch has a given number of steps to take at the most, and every step of
\* it, a kill included, leaves fewer.
LaunchesAreShort ==
  IF \E o \in Options : Launch(o)
  THEN StepsLeft' = (MaxRetries + 1) * AttemptSteps
  ELSE ComesNearer

\* However samples turn out, a launch makes at most --max-retries more attempts
\* of at most 2 * NumPrompts + 4 steps each, and never calls the generator for
\* nobody.
THEOREM LaunchesAreBounded == Spec => []SomethingToDo /\ [][LaunchesAreShort]_vars
<1>1. Init => SomethingToDo
  BY DEF Init, SomethingToDo, Idle, At
<1>2. TypeOK => Measured
  BY RunningFacts DEF Measured
<1>3. TypeOK /\ SomethingToDo /\ Measured' /\ [Next]_vars => [LaunchesAreShort]_vars
  <2> SUFFICES ASSUME TypeOK, SomethingToDo, Measured', Next PROVE LaunchesAreShort
    OBVIOUS
  <2>1. ASSUME NEW o \in Options, Launch(o)
        PROVE  StepsLeft' = (MaxRetries + 1) * AttemptSteps
    <3>1. proc'.pc = "read" /\ proc'.attempt = 0
      BY <2>1 DEF Launch
    <3> DEFINE w == AttemptSteps
    <3>2. w \in Nat
      BY DEF AttemptSteps
    <3>3. StepsLeft' = (MaxRetries - 0) * w + w
      BY <3>1 DEF StepsLeft, PhaseSteps, Running, At
    <3> HIDE DEF w
    <3>4. (MaxRetries - 0) * w + w = (MaxRetries + 1) * w
      BY <3>2
    <3> QED BY <3>3, <3>4 DEF w
  <2>2. CASE ~\E o \in Options : Launch(o)
    <3>1. WithinAttempt \/ NextOne \/ (Running /\ ~Running')
      BY <2>2, WorkIsNearer DEF Next
    <3> QED BY <2>2, <3>1, MovesNearer DEF LaunchesAreShort
  <2> QED BY <2>1, <2>2 DEF LaunchesAreShort
<1> QED BY <1>1, <1>2, <1>3, SomethingToDoNext, TypeCorrect, PTL DEF Spec
=============================================================================
