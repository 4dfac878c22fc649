-------------------------- MODULE HintWriterProofs --------------------------
(***************************************************************************)
(* What holds of the hint writer however many problems, coroutines, rounds *)
(* and launches there are.                                                 *)
(***************************************************************************)
EXTENDS HintWriter, FiniteSetTheorems, TLAPS

USE WriterAssumption

Working == {"round", "save", "giveUp", "saveFailed", "finalize", "close"}
Given(i) == i <= proc.size /\ i <= proc.limit

\* What is counted stays below what it is counted for.
Counting ==
  /\ proc.pc \in {"open", "create", "plan", "round", "giveUp", "finalize"} =>
       proc.unsaved < SaveEvery
  /\ ~At("idle") => \A i \in Problems :
       /\ proc.task[i] = "calling" => proc.tries[i] < Attempts
       /\ proc.task[i] = "failed" => proc.tries[i] = Attempts

\* A saver starts from the file, which is whole but when it is rewritten.
Loaded ==
  /\ file = "missing" => saved = Nothing
  /\ proc.pc \in {"create", "save", "saveFailed", "close"} => file = "torn"
  /\ proc.pc \in {"plan", "round", "giveUp", "finalize"} => file = "whole"
  /\ proc.pc \in {"create", "plan"} => Unsaved = {}

\* Memory has all the hints of the file, and results not in it are counted.
Ahead ==
  /\ proc.pc \in {"create", "plan"} \union Working =>
       \A i \in Problems : saved[i] = "hints" => proc.results[i] = "hints"
  /\ proc.pc \in {"round", "save", "giveUp", "saveFailed", "finalize"} =>
       Cardinality(Unsaved) <= proc.unsaved

\* A problem of the launch has its hints or a coroutine, or was given up.
GivenUp(i) ==
  /\ proc.results[i] = "failed" /\ proc.task[i] = "done"
  /\ proc.round = Rounds /\ proc.tries[i] = Attempts

Covered ==
  /\ proc.pc \in Working => \A i \in Problems :
       proc.task[i] \in {"waiting", "calling", "failed"} => proc.results[i] # "hints"
  /\ proc.pc \in {"round", "save"} => \A i \in Problems : Given(i) =>
       proc.results[i] = "hints" \/ proc.task[i] \in {"waiting", "calling", "failed"}
  /\ proc.pc \in {"giveUp", "saveFailed", "finalize", "close"} =>
       \A i \in Problems : /\ proc.task[i] \notin {"waiting", "calling"}
                           /\ Given(i) => \/ proc.results[i] = "hints"
                                          \/ proc.task[i] = "failed" \/ GivenUp(i)
  /\ proc.pc \in {"giveUp", "saveFailed"} => proc.round = Rounds
  /\ proc.pc \in {"finalize", "close"} => In("failed") = {}

Inv == TypeOK /\ Counting /\ Loaded /\ Ahead /\ Covered /\ AllAttempted
-----------------------------------------------------------------------------
LEMMA Awake == TypeOK /\ ~At("idle") => proc \in Process
BY DEF TypeOK, At, Idle

LEMMA UnsavedFinite ==
  IsFiniteSet(Unsaved) /\ Cardinality(Unsaved) \in Nat
<1>1. IsFiniteSet(Problems)
  BY FS_Interval DEF Problems
<1> QED  BY <1>1, FS_Subset, FS_CardinalityType DEF Unsaved

LEMMA InvInit == Init => Inv
BY DEF Init, Inv, TypeOK, Counting, Loaded, Ahead, Covered, AllAttempted, Idle, At,
  Nothing, Entry, Working

LEMMA InvLaunch ==
  ASSUME Inv, NEW size \in Sizes, NEW limit \in Limits, NEW resume \in BOOLEAN,
         Launch(size, limit, resume)
  PROVE  Inv'
<1>1. /\ proc' \in Process /\ proc'.pc = "open" /\ proc'.unsaved = 0
      /\ proc'.task = AllOff
  BY DEF Launch, Process, AllOff, Nothing, Entry, Stage
<1>2. TypeOK'
  BY <1>1 DEF Launch, Inv, TypeOK, Nothing, Entry, Running
<1>3. Counting'
  BY <1>1 DEF Counting, AllOff, At
<1>4. Loaded'
  BY <1>1 DEF Launch, Inv, Loaded, At
<1> QED  BY <1>1, <1>2, <1>3, <1>4 DEF Inv, Ahead, Covered, AllAttempted, At, Working

LEMMA InvOpen == Inv /\ Open => Inv'
<1> SUFFICES ASSUME Inv, Open
             PROVE  Inv'
  OBVIOUS
<1> USE DEF At
<1>1. proc \in Process /\ proc.pc = "open"
  BY Awake DEF Inv, Open
<1>2. CASE file = "torn"
  BY <1>2 DEF Open, Inv, TypeOK, Counting, Loaded, Ahead, Covered, AllAttempted, Idle, Working
<1>3. CASE file # "torn"
  <2>1. Extended(saved) \in [Problems -> Entry]
    BY <1>1 DEF Extended, Inv, TypeOK, Entry, Process
  <2>2. /\ proc' \in Process /\ proc'.results = Extended(saved)
        /\ proc'.pc = IF file = "missing" THEN "create" ELSE "plan"
        /\ proc'.unsaved = proc.unsaved
        /\ proc'.task = proc.task /\ proc'.tries = proc.tries
        /\ saved' = saved /\ file' = (IF file = "missing" THEN "torn" ELSE file)
    BY <1>1, <1>3, <2>1 DEF Open, Process
  <2>3. TypeOK'
    BY <2>2 DEF Open, Inv, TypeOK
  <2>4. Counting'
    BY <1>1, <2>2 DEF Inv, Counting
  <2>5. \A i \in Problems :
          /\ Extended(saved)[i] \in {"hints", "failed"} => Extended(saved)[i] = saved[i]
          /\ saved[i] = "hints" => Extended(saved)[i] = "hints"
    BY DEF Extended
  <2>6. Loaded'
    BY <1>1, <2>2, <2>5, <1>3 DEF Inv, TypeOK, Loaded, Unsaved
  <2>7. Ahead'
    BY <2>2, <2>5 DEF Ahead, Working
  <2> QED  BY <2>2, <2>3, <2>4, <2>6, <2>7 DEF Inv, Covered, AllAttempted, Working
<1> QED  BY <1>2, <1>3

LEMMA InvCreate == Inv /\ Create => Inv'
<1> SUFFICES ASSUME Inv, Create
             PROVE  Inv'
  OBVIOUS
<1> USE DEF At
<1>1. proc \in Process /\ proc.pc = "create"
  BY Awake DEF Inv, Create
<1>2. /\ proc' \in Process /\ proc'.pc = "plan" /\ proc'.results = proc.results
      /\ proc'.unsaved = proc.unsaved
      /\ proc'.task = proc.task /\ proc'.tries = proc.tries
      /\ saved' = proc.results /\ file' = "whole"
  BY <1>1 DEF Create, Goto, Written, Process
<1>3. TypeOK'
  BY <1>1, <1>2 DEF Create, Inv, TypeOK, Process
<1>4. Counting'
  BY <1>1, <1>2 DEF Inv, Counting
<1>5. Loaded'
  BY <1>2 DEF Loaded, Unsaved
<1> QED  BY <1>2, <1>3, <1>4, <1>5 DEF Inv, Ahead, Covered, AllAttempted, Working

LEMMA InvPlan == Inv /\ Plan => Inv'
<1> SUFFICES ASSUME Inv, Plan
             PROVE  Inv'
  OBVIOUS
<1> USE DEF At
<1>1. proc \in Process /\ proc.pc = "plan" /\ file = "whole" /\ Unsaved = {}
  BY Awake DEF Inv, Plan, Loaded
<1>2. UNCHANGED <<file, saved, launches, crashes>>
  BY DEF Plan
<1>3. CASE Pending = {}
  <2>1. proc' = [proc EXCEPT !.pc = "returned"]
    BY <1>3 DEF Plan
  <2>2. /\ proc' \in Process /\ proc'.pc = "returned" /\ proc'.size = proc.size
        /\ proc'.limit = proc.limit /\ proc'.task = proc.task /\ proc'.tries = proc.tries
    BY <1>1, <2>1 DEF Process
  <2>3. TypeOK'
    BY <1>2, <2>2 DEF Inv, TypeOK
  <2>4. Counting'
    BY <1>1, <2>2 DEF Inv, Counting
  <2>5. \A i \in Problems : Given(i) => saved[i] = "hints"
    BY <1>1, <1>3 DEF Pending, Given, Unsaved
  <2>6. AllAttempted'
    BY <1>1, <1>2, <2>2, <2>5 DEF AllAttempted, Given
  <2> QED  BY <1>1, <1>2, <2>2, <2>3, <2>4, <2>6 DEF Inv, Loaded, Ahead, Covered, Working
<1>4. CASE Pending # {}
  <2>1. proc' = [proc EXCEPT !.task = Start(Pending), !.pc = "round"]
    BY <1>4 DEF Plan
  <2>2. Start(Pending) \in [Problems -> Stage]
    BY DEF Start, Stage
  <2>3. /\ proc' \in Process /\ proc'.pc = "round" /\ proc'.size = proc.size
        /\ proc'.limit = proc.limit /\ proc'.results = proc.results
        /\ proc'.task = Start(Pending) /\ proc'.unsaved = proc.unsaved
    BY <1>1, <2>1, <2>2 DEF Process
  <2>4. TypeOK'
    BY <1>2, <2>3 DEF Inv, TypeOK
  <2>5. Counting'
    BY <1>1, <2>3 DEF Inv, Counting, Start
  <2>6. Ahead'
    <3>1. Unsaved' = {}
      BY <1>1, <1>2, <2>3 DEF Unsaved
    <3>2. Cardinality({}) = 0 /\ proc.unsaved \in Nat
      BY <1>1, FS_EmptySet DEF Process
    <3> QED  BY <1>1, <1>2, <2>3, <3>1, <3>2 DEF Inv, Ahead, Working
  <2>7. Covered'
    <3>1. \A i \in Problems : Start(Pending)[i] = IF i \in Pending THEN "waiting" ELSE "off"
      BY DEF Start
    <3>2. \A i \in Problems : i \in Pending <=> Given(i) /\ proc.results[i] # "hints"
      BY DEF Pending, Given
    <3> QED  BY <2>3, <3>1, <3>2 DEF Covered, Working, Given
  <2> QED  BY <1>1, <1>2, <2>3, <2>4, <2>5, <2>6, <2>7 DEF Inv, Loaded, AllAttempted
<1> QED  BY <1>3, <1>4
-----------------------------------------------------------------------------
LEMMA InvAcquire ==
  ASSUME Inv, NEW i \in Problems, Acquire(i)
  PROVE  Inv'
<1> USE DEF At
<1>1. proc \in Process /\ proc.pc = "round" /\ proc.task[i] = "waiting"
  BY Awake DEF Inv, Acquire
<1>2. /\ proc' = [proc EXCEPT !.task[i] = "calling", !.tries[i] = 0]
      /\ UNCHANGED <<file, saved, launches, crashes>>
  BY DEF Acquire
<1>3. /\ proc' \in Process /\ proc'.pc = "round" /\ proc'.size = proc.size
      /\ proc'.limit = proc.limit /\ proc'.results = proc.results
      /\ proc'.unsaved = proc.unsaved /\ proc'.round = proc.round
      /\ proc'.task = [proc.task EXCEPT ![i] = "calling"]
      /\ proc'.tries = [proc.tries EXCEPT ![i] = 0]
  <2>1. /\ [proc.task EXCEPT ![i] = "calling"] \in [Problems -> Stage]
        /\ [proc.tries EXCEPT ![i] = 0] \in [Problems -> 0..Attempts]
    BY <1>1 DEF Process, Stage
  <2> QED  BY <1>1, <1>2, <2>1 DEF Process
<1>4. TypeOK'
  BY <1>2, <1>3 DEF Inv, TypeOK
<1>5. Counting'
  BY <1>1, <1>3 DEF Inv, Counting, Process
<1>6. Loaded' /\ Ahead'
  BY <1>1, <1>2, <1>3 DEF Inv, Loaded, Ahead, Unsaved, Working
<1>7. Covered'
  BY <1>1, <1>3 DEF Inv, Covered, Given, Process, Working
<1> QED  BY <1>3, <1>4, <1>5, <1>6, <1>7 DEF Inv, AllAttempted

LEMMA InvRejected ==
  ASSUME Inv, NEW i \in Problems, At("round"), proc.task[i] = "calling", Rejected(i),
         UNCHANGED <<saved, launches, crashes>>
  PROVE  Inv'
<1> USE DEF At
<1>1. proc \in Process
  BY Awake DEF Inv
<1>2. proc.tries[i] \in 0..Attempts /\ proc.tries[i] < Attempts
  BY <1>1 DEF Inv, Counting, Process
<1> DEFINE stage == IF proc.tries[i] + 1 < Attempts THEN "calling" ELSE "failed"
<1>3. /\ proc' = [proc EXCEPT !.tries[i] = @ + 1, !.task[i] = stage]
      /\ UNCHANGED <<file, saved, launches, crashes>>
  BY DEF Rejected
<1>4. stage \in Stage /\ proc.tries[i] + 1 \in 0..Attempts
  BY <1>2 DEF Stage
<1>5. /\ proc' \in Process /\ proc'.pc = "round" /\ proc'.size = proc.size
      /\ proc'.limit = proc.limit /\ proc'.results = proc.results
      /\ proc'.unsaved = proc.unsaved /\ proc'.round = proc.round
      /\ proc'.task = [proc.task EXCEPT ![i] = stage]
      /\ proc'.tries = [proc.tries EXCEPT ![i] = proc.tries[i] + 1]
  <2> HIDE DEF stage
  <2>1. /\ [proc.task EXCEPT ![i] = stage] \in [Problems -> Stage]
        /\ [proc.tries EXCEPT ![i] = proc.tries[i] + 1] \in [Problems -> 0..Attempts]
    BY <1>1, <1>4 DEF Process
  <2> QED  BY <1>1, <1>3, <2>1 DEF Process
<1>6. TypeOK'
  BY <1>3, <1>5 DEF Inv, TypeOK
<1>7. Counting'
  BY <1>1, <1>2, <1>5 DEF Inv, Counting, Process
<1>8. Loaded' /\ Ahead'
  BY <1>3, <1>5 DEF Inv, Loaded, Ahead, Unsaved, Working
<1>9. Covered'
  BY <1>1, <1>5 DEF Inv, Covered, Given, Process, Working
<1> QED  BY <1>5, <1>6, <1>7, <1>8, <1>9 DEF Inv, AllAttempted

\* A result makes one more entry that the file does not have, and is counted.
LEMMA InvRecord ==
  ASSUME Inv, NEW i \in Problems, NEW entry \in {"hints", "failed"}, Record(i, entry),
         \/ At("round") /\ entry = "hints" /\ proc.task[i] = "calling"
         \/ At("giveUp") /\ entry = "failed" /\ proc.task[i] = "failed",
         UNCHANGED <<saved, launches, crashes>>
  PROVE  Inv'
<1> USE DEF At
<1> DEFINE full == proc.unsaved + 1 >= SaveEvery
           place == IF full THEN (IF At("round") THEN "save" ELSE "saveFailed") ELSE proc.pc
<1>1. proc \in Process
  BY Awake DEF Inv
<1>2. proc.unsaved \in Nat /\ proc.unsaved < SaveEvery
  BY <1>1 DEF Inv, Counting, Process
<1>3. /\ proc' = [proc EXCEPT !.results[i] = entry, !.task[i] = "done",
                              !.unsaved = @ + 1, !.pc = place]
      /\ file' = IF full THEN "torn" ELSE file
  BY DEF Record
<1>4. /\ proc.unsaved + 1 \in 0..SaveEvery
      /\ ~full => proc.unsaved + 1 < SaveEvery
  BY <1>2
<1>5. place \in {"round", "giveUp", "save", "saveFailed"}
  OBVIOUS
<1>6. /\ proc' \in Process /\ proc'.pc = place /\ proc'.size = proc.size
      /\ proc'.limit = proc.limit /\ proc'.round = proc.round /\ proc'.tries = proc.tries
      /\ proc'.results = [proc.results EXCEPT ![i] = entry]
      /\ proc'.unsaved = proc.unsaved + 1
      /\ proc'.task = [proc.task EXCEPT ![i] = "done"]
  <2> HIDE DEF full, place
  <2>1. /\ [proc.task EXCEPT ![i] = "done"] \in [Problems -> Stage]
        /\ [proc.results EXCEPT ![i] = entry] \in [Problems -> Entry]
    BY <1>1 DEF Process, Stage, Entry
  <2>2. place \in {"round", "save", "giveUp", "saveFailed"} /\ proc.unsaved + 1 \in 0..SaveEvery
    BY <1>4, <1>5
  <2> QED  BY <1>1, <1>3, <2>1, <2>2 DEF Process
<1>7. TypeOK'
  BY <1>3, <1>6 DEF Inv, TypeOK
<1>8. Counting'
  BY <1>1, <1>4, <1>6 DEF Inv, Counting, Process
<1>9. Cardinality(Unsaved') <= proc.unsaved + 1
  <2>1. Cardinality(Unsaved) <= proc.unsaved
    BY DEF Inv, Ahead
  <2>2. Unsaved' \subseteq Unsaved \union {i}
    BY <1>1, <1>6 DEF Unsaved, Process
  <2>3. /\ IsFiniteSet(Unsaved \union {i})
        /\ Cardinality(Unsaved \union {i}) \in Nat
        /\ Cardinality(Unsaved \union {i}) <= Cardinality(Unsaved) + 1
    <3>1. /\ IsFiniteSet(Unsaved \union {i})
          /\ Cardinality(Unsaved \union {i}) =
               IF i \in Unsaved THEN Cardinality(Unsaved) ELSE Cardinality(Unsaved) + 1
      BY UnsavedFinite, FS_AddElement
    <3> QED  BY <3>1, UnsavedFinite
  <2>4. Cardinality(Unsaved') <= Cardinality(Unsaved \union {i})
    BY <2>2, <2>3, FS_Subset
  <2>5. Cardinality(Unsaved') \in Nat
    BY <2>2, <2>3, FS_Subset, FS_CardinalityType
  <2> QED  BY <1>2, <2>1, <2>3, <2>4, <2>5, UnsavedFinite
<1>10. Ahead'
  <2>1. \A j \in Problems : saved[j] = "hints" => proc'.results[j] = "hints"
    <3>1. proc.results[i] # "hints"
      BY DEF Inv, Covered, Working
    <3>2. \A j \in Problems : saved[j] = "hints" => proc.results[j] = "hints"
      BY DEF Inv, Ahead, Working
    <3> QED  BY <1>1, <1>6, <3>1, <3>2 DEF Process
  <2> QED  BY <1>6, <1>9, <2>1 DEF Ahead, Working
<1>11. Loaded'
  BY <1>3, <1>5, <1>6 DEF Inv, Loaded
<1>12. Covered'
  <2>1. CASE At("round")
    BY <1>1, <1>6, <2>1 DEF Inv, Covered, Given, Process, Working
  <2>2. CASE At("giveUp")
    <3>1. proc.tries[i] = Attempts /\ proc.round = Rounds
      BY <1>1, <2>2 DEF Inv, Counting, Covered
    <3> QED  BY <1>1, <1>6, <2>2, <3>1 DEF Inv, Covered, Given, GivenUp, Process, Working
  <2> QED  BY <2>1, <2>2
<1> QED  BY <1>5, <1>6, <1>7, <1>8, <1>10, <1>11, <1>12 DEF Inv, AllAttempted

LEMMA InvSave == Inv /\ Save => Inv'
<1> SUFFICES ASSUME Inv, Save
             PROVE  Inv'
  OBVIOUS
<1> USE DEF At
<1> DEFINE place == IF At("save") THEN "round" ELSE "giveUp"
<1>1. proc \in Process /\ proc.pc \in {"save", "saveFailed"}
  BY Awake DEF Inv, Save
<1>2. /\ proc' = [proc EXCEPT !.unsaved = 0, !.pc = place]
      /\ saved' = proc.results /\ file' = "whole" /\ UNCHANGED <<launches, crashes>>
  BY DEF Save, Written
<1>3. /\ proc' \in Process /\ proc'.pc = place /\ proc'.size = proc.size
      /\ proc'.limit = proc.limit /\ proc'.round = proc.round /\ proc'.tries = proc.tries
      /\ proc'.results = proc.results /\ proc'.unsaved = 0 /\ proc'.task = proc.task
  <2>1. place \in {"round", "giveUp"} /\ 0 \in 0..SaveEvery
    OBVIOUS
  <2> HIDE DEF place
  <2> QED  BY <1>1, <1>2, <2>1 DEF Process
<1>4. TypeOK'
  BY <1>1, <1>2, <1>3 DEF Inv, TypeOK, Process
<1>5. Counting'
  BY <1>1, <1>3 DEF Inv, Counting
<1>6. Unsaved' = {} /\ Cardinality({}) = 0
  BY <1>2, <1>3, FS_EmptySet DEF Unsaved
<1>7. Loaded' /\ Ahead'
  BY <1>1, <1>2, <1>3, <1>6 DEF Loaded, Ahead, Working
<1>8. Covered'
  BY <1>1, <1>3 DEF Inv, Covered, Given, GivenUp, Working
<1> QED  BY <1>3, <1>4, <1>5, <1>7, <1>8 DEF Inv, AllAttempted
-----------------------------------------------------------------------------
LEMMA InvEndRound == Inv /\ EndRound => Inv'
<1> SUFFICES ASSUME Inv, EndRound
             PROVE  Inv'
  OBVIOUS
<1> USE DEF At
<1>1. /\ proc \in Process /\ proc.pc = "round"
      /\ \A i \in Problems : proc.task[i] \notin {"waiting", "calling"}
      /\ UNCHANGED <<file, saved, launches, crashes>>
  BY Awake DEF Inv, EndRound, In
<1>2. CASE In("failed") = {} \/ proc.round >= Rounds
  <2> DEFINE place == IF In("failed") = {} THEN "finalize" ELSE "giveUp"
  <2>1. proc.round \in 1..Rounds
    BY <1>1 DEF Process
  <2>2. proc' = [proc EXCEPT !.pc = place]
    BY <1>2, <2>1 DEF EndRound
  <2>3. place \in {"finalize", "giveUp"}
    OBVIOUS
  <2>4. /\ proc' \in Process /\ proc'.pc = place /\ proc'.size = proc.size
        /\ proc'.limit = proc.limit /\ proc'.round = proc.round
        /\ proc'.tries = proc.tries /\ proc'.results = proc.results
        /\ proc'.unsaved = proc.unsaved /\ proc'.task = proc.task
    <3> HIDE DEF place
    <3> QED  BY <1>1, <2>2, <2>3 DEF Process
  <2>5. TypeOK'
    BY <1>1, <2>4 DEF Inv, TypeOK
  <2>6. Counting'
    BY <1>1, <2>4 DEF Inv, Counting
  <2>7. Loaded' /\ Ahead'
    BY <1>1, <2>4 DEF Inv, Loaded, Ahead, Unsaved, Working
  <2>8. place = "giveUp" => proc.round = Rounds
    BY <1>2, <2>1
  <2>9. place = "finalize" => In("failed") = {}
    OBVIOUS
  <2>10. Covered'
    BY <1>1, <2>4, <2>8, <2>9 DEF Inv, Covered, Given, GivenUp, Working, In
  <2> QED  BY <2>4, <2>5, <2>6, <2>7, <2>10 DEF Inv, AllAttempted
<1>3. CASE In("failed") # {} /\ proc.round < Rounds
  <2>1. proc' = [proc EXCEPT !.round = @ + 1, !.task = Start(In("failed"))]
    BY <1>3 DEF EndRound
  <2>2. Start(In("failed")) \in [Problems -> Stage] /\ proc.round + 1 \in 1..Rounds
    BY <1>1, <1>3 DEF Start, Stage, Process
  <2>3. /\ proc' \in Process /\ proc'.pc = "round" /\ proc'.size = proc.size
        /\ proc'.limit = proc.limit /\ proc'.results = proc.results
        /\ proc'.unsaved = proc.unsaved /\ proc'.task = Start(In("failed"))
    BY <1>1, <2>1, <2>2 DEF Process
  <2>4. TypeOK'
    BY <1>1, <2>3 DEF Inv, TypeOK
  <2>5. Counting'
    BY <1>1, <2>3 DEF Inv, Counting, Start
  <2>6. Loaded' /\ Ahead'
    BY <1>1, <2>3 DEF Inv, Loaded, Ahead, Unsaved, Working
  <2>7. \A i \in Problems : Start(In("failed"))[i] =
          IF proc.task[i] = "failed" THEN "waiting" ELSE "off"
    BY DEF Start, In
  <2>8. Covered'
    BY <1>1, <2>3, <2>7 DEF Inv, Covered, Given, Working
  <2> QED  BY <2>3, <2>4, <2>5, <2>6, <2>8 DEF Inv, AllAttempted
<1>4. proc.round \in 1..Rounds
  BY <1>1 DEF Process
<1> QED  BY <1>2, <1>3, <1>4

LEMMA InvFinalize == Inv /\ Finalize => Inv'
<1> SUFFICES ASSUME Inv, Finalize
             PROVE  Inv'
  OBVIOUS
<1> USE DEF At
<1>1. proc \in Process /\ proc.pc \in {"finalize", "giveUp"} /\ In("failed") = {}
  BY Awake DEF Inv, Finalize, Covered
<1>2. /\ proc' \in Process /\ proc'.pc = "close" /\ proc'.size = proc.size
      /\ proc'.limit = proc.limit /\ proc'.round = proc.round
      /\ proc'.tries = proc.tries /\ proc'.results = proc.results /\ proc'.task = proc.task
      /\ file' = "torn" /\ UNCHANGED <<saved, launches, crashes>>
  BY <1>1 DEF Finalize, Goto, Process
<1>3. TypeOK' /\ Counting'
  BY <1>1, <1>2 DEF Inv, TypeOK, Counting
<1>4. Loaded' /\ Ahead'
  BY <1>1, <1>2 DEF Inv, Loaded, Ahead, Unsaved, Working
<1>5. Covered'
  BY <1>1, <1>2 DEF Inv, Covered, Given, GivenUp, Working, In
<1> QED  BY <1>2, <1>3, <1>4, <1>5 DEF Inv, AllAttempted

LEMMA InvClose == Inv /\ Close => Inv'
<1> SUFFICES ASSUME Inv, Close
             PROVE  Inv'
  OBVIOUS
<1> USE DEF At
<1>1. proc \in Process /\ proc.pc = "close"
  BY Awake DEF Inv, Close
<1>2. /\ proc' \in Process /\ proc'.pc = "returned" /\ proc'.size = proc.size
      /\ proc'.limit = proc.limit /\ proc'.round = proc.round
      /\ proc'.tries = proc.tries /\ proc'.task = proc.task
      /\ saved' = proc.results /\ file' = "whole" /\ UNCHANGED <<launches, crashes>>
  BY <1>1 DEF Close, Goto, Written, Process
<1>3. TypeOK' /\ Counting'
  BY <1>1, <1>2 DEF Inv, TypeOK, Counting, Process
<1>4. \A i \in Problems : Given(i) => proc.results[i] = "hints" \/ GivenUp(i)
  BY <1>1 DEF Inv, Covered, In
<1>5. AllAttempted'
  BY <1>2, <1>4 DEF AllAttempted, Given, GivenUp
<1> QED  BY <1>2, <1>3, <1>5 DEF Inv, Loaded, Ahead, Covered, Working

LEMMA InvNext == Inv /\ [Next]_vars => Inv'
<1> SUFFICES ASSUME Inv, [Next]_vars
             PROVE  Inv'
  OBVIOUS
<1>1. CASE Crash
  BY <1>1 DEF Crash, Inv, TypeOK, Idle, Counting, Loaded, Ahead, Covered, AllAttempted,
    At, Working
<1>2. CASE UNCHANGED vars
  BY <1>2 DEF vars, Inv, TypeOK, Counting, Loaded, Ahead, Covered, AllAttempted, At,
    Working, Given, GivenUp, In, Unsaved
<1>3. ASSUME NEW i \in Problems, GiveUp(i)
      PROVE  Inv'
  BY <1>3, InvRecord DEF GiveUp
<1>4. ASSUME NEW i \in Problems, NEW response \in Responses, Respond(i, response)
      PROVE  Inv'
  BY <1>4, InvRecord, InvRejected DEF Respond
<1> QED
  BY <1>1, <1>2, <1>3, <1>4, InvLaunch, InvOpen, InvCreate, InvPlan, InvAcquire, InvSave,
    InvEndRound, InvFinalize, InvClose DEF Next, Work

LEMMA InvHolds == Spec => []Inv
BY InvInit, InvNext, PTL DEF Spec

\* Every reachable state has its type; no call is tried more than Attempts times.
THEOREM TypeCorrect == Spec => []TypeOK
<1>1. Inv => TypeOK
  BY DEF Inv
<1> QED  BY <1>1, InvHolds, PTL

\* A kill outside a rewrite of the file costs less than --save-every results, one
\* within a rewrite costs the file.
THEOREM KillsCostLittleOutsideARewrite == Spec => []CostOfAKill
<1>1. Inv => CostOfAKill
  <2> SUFFICES ASSUME Inv, Running, ~At("open"), ~Rewriting
               PROVE  Cardinality(Unsaved) < SaveEvery
    <3>1. ASSUME Inv, Rewriting PROVE file = "torn"
      BY <3>1 DEF Inv, Loaded, Rewriting
    <3>2. ASSUME Inv, Running, ~At("open"), ~Rewriting PROVE file = "whole"
      BY <3>2, Awake DEF Inv, Loaded, At, Running, Rewriting, Process
    <3> QED  BY <3>1, <3>2 DEF CostOfAKill
  <2>1. proc \in Process /\ proc.pc \in {"plan", "round", "giveUp", "finalize"}
    BY Awake DEF Inv, At, Running, Rewriting, Process
  <2>2. proc.unsaved \in Nat /\ proc.unsaved < SaveEvery
    BY <2>1 DEF Inv, Counting, Process
  <2>3. CASE At("plan")
    <3>1. Unsaved = {} /\ Cardinality({}) = 0
      BY <2>3, FS_EmptySet DEF Inv, Loaded, At
    <3> QED  BY <2>2, <3>1
  <2>4. CASE proc.pc \in {"round", "giveUp", "finalize"}
    <3>1. Cardinality(Unsaved) <= proc.unsaved
      BY <2>4 DEF Inv, Ahead
    <3> QED  BY <2>2, <3>1, UnsavedFinite
  <2> QED  BY <2>1, <2>3, <2>4 DEF At
<1> QED  BY <1>1, InvHolds, PTL

\* What a launch leaves behind when it returns.
THEOREM ReturnsWithEveryEntry == Spec => []AllAttempted
<1>1. Inv => AllAttempted
  BY DEF Inv
<1> QED  BY <1>1, InvHolds, PTL

\* Hints are lost to --no-resume only.
THEOREM NoHintsAreLost == Spec => HintsAreKept
<1>1. Inv /\ [Next]_vars => [KeepsHints]_saved
  <2> SUFFICES ASSUME Inv, [Next]_vars, saved' # saved
               PROVE  KeepsHints
    OBVIOUS
  <2>1. ASSUME Written, proc.pc \in {"create", "save", "saveFailed", "close"}
        PROVE  KeepsHints
    BY <2>1 DEF Written, Inv, Ahead, Working, KeepsHints
  <2>2. CASE Create \/ Save \/ Close
    BY <2>1, <2>2 DEF Create, Save, Close, At
  <2>3. ASSUME NEW size \in Sizes, NEW limit \in Limits, NEW resume \in BOOLEAN,
               Launch(size, limit, resume)
        PROVE  KeepsHints
    BY <2>3 DEF Launch, KeepsHints
  <2> QED
    BY <2>2, <2>3 DEF Next, Work, Open, Plan, EndRound, Finalize, Acquire, GiveUp, Respond,
      Crash, vars
<1> QED  BY <1>1, InvHolds, PTL DEF Spec, HintsAreKept

-----------------------------------------------------------------------------
(***************************************************************************)
(* How long a launch may go on.  Every attempt, answered or refused, uses  *)
(* up something of a round; a round is used up when its coroutines are.    *)
(***************************************************************************)
\* The attempts the coroutines of this round may still make, and the coroutines
\* that have not handed in a result.
TriesLeft == {w \in Problems \X (1..Attempts) :
  \/ proc.task[w[1]] = "waiting"
  \/ proc.task[w[1]] = "calling" /\ proc.tries[w[1]] < w[2]}
Unfinished == {i \in Problems : proc.task[i] \in {"waiting", "calling", "failed"}}

\* An attempt counts twice, and so does a result, for the save it may bring on;
\* taking the semaphore counts once.
TaskSteps ==
  2 * Cardinality(TriesLeft) + Cardinality(In("waiting")) + 2 * Cardinality(Unfinished)

RoundSteps == 2 * (NumProblems * Attempts) + 3 * NumProblems

\* Until the round is planned, all of it is still to come.
TasksLeft == IF proc.pc \in {"open", "create", "plan"} THEN RoundSteps ELSE TaskSteps

PlaceSteps ==
  IF At("open") THEN 6
  ELSE IF At("create") THEN 5
  ELSE IF At("plan") \/ At("save") THEN 4
  ELSE IF At("round") \/ At("saveFailed") THEN 3
  ELSE IF At("giveUp") \/ At("finalize") THEN 2
  ELSE 1

StepsLeft ==
  IF Running THEN (Rounds - proc.round) * (RoundSteps + 1) + TasksLeft + PlaceSteps ELSE 0

ComesNearer == StepsLeft' \in Nat /\ StepsLeft' < StepsLeft

Measured == TasksLeft \in Nat /\ TasksLeft <= RoundSteps /\ PlaceSteps \in 1..6

LEMMA RoundStepsIsNat == RoundSteps \in Nat
<1>1. NumProblems * Attempts \in Nat
  OBVIOUS
<1> QED BY <1>1 DEF RoundSteps

\* However far a round has come, it is a whole one at the most.
LEMMA Parts ==
  ASSUME NEW T \in SUBSET (Problems \X (1..Attempts)),
         NEW W \in SUBSET Problems, NEW U \in SUBSET Problems
  PROVE  /\ IsFiniteSet(T) /\ IsFiniteSet(W) /\ IsFiniteSet(U)
         /\ Cardinality(T) \in Nat /\ Cardinality(W) \in Nat /\ Cardinality(U) \in Nat
         /\ 2 * Cardinality(T) + Cardinality(W) + 2 * Cardinality(U) \in Nat
         /\ 2 * Cardinality(T) + Cardinality(W) + 2 * Cardinality(U) <= RoundSteps
<1>1. /\ IsFiniteSet(Problems) /\ Cardinality(Problems) = NumProblems
      /\ IsFiniteSet(1..Attempts) /\ Cardinality(1..Attempts) = Attempts
  BY FS_Interval DEF Problems
<1>2. /\ IsFiniteSet(Problems \X (1..Attempts))
      /\ Cardinality(Problems \X (1..Attempts)) = NumProblems * Attempts
  BY <1>1, FS_Product
<1>3. /\ IsFiniteSet(T) /\ Cardinality(T) <= NumProblems * Attempts
      /\ IsFiniteSet(W) /\ Cardinality(W) <= NumProblems
      /\ IsFiniteSet(U) /\ Cardinality(U) <= NumProblems
  BY <1>1, <1>2, FS_Subset
<1> DEFINE t == Cardinality(T)
           w == Cardinality(W)
           u == Cardinality(U)
           m == NumProblems * Attempts
<1>4. t \in Nat /\ w \in Nat /\ u \in Nat
  BY <1>3, FS_CardinalityType
<1>5. m \in Nat /\ RoundSteps = 2 * m + 3 * NumProblems
  BY DEF RoundSteps
<1>6. t <= m /\ w <= NumProblems /\ u <= NumProblems
  BY <1>3
<1>7. 2 * t + w + 2 * u \in Nat /\ 2 * t + w + 2 * u <= RoundSteps
  <2> HIDE DEF t, w, u, m
  <2> QED BY <1>4, <1>5, <1>6
<1> QED BY <1>3, <1>4, <1>7

LEMMA AlwaysMeasured == Measured
<1>1. TriesLeft \in SUBSET (Problems \X (1..Attempts))
  BY DEF TriesLeft
<1>2. In("waiting") \in SUBSET Problems /\ Unfinished \in SUBSET Problems
  BY DEF In, Unfinished
<1>3. TaskSteps \in Nat /\ TaskSteps <= RoundSteps
  BY <1>1, <1>2, Parts DEF TaskSteps
<1>4. TasksLeft \in Nat /\ TasksLeft <= RoundSteps
  BY <1>3, RoundStepsIsNat DEF TasksLeft
<1>5. PlaceSteps \in 1..6
  BY DEF PlaceSteps
<1> QED BY <1>4, <1>5 DEF Measured

\* Within a round, from one round to the next, and out of the last one.
WithinRound ==
  /\ Running /\ Running' /\ proc'.round = proc.round
  /\ TasksLeft' + PlaceSteps' < TasksLeft + PlaceSteps

NextRound ==
  /\ Running /\ Running' /\ proc.round < Rounds /\ proc'.round = proc.round + 1
  /\ PlaceSteps' = PlaceSteps

LEMMA RoundsOutweigh ==
  ASSUME NEW m \in Nat, NEW a \in Nat, NEW w \in Nat, a <= m
  PROVE  /\ (m - a) * w \in Nat
         /\ a < m => (m - a) * w = (m - (a + 1)) * w + w
<1> DEFINE d == m - a
<1>1. d \in Nat /\ d * w \in Nat
  OBVIOUS
<1>2. ASSUME a < m PROVE d * w = (m - (a + 1)) * w + w
  <2> DEFINE e == m - (a + 1)
  <2>1. e \in Nat /\ d = e + 1
    BY <1>2
  <2> HIDE DEF d, e
  <2>2. d * w = e * w + w
    BY <2>1
  <2> QED BY <2>2 DEF e
<1> QED BY <1>1, <1>2

LEMMA MovesNearer ==
  ASSUME TypeOK, Measured, Measured', WithinRound \/ NextRound \/ (Running /\ ~Running')
  PROVE  ComesNearer
<1> DEFINE w == RoundSteps + 1
           a == proc.round
           t == TasksLeft
           p == PlaceSteps
           t2 == TasksLeft'
           p2 == PlaceSteps'
<1>1. a \in Nat /\ a <= Rounds
  <2>1. proc \in Process
    BY Awake DEF WithinRound, NextRound, Running
  <2>2. proc.round \in 1..Rounds
    BY <2>1 DEF Process
  <2> QED BY <2>2
<1>2. /\ t \in Nat /\ p \in Nat /\ p >= 1
      /\ t2 \in Nat /\ p2 \in Nat /\ t2 < w /\ w \in Nat
  <2>1. t \in Nat /\ p \in 1..6 /\ t2 \in Nat /\ t2 <= RoundSteps /\ p2 \in 1..6
    BY DEF Measured
  <2> QED BY <2>1, RoundStepsIsNat
<1>3. StepsLeft = (Rounds - a) * w + t + p
  BY DEF WithinRound, NextRound, StepsLeft
<1>4. Running' => StepsLeft' = (Rounds - proc'.round) * w + t2 + p2
  BY DEF StepsLeft, RoundSteps
<1> HIDE DEF w, a, t, p, t2, p2
<1>5. /\ (Rounds - a) * w \in Nat
      /\ a < Rounds => (Rounds - a) * w = (Rounds - (a + 1)) * w + w
  BY <1>1, <1>2, RoundsOutweigh
<1>6. CASE WithinRound
  <2>1. StepsLeft' = (Rounds - a) * w + t2 + p2 /\ t2 + p2 < t + p
    BY <1>4, <1>6 DEF WithinRound, a, t, p, t2, p2
  <2>2. StepsLeft' \in Nat /\ StepsLeft' < StepsLeft
    BY <1>2, <1>3, <1>5, <2>1
  <2> QED BY <2>2 DEF ComesNearer
<1>7. CASE NextRound
  <2>1. StepsLeft' = (Rounds - (a + 1)) * w + t2 + p2 /\ a < Rounds /\ p2 = p
    BY <1>4, <1>7 DEF NextRound, a, p, p2
  <2>2. (Rounds - (a + 1)) * w \in Nat
    <3>1. a + 1 \in Nat /\ a + 1 <= Rounds
      BY <1>1, <2>1
    <3> QED BY <1>2, <3>1, RoundsOutweigh
  <2> DEFINE later == (Rounds - (a + 1)) * w
  <2>3. later \in Nat /\ StepsLeft' = later + t2 + p2 /\ StepsLeft = later + w + t + p
    BY <1>3, <1>5, <2>1, <2>2
  <2> HIDE DEF later
  <2>4. StepsLeft' \in Nat /\ StepsLeft' < StepsLeft
    BY <1>2, <2>1, <2>3
  <2> QED BY <2>4 DEF ComesNearer
<1>8. CASE Running /\ ~Running'
  <2>1. StepsLeft' = 0
    BY <1>8 DEF StepsLeft
  <2>2. StepsLeft >= 1
    BY <1>2, <1>3, <1>5
  <2> QED BY <1>2, <1>3, <1>5, <2>1, <2>2 DEF ComesNearer
<1> QED BY <1>6, <1>7, <1>8

LEMMA Sums ==
  /\ \A a, b, c, d \in Nat : a <= b /\ c < d => a + c < b + d
  /\ \A t, w, u, p, t2, w2, u2, p2 \in Nat :
       \/ t2 = t /\ u2 = u /\ w2 = w - 1 /\ p2 = p
       \/ t2 = t - 1 /\ u2 = u /\ w2 = w /\ p2 = p
       \/ t2 <= t /\ w2 = w /\ u2 = u - 1 /\ p2 <= p + 1
       => (2 * t2 + w2 + 2 * u2) + p2 < (2 * t + w + 2 * u) + p
OBVIOUS

\* The next place, with the coroutines where they were.
LEMMA PlaceNearer ==
  ASSUME Measured, Measured', Running, Running', proc'.round = proc.round,
         PlaceSteps' < PlaceSteps,
         \/ proc.pc \in {"open", "create", "plan"}
         \/ /\ proc'.task = proc.task /\ proc'.tries = proc.tries
            /\ proc'.pc \notin {"open", "create", "plan"}
  PROVE  WithinRound
<1>1. TasksLeft' <= TasksLeft
  <2>1. CASE proc.pc \in {"open", "create", "plan"}
    BY <2>1 DEF Measured, TasksLeft, RoundSteps
  <2>2. CASE /\ proc'.task = proc.task /\ proc'.tries = proc.tries
             /\ proc.pc \notin {"open", "create", "plan"}
             /\ proc'.pc \notin {"open", "create", "plan"}
    <3>1. TriesLeft' = TriesLeft /\ In("waiting")' = In("waiting") /\ Unfinished' = Unfinished
      BY <2>2 DEF TriesLeft, In, Unfinished
    <3>2. TaskSteps' = TaskSteps
      BY <3>1 DEF TaskSteps
    <3>3. TasksLeft = TaskSteps /\ TasksLeft' = TaskSteps'
      BY <2>2 DEF TasksLeft
    <3> QED BY <3>2, <3>3 DEF Measured
  <2> QED BY <2>1, <2>2
<1>2. TasksLeft \in Nat /\ TasksLeft' \in Nat /\ PlaceSteps \in Nat /\ PlaceSteps' \in Nat
  BY DEF Measured
<1>3. TasksLeft' + PlaceSteps' < TasksLeft + PlaceSteps
  BY <1>1, <1>2, Sums
<1> QED BY <1>3 DEF WithinRound

\* A coroutine moves on: what it uses up outweighs the save that may follow.
LEMMA CoroutineNearer ==
  ASSUME TypeOK, proc.pc \in {"round", "giveUp"}, Running', proc'.round = proc.round,
         proc'.pc \notin {"open", "create", "plan"},
         NEW i \in Problems,
         \/ /\ TriesLeft' = TriesLeft /\ Unfinished' = Unfinished
            /\ i \in In("waiting") /\ In("waiting")' = In("waiting") \ {i}
            /\ PlaceSteps' = PlaceSteps
         \/ /\ \E k \in 1..Attempts : /\ <<i, k>> \in TriesLeft
                                      /\ TriesLeft' = TriesLeft \ {<<i, k>>}
            /\ In("waiting")' = In("waiting") /\ Unfinished' = Unfinished
            /\ PlaceSteps' = PlaceSteps
         \/ /\ TriesLeft' \subseteq TriesLeft /\ In("waiting")' = In("waiting")
            /\ i \in Unfinished /\ Unfinished' = Unfinished \ {i}
            /\ PlaceSteps' <= PlaceSteps + 1,
         Measured, Measured'
  PROVE  WithinRound
<1> DEFINE t == Cardinality(TriesLeft)
           w == Cardinality(In("waiting"))
           u == Cardinality(Unfinished)
           t2 == Cardinality(TriesLeft')
           w2 == Cardinality(In("waiting")')
           u2 == Cardinality(Unfinished')
<1>1. /\ TriesLeft \in SUBSET (Problems \X (1..Attempts))
      /\ In("waiting") \in SUBSET Problems /\ Unfinished \in SUBSET Problems
      /\ TriesLeft' \in SUBSET (Problems \X (1..Attempts))
      /\ In("waiting")' \in SUBSET Problems /\ Unfinished' \in SUBSET Problems
  BY DEF TriesLeft, In, Unfinished
<1>2. /\ IsFiniteSet(TriesLeft) /\ IsFiniteSet(In("waiting")) /\ IsFiniteSet(Unfinished)
      /\ t \in Nat /\ w \in Nat /\ u \in Nat
  BY <1>1, Parts
<1>3. t2 \in Nat /\ w2 \in Nat /\ u2 \in Nat
  BY <1>1, Parts
<1>4. /\ TasksLeft = 2 * t + w + 2 * u /\ TasksLeft' = 2 * t2 + w2 + 2 * u2
  BY DEF TasksLeft, TaskSteps
<1>5. PlaceSteps \in Nat /\ PlaceSteps' \in Nat
  BY DEF Measured
<1>6. Running
  BY DEF Running, At
<1>7. \/ t2 = t /\ u2 = u /\ w2 = w - 1 /\ PlaceSteps' = PlaceSteps
      \/ t2 = t - 1 /\ u2 = u /\ w2 = w /\ PlaceSteps' = PlaceSteps
      \/ t2 <= t /\ w2 = w /\ u2 = u - 1 /\ PlaceSteps' <= PlaceSteps + 1
  <2>1. CASE /\ TriesLeft' = TriesLeft /\ Unfinished' = Unfinished
             /\ i \in In("waiting") /\ In("waiting")' = In("waiting") \ {i}
             /\ PlaceSteps' = PlaceSteps
    BY <1>2, <2>1, FS_RemoveElement
  <2>2. CASE /\ \E k \in 1..Attempts : /\ <<i, k>> \in TriesLeft
                                       /\ TriesLeft' = TriesLeft \ {<<i, k>>}
             /\ In("waiting")' = In("waiting") /\ Unfinished' = Unfinished
             /\ PlaceSteps' = PlaceSteps
    <3>1. PICK k \in 1..Attempts : /\ <<i, k>> \in TriesLeft
                                   /\ TriesLeft' = TriesLeft \ {<<i, k>>}
      BY <2>2
    <3>2. t2 = t - 1
      BY <1>2, <3>1, FS_RemoveElement
    <3> QED BY <2>2, <3>2
  <2>3. CASE /\ TriesLeft' \subseteq TriesLeft /\ In("waiting")' = In("waiting")
             /\ i \in Unfinished /\ Unfinished' = Unfinished \ {i}
             /\ PlaceSteps' <= PlaceSteps + 1
    <3>1. t2 <= t
      BY <1>2, <2>3, FS_Subset
    <3>2. u2 = u - 1
      BY <1>2, <2>3, FS_RemoveElement
    <3> QED BY <2>3, <3>1, <3>2
  <2> QED BY <2>1, <2>2, <2>3
<1> HIDE DEF t, w, u, t2, w2, u2
<1>8. TasksLeft' + PlaceSteps' < TasksLeft + PlaceSteps
  <2> DEFINE p == PlaceSteps
             p2 == PlaceSteps'
  <2>1. p \in Nat /\ p2 \in Nat
    BY <1>5
  <2>2. \/ t2 = t /\ u2 = u /\ w2 = w - 1 /\ p2 = p
        \/ t2 = t - 1 /\ u2 = u /\ w2 = w /\ p2 = p
        \/ t2 <= t /\ w2 = w /\ u2 = u - 1 /\ p2 <= p + 1
    BY <1>7
  <2> HIDE DEF p, p2
  <2>3. (2 * t2 + w2 + 2 * u2) + p2 < (2 * t + w + 2 * u) + p
    BY <1>2, <1>3, <2>1, <2>2, Sums
  <2> QED BY <1>4, <2>3 DEF p, p2
<1> QED BY <1>6, <1>8 DEF WithinRound

LEMMA AcquireNearer ==
  ASSUME Inv, Measured, Measured', NEW i \in Problems, Acquire(i)
  PROVE  WithinRound
<1>1. /\ proc \in Process /\ proc.pc = "round" /\ proc.task[i] = "waiting"
      /\ proc' = [proc EXCEPT !.task[i] = "calling", !.tries[i] = 0]
  BY Awake DEF Inv, Acquire, At
<1>2. /\ proc'.pc = "round" /\ proc'.round = proc.round
      /\ proc'.task = [proc.task EXCEPT ![i] = "calling"]
      /\ proc'.tries = [proc.tries EXCEPT ![i] = 0]
  BY <1>1 DEF Process
<1>3. /\ proc'.task[i] = "calling" /\ proc'.tries[i] = 0
      /\ \A j \in Problems \ {i} : /\ proc'.task[j] = proc.task[j]
                                   /\ proc'.tries[j] = proc.tries[j]
  BY <1>1, <1>2 DEF Process
<1>4. TriesLeft' = TriesLeft
  <2>1. ASSUME NEW j \in Problems, NEW k \in 1..Attempts
        PROVE  <<j, k>> \in TriesLeft' <=> <<j, k>> \in TriesLeft
    BY <1>1, <1>3 DEF TriesLeft
  <2>2. TriesLeft \subseteq Problems \X (1..Attempts) /\ TriesLeft' \subseteq Problems \X (1..Attempts)
    BY DEF TriesLeft
  <2> QED BY <2>1, <2>2
<1>5. Unfinished' = Unfinished
  BY <1>1, <1>3 DEF Unfinished
<1>6. i \in In("waiting") /\ In("waiting")' = In("waiting") \ {i}
  BY <1>1, <1>3 DEF In
<1>7. PlaceSteps' = PlaceSteps /\ Running'
  BY <1>1, <1>2 DEF PlaceSteps, At, Running
<1> QED BY <1>1, <1>2, <1>4, <1>5, <1>6, <1>7, CoroutineNearer DEF Inv

LEMMA RejectedNearer ==
  ASSUME Inv, Measured, Measured', NEW i \in Problems, At("round"),
         proc.task[i] = "calling", Rejected(i)
  PROVE  WithinRound
<1> DEFINE stage == IF proc.tries[i] + 1 < Attempts THEN "calling" ELSE "failed"
           k == proc.tries[i] + 1
<1>1. /\ proc \in Process /\ proc.pc = "round" /\ k \in 1..Attempts
      /\ proc.tries[i] \in Nat
  <2>1. proc \in Process
    BY Awake DEF Inv, At
  <2>2. proc.tries[i] \in 0..Attempts /\ proc.tries[i] < Attempts
    BY <2>1 DEF Inv, Counting, Process, At
  <2> QED BY <2>1, <2>2 DEF At
<1>2. proc' = [proc EXCEPT !.tries[i] = @ + 1, !.task[i] = stage]
  BY DEF Rejected
<1>3. /\ proc'.pc = "round" /\ proc'.round = proc.round
      /\ proc'.task = [proc.task EXCEPT ![i] = stage]
      /\ proc'.tries = [proc.tries EXCEPT ![i] = k]
  BY <1>1, <1>2 DEF Process
<1>4. /\ proc'.task[i] = stage /\ proc'.tries[i] = k
      /\ \A j \in Problems \ {i} : /\ proc'.task[j] = proc.task[j]
                                   /\ proc'.tries[j] = proc.tries[j]
  BY <1>1, <1>3 DEF Process
<1>5. <<i, k>> \in TriesLeft /\ TriesLeft' = TriesLeft \ {<<i, k>>}
  <2>1. <<i, k>> \in TriesLeft
    BY <1>1 DEF TriesLeft
  <2>2. ASSUME NEW l \in 1..Attempts
        PROVE  <<i, l>> \in TriesLeft' <=> <<i, l>> \in TriesLeft /\ l # k
    <3>1. <<i, l>> \in TriesLeft' <=> proc'.task[i] = "calling" /\ proc'.tries[i] < l
      BY <1>4 DEF TriesLeft
    <3>2. <<i, l>> \in TriesLeft <=> proc.tries[i] < l
      BY DEF TriesLeft
    <3>3. proc.tries[i] < l /\ l # k <=> k < l
      BY <1>1
    <3>4. k < l => stage = "calling"
      BY <1>1
    <3> QED BY <1>4, <3>1, <3>2, <3>3, <3>4
  <2>3. ASSUME NEW j \in Problems \ {i}, NEW l \in 1..Attempts
        PROVE  <<j, l>> \in TriesLeft' <=> <<j, l>> \in TriesLeft
    BY <1>4 DEF TriesLeft
  <2>4. TriesLeft \subseteq Problems \X (1..Attempts) /\ TriesLeft' \subseteq Problems \X (1..Attempts)
    BY DEF TriesLeft
  <2> HIDE DEF k
  <2> QED BY <2>1, <2>2, <2>3, <2>4
<1>6. Unfinished' = Unfinished /\ In("waiting")' = In("waiting")
  BY <1>4 DEF Unfinished, In
<1>7. PlaceSteps' = PlaceSteps /\ Running'
  BY <1>1, <1>3 DEF PlaceSteps, At, Running
<1> HIDE DEF k, stage
<1> QED BY <1>1, <1>3, <1>5, <1>6, <1>7, CoroutineNearer DEF Inv

LEMMA RecordNearer ==
  ASSUME Inv, Measured, Measured', NEW i \in Problems, NEW entry, Record(i, entry),
         \/ At("round") /\ proc.task[i] = "calling"
         \/ At("giveUp") /\ proc.task[i] = "failed"
  PROVE  WithinRound
<1> DEFINE full == proc.unsaved + 1 >= SaveEvery
           place == IF full THEN (IF At("round") THEN "save" ELSE "saveFailed") ELSE proc.pc
<1>1. proc \in Process /\ proc.pc \in {"round", "giveUp"}
  BY Awake DEF Inv, At
<1>2. proc' = [proc EXCEPT !.results[i] = entry, !.task[i] = "done",
                           !.unsaved = @ + 1, !.pc = place]
  BY DEF Record
<1>3. place \in {proc.pc, IF At("round") THEN "save" ELSE "saveFailed"}
  OBVIOUS
<1> HIDE DEF full, place
<1>4. /\ proc'.pc = place /\ proc'.round = proc.round /\ proc'.tries = proc.tries
      /\ proc'.task = [proc.task EXCEPT ![i] = "done"]
  BY <1>1, <1>2 DEF Process
<1>5. /\ proc'.task[i] = "done"
      /\ \A j \in Problems \ {i} : proc'.task[j] = proc.task[j]
  BY <1>1, <1>4 DEF Process
<1>6. TriesLeft' \subseteq TriesLeft
  <2>1. ASSUME NEW j \in Problems, NEW k \in 1..Attempts, <<j, k>> \in TriesLeft'
        PROVE  <<j, k>> \in TriesLeft
    BY <1>4, <1>5, <2>1 DEF TriesLeft
  <2>2. TriesLeft' \subseteq Problems \X (1..Attempts)
    BY DEF TriesLeft
  <2> QED BY <2>1, <2>2
<1>7. In("waiting")' = In("waiting")
  BY <1>5 DEF In
<1>8. i \in Unfinished /\ Unfinished' = Unfinished \ {i}
  BY <1>5 DEF Unfinished
<1>9. PlaceSteps' <= PlaceSteps + 1 /\ Running' /\ proc'.pc \notin {"open", "create", "plan"}
  BY <1>1, <1>3, <1>4 DEF PlaceSteps, At, Running
<1> QED BY <1>1, <1>4, <1>6, <1>7, <1>8, <1>9, CoroutineNearer DEF Inv

\* gather has returned: the launch ends, or a round is begun that is a whole one
\* at the most.
LEMMA EndRoundNearer ==
  ASSUME Inv, Measured, Measured', EndRound
  PROVE  WithinRound \/ NextRound
<1>1. proc \in Process /\ proc.pc = "round" /\ proc.round \in 1..Rounds /\ Running
  BY Awake DEF Inv, EndRound, At, Process, Running
<1>2. CASE proc' = [proc EXCEPT !.pc = "finalize"] \/ proc' = [proc EXCEPT !.pc = "giveUp"]
  <2>1. /\ proc'.pc \in {"finalize", "giveUp"} /\ proc'.round = proc.round
        /\ proc'.task = proc.task /\ proc'.tries = proc.tries
    BY <1>1, <1>2 DEF Process
  <2>2. PlaceSteps = 3 /\ PlaceSteps' = 2 /\ Running'
    BY <1>1, <2>1 DEF PlaceSteps, At, Running
  <2> QED BY <1>1, <2>1, <2>2, PlaceNearer
<1>3. CASE /\ proc.round < Rounds
           /\ proc' = [proc EXCEPT !.round = @ + 1, !.task = Start(In("failed"))]
  <2>1. proc'.pc = "round" /\ proc'.round = proc.round + 1
    BY <1>1, <1>3 DEF Process
  <2>2. PlaceSteps' = PlaceSteps /\ Running'
    BY <1>1, <2>1 DEF PlaceSteps, At, Running
  <2> QED BY <1>1, <1>3, <2>1, <2>2 DEF NextRound
<1> QED BY <1>2, <1>3 DEF EndRound

\* Every step of a launch is one of the moves above.
LEMMA WorkIsNearer ==
  ASSUME Inv, Measured, Measured', Work \/ Crash
  PROVE  WithinRound \/ NextRound \/ (Running /\ ~Running')
<1>1. CASE Open
  <2>1. proc \in Process /\ proc.pc = "open" /\ Running
    BY <1>1, Awake DEF Inv, Open, At, Running
  <2>2. CASE file = "torn"
    BY <1>1, <2>1, <2>2 DEF Open, Running, At, Idle
  <2>3. CASE file # "torn"
    <3>1. proc'.pc \in {"create", "plan"} /\ proc'.round = proc.round
      BY <1>1, <2>1, <2>3 DEF Open, Process
    <3>2. PlaceSteps = 6 /\ PlaceSteps' \in {4, 5} /\ Running'
      BY <2>1, <3>1 DEF PlaceSteps, At, Running
    <3>3. PlaceSteps' < PlaceSteps
      BY <3>2
    <3> QED BY <2>1, <3>1, <3>2, <3>3, PlaceNearer
  <2> QED BY <2>2, <2>3
<1>2. CASE Create
  <2>1. proc \in Process /\ proc.pc = "create" /\ Running
    BY <1>2, Awake DEF Inv, Create, At, Running
  <2>2. proc'.pc = "plan" /\ proc'.round = proc.round
    BY <1>2, <2>1 DEF Create, Goto, Process
  <2>3. PlaceSteps = 5 /\ PlaceSteps' = 4 /\ Running'
    BY <2>1, <2>2 DEF PlaceSteps, At, Running
  <2>4. PlaceSteps' < PlaceSteps
    BY <2>3
  <2> QED BY <2>1, <2>2, <2>3, <2>4, PlaceNearer
<1>3. CASE Plan
  <2>1. proc \in Process /\ proc.pc = "plan" /\ Running
    BY <1>3, Awake DEF Inv, Plan, At, Running
  <2>2. CASE Pending = {}
    <3>1. proc'.pc = "returned"
      BY <1>3, <2>1, <2>2 DEF Plan, Process
    <3> QED BY <2>1, <3>1 DEF Running, At
  <2>3. CASE Pending # {}
    <3>1. proc'.pc = "round" /\ proc'.round = proc.round
      BY <1>3, <2>1, <2>3 DEF Plan, Process
    <3>2. PlaceSteps = 4 /\ PlaceSteps' = 3 /\ Running'
      BY <2>1, <3>1 DEF PlaceSteps, At, Running
    <3>3. PlaceSteps' < PlaceSteps
      BY <3>2
    <3> QED BY <2>1, <3>1, <3>2, <3>3, PlaceNearer
  <2> QED BY <2>2, <2>3
<1>4. CASE Save
  <2>1. proc \in Process /\ proc.pc \in {"save", "saveFailed"} /\ Running
    BY <1>4, Awake DEF Inv, Save, At, Running
  <2>2. /\ proc'.pc = IF proc.pc = "save" THEN "round" ELSE "giveUp"
        /\ proc'.round = proc.round /\ proc'.task = proc.task /\ proc'.tries = proc.tries
    BY <1>4, <2>1 DEF Save, At, Process
  <2>3. PlaceSteps' < PlaceSteps /\ Running'
    BY <2>1, <2>2 DEF PlaceSteps, At, Running
  <2> QED BY <2>1, <2>2, <2>3, PlaceNearer
<1>5. CASE EndRound
  BY <1>5, EndRoundNearer
<1>6. CASE Finalize
  <2>1. proc \in Process /\ proc.pc \in {"finalize", "giveUp"} /\ Running
    BY <1>6, Awake DEF Inv, Finalize, At, Running
  <2>2. /\ proc'.pc = "close"
        /\ proc'.round = proc.round /\ proc'.task = proc.task /\ proc'.tries = proc.tries
    BY <1>6, <2>1 DEF Finalize, Goto, Process
  <2>3. PlaceSteps' < PlaceSteps /\ Running'
    BY <2>1, <2>2 DEF PlaceSteps, At, Running
  <2> QED BY <2>1, <2>2, <2>3, PlaceNearer
<1>7. CASE Close
  <2>1. proc \in Process /\ proc.pc = "close" /\ Running
    BY <1>7, Awake DEF Inv, Close, At, Running
  <2>2. proc'.pc = "returned"
    BY <1>7, <2>1 DEF Close, Goto, Process
  <2> QED BY <2>1, <2>2 DEF Running, At
<1>8. ASSUME NEW i \in Problems,
             Acquire(i) \/ GiveUp(i) \/ \E response \in Responses : Respond(i, response)
      PROVE  WithinRound
  <2>1. CASE Acquire(i)
    BY <2>1, AcquireNearer
  <2>2. CASE GiveUp(i)
    BY <2>2, RecordNearer DEF GiveUp
  <2>3. ASSUME NEW response \in Responses, Respond(i, response) PROVE WithinRound
    BY <2>3, RecordNearer, RejectedNearer DEF Respond
  <2> QED BY <1>8, <2>1, <2>2, <2>3
<1>9. CASE Crash
  BY <1>9 DEF Crash, Running, At, Idle
<1> QED BY <1>1, <1>2, <1>3, <1>4, <1>5, <1>6, <1>7, <1>8, <1>9 DEF Work

\* A launch has a given number of steps to take at the most, and every step of
\* it, a kill included, leaves fewer.
LaunchesAreShort ==
  IF \E size \in Sizes, limit \in Limits, resume \in BOOLEAN : Launch(size, limit, resume)
  THEN StepsLeft' = Rounds * (RoundSteps + 1) + 5
  ELSE ComesNearer

\* However the answers to its calls fall out and in whatever order they come, a
\* launch makes at most --max-retries rounds of at most RoundSteps + 1 steps:
\* no coroutine is served for ever, and none comes back once it has its result.
THEOREM LaunchesAreBounded == Spec => [][LaunchesAreShort]_vars
<1>1. Inv /\ Measured /\ Measured' /\ [Next]_vars => [LaunchesAreShort]_vars
  <2> SUFFICES ASSUME Inv, Measured, Measured', Next PROVE LaunchesAreShort
    OBVIOUS
  <2>1. ASSUME NEW size \in Sizes, NEW limit \in Limits, NEW resume \in BOOLEAN,
               Launch(size, limit, resume)
        PROVE  StepsLeft' = Rounds * (RoundSteps + 1) + 5
    <3>1. proc'.pc = "open" /\ proc'.round = 1
      BY <2>1 DEF Launch
    <3> DEFINE w == RoundSteps + 1
    <3>2. w \in Nat
      BY RoundStepsIsNat
    <3>3. RoundSteps' = RoundSteps
      BY DEF RoundSteps
    <3>4. StepsLeft' = (Rounds - 1) * w + RoundSteps + 6
      BY <3>1, <3>3 DEF StepsLeft, TasksLeft, PlaceSteps, Running, At
    <3>5. (Rounds - 1) * w + w = Rounds * w
      <4> HIDE DEF w
      <4>1. Rounds \in Nat
        OBVIOUS
      <4> QED BY <3>2, <4>1
    <3>6. (Rounds - 1) * w \in Nat
      <4> HIDE DEF w
      <4>1. Rounds - 1 \in Nat
        OBVIOUS
      <4> QED BY <3>2, <4>1
    <3> DEFINE most == (Rounds - 1) * w
    <3>7. most \in Nat /\ StepsLeft' = most + RoundSteps + 6 /\ most + RoundSteps + 1 = Rounds * w
      <4>1. most + (RoundSteps + 1) = Rounds * w
        BY <3>5
      <4>2. most \in Nat
        BY <3>6
      <4> HIDE DEF most
      <4>3. most + RoundSteps + 1 = Rounds * w
        BY <4>1, <4>2, RoundStepsIsNat
      <4> QED BY <3>4, <4>2, <4>3 DEF most
    <3> HIDE DEF most
    <3>8. StepsLeft' = (most + RoundSteps + 1) + 5
      BY <3>7, RoundStepsIsNat
    <3> QED BY <3>7, <3>8
  <2>2. CASE ~\E size \in Sizes, limit \in Limits, resume \in BOOLEAN :
                Launch(size, limit, resume)
    <3>1. WithinRound \/ NextRound \/ (Running /\ ~Running')
      BY <2>2, WorkIsNearer DEF Next
    <3> QED BY <2>2, <3>1, MovesNearer DEF LaunchesAreShort, Inv
  <2> QED BY <2>1, <2>2 DEF LaunchesAreShort
<1>2. Measured
  BY AlwaysMeasured
<1> QED BY <1>1, <1>2, InvHolds, PTL DEF Spec
=============================================================================
