------------------------ MODULE CheckpointRunProofs -------------------------
(***************************************************************************)
(* Proofs about CheckpointRun, for any options, scores and numbers of      *)
(* launches and crashes: types, what the checkpoint manager remembers,     *)
(* what the tracker names, where the best checkpoint is, and what a        *)
(* launch leaves when it ends.                                             *)
(***************************************************************************)
EXTENDS CheckpointRun, FiniteSetTheorems, WellFoundedInduction, TLAPS

Before == {"train", "validate", "prune", "pruning", "save", "saving"}   \* this step's save
Save2  == {"track", "tracking"}
Saves  == {"prune", "pruning", "save", "saving", "track", "tracking"}
After  == {"convert best", "converting best", "convert last", "converting last",
           "clear", "link", "clean up"}
Places == {"load", "periodic", "last", "next", "record", "recording"}
            \cup Before \cup Save2 \cup After \cup Removing

Scored == [step : Steps \cup {Missing, Torn}, score : Nat \cup {Unscored}]

Process == [
  pc        : Places,
  resume    : BOOLEAN,
  total     : 1..MaxTotal,
  out       : Name,
  step      : Nat,
  best      : Scored,
  saved     : Seq(Steps),
  lastSaved : Nat,
  then      : {"periodic", "record", "last", "next"},
  converted : SUBSET {"best", "last"},
  going     : SUBSET Steps]

\* A launch is removing what the run directory holds before it trains.
Overwriting == proc.pc \in {"discard", "wipe"}

Typed ==
  /\ conf \in Configs
  /\ actor \in [Steps -> ActorState]
  /\ tracker \in Steps \cup {Missing, Torn}
  /\ record \in Scored
  /\ models \in [Name -> Entry]
  /\ launches \in 0..MaxLaunches
  /\ proc = Idle \/ proc \in Process
  /\ tracker <= MaxTotal + launches
  /\ At("load") => tracker < MaxTotal + launches
  /\ Training => proc.step \in 1..(MaxTotal + launches)
  /\ At("converting best") => record.step \in Steps
  /\ At("remove old") => conf.cleanUp = "keep_state"
  /\ Overwriting =>
       /\ tracker < MaxTotal + launches
       /\ ~proc.resume /\ proc.saved = <<>> /\ proc.lastSaved = 0
       /\ At("wipe") => Bare

\* Nothing of this step is saved yet.
Pending ==
  \/ proc.pc \in Before
  \/ proc.pc \in {"periodic", "last", "next"} /\ proc.lastSaved # proc.step

\* A run saves its best checkpoints or periodic ones, not both.
OneKind == conf.saveBest => conf.saveFreq = 0

\* The checkpoints the manager remembers are whole, and in the order they were
\* saved in.
Remembers ==
  Training =>
    /\ Len(proc.saved) <= conf.maxKeep
    /\ \A i \in DOMAIN proc.saved :
          actor[proc.saved[i]] = "saved" /\ proc.saved[i] <= proc.step
    /\ \A i, j \in DOMAIN proc.saved : i < j => proc.saved[i] < proc.saved[j]
    /\ Pending => \A i \in DOMAIN proc.saved : proc.saved[i] < proc.step

\* How the saves of a step follow on each other.
Course ==
  /\ At("load") => proc.saved = <<>> /\ proc.lastSaved = 0
  /\ Training =>
       /\ proc.pc \in {"pruning", "save", "saving"} => Len(proc.saved) < conf.maxKeep
       /\ At("pruning") => \A k \in proc.going : actor[k] = "partial"
       /\ proc.lastSaved <= proc.step
       /\ proc.pc \in Before \cup Save2 => proc.lastSaved < proc.step
       /\ proc.pc \in Save2 \/ proc.lastSaved = proc.step =>
            proc.saved # <<>> /\ proc.saved[Len(proc.saved)] = proc.step
       /\ At("periodic") /\ proc.lastSaved = proc.step => conf.saveBest
       /\ proc.pc \in Saves =>
            /\ proc.then \in {"record", "last", "next"}
            /\ proc.then = "record" => conf.saveBest /\ proc.best.step = proc.step
            /\ proc.then = "last" => conf.saveFreq > 0
            /\ proc.then = "next" => LastStep
       /\ proc.pc \in {"record", "recording"} =>
            conf.saveBest /\ proc.lastSaved = proc.step /\ proc.best.step = proc.step
       /\ At("next") /\ LastStep => proc.lastSaved = proc.step
       /\ proc.pc \in After => proc.lastSaved = proc.step

\* Options under which the checkpoint that is tracked is never pruned, in a
\* directory from which no removal has taken a part of the checkpoints.
Roomy == ~ruined /\ conf.maxKeep >= 2 /\ conf.cleanUp # "keep_state"

Tracks ==
  /\ TrackedIsLoadable
  /\ At("load") /\ ~proc.resume => tracker \notin Steps
  /\ Training =>
       /\ tracker \in Steps => tracker <= proc.step
       /\ Pending /\ tracker \in Steps => tracker < proc.step
       /\ proc.pc \notin Save2 /\ proc.saved # <<>> =>
            tracker = proc.saved[Len(proc.saved)]

\* The same for the best checkpoint.
OnlyBest == ~ruined /\ conf.saveFreq = 0 /\ conf.cleanUp # "keep_state"

\* At these places the manager's next prune is still to come.
MayPrune ==
  \/ proc.pc \in Before \cup {"periodic", "last"}
  \/ At("next") /\ ~LastStep

HoldsBest ==
  /\ ~conf.saveBest => record = NoRecord
  /\ record.step \in Steps =>
       /\ actor[record.step] = "saved"
       /\ tracker # Missing
       /\ tracker \in Steps => record.step <= tracker
  /\ At("load") /\ ~proc.resume => record.step \notin Steps
  /\ Training /\ record.step \in Steps =>
       /\ record.step <= proc.step
       /\ Pending => record.step < proc.step
       /\ MayPrune => \A i \in DOMAIN proc.saved :
                         record.step = proc.saved[i] => i = Len(proc.saved)

Inv ==
  /\ Typed
  /\ OneKind
  /\ Remembers
  /\ Course
  /\ Roomy => Tracks
  /\ OnlyBest => HoldsBest

\* Where there is a checkpoint, a tracker or a record, rollouts were dumped before
\* it was written, and --overwrite removes them after it.
Littered ==
  /\ ~Bare => rollouts
  /\ Training /\ ~At("train") => rollouts

-----------------------------------------------------------------------------
(***************************************************************************)
(* Facts about constants and small operators.                              *)
(***************************************************************************)
\* A nonempty set of steps has a greatest one.  (Above(x) shrinks as x grows,
\* and strict inclusion is well founded on the subsets of a finite set.)
LEMMA MaxIsIn ==
  ASSUME NEW n \in Nat, NEW S \in SUBSET (1..n), S # {}
  PROVE  Max(S) \in S /\ \A y \in S : Max(S) >= y
<1> DEFINE Above(x) == {y \in S : y > x}
           Tails == {Above(x) : x \in S}
           R == StrictSubsetOrdering(S)
<1>1. IsFiniteSet(S)
  <2>1. IsFiniteSet(1..n)  BY FS_Interval
  <2> QED  BY <2>1, FS_Subset
<1>2. IsWellFoundedOn(R, SUBSET S)
  BY <1>1, FS_FiniteSubsetsOfFinite, FS_StrictSubsetOrderingWellFounded
<1>3. Tails \subseteq SUBSET S /\ Tails # {}
  OBVIOUS
<1>4. PICK a \in Tails : \A b \in Tails : ~(<<b, a>> \in R)
  <2> HIDE DEF R, Tails
  <2> QED  BY <1>2, <1>3, WFMin
<1>5. PICK x \in S : a = Above(x)
  BY <1>4
<1>6. ASSUME NEW y \in S, ~(x >= y)
      PROVE  FALSE
  <2>1. y > x  BY <1>6
  <2>2. Above(y) \subseteq Above(x)
    <3>1. ASSUME NEW z \in S, z > y  PROVE z > x
      <4>1. S \subseteq Int  OBVIOUS
      <4>2. x \in Int /\ y \in Int /\ z \in Int  BY <4>1
      <4> QED  BY <2>1, <3>1, <4>2
    <3> QED  BY <3>1
  <2>3. y \in Above(x) /\ y \notin Above(y)
    BY <2>1
  <2>4. <<Above(y), Above(x)>> \in R
    BY <2>2, <2>3 DEF StrictSubsetOrdering
  <2> QED  BY <1>4, <1>5, <2>4
<1>7. x \in S /\ \A y \in S : x >= y
  BY <1>6
<1> QED  BY <1>7 DEF Max

LEMMA StepsAreNumbers ==
  MaxTotal \in Nat /\ MaxLaunches \in Nat /\ Steps \subseteq Nat \ {0}
  /\ Missing \notin Steps /\ Torn \notin Steps
<1>1. MaxTotal \in Nat /\ MaxLaunches \in Nat
  BY RunAssumption
<1>2. Steps = 1..(MaxTotal + MaxLaunches)
  BY DEF Steps
<1> QED  BY <1>1, <1>2 DEF Missing, Torn

LEMMA OptionsAreConfigs ==
  ASSUME conf \in Configs
  PROVE  /\ conf \in Config
         /\ conf.maxKeep \in Nat \ {0}
         /\ conf.totals \subseteq 1..MaxTotal
         /\ conf.saveBest => conf.maxKeep >= 2
BY RunAssumption DEF Config

\* Going on with nothing but the place changed.
LEMMA GotoFacts ==
  ASSUME proc \in Process, NEW place \in Places, Goto(place)
  PROVE  /\ proc' \in Process
         /\ proc'.pc = place
         /\ proc'.resume = proc.resume /\ proc'.total = proc.total /\ proc'.out = proc.out
         /\ proc'.step = proc.step /\ proc'.best = proc.best /\ proc'.saved = proc.saved
         /\ proc'.lastSaved = proc.lastSaved /\ proc'.then = proc.then
         /\ proc'.converted = proc.converted
BY DEF Goto, Process

LEMMA SaveThenFacts ==
  ASSUME proc \in Process, NEW place \in {"record", "last", "next"}, SaveThen(place)
  PROVE  /\ proc' \in Process
         /\ proc'.pc = "prune" /\ proc'.then = place
         /\ proc'.resume = proc.resume /\ proc'.total = proc.total /\ proc'.out = proc.out
         /\ proc'.step = proc.step /\ proc'.best = proc.best /\ proc'.saved = proc.saved
         /\ proc'.lastSaved = proc.lastSaved /\ proc'.converted = proc.converted
BY DEF SaveThen, Process, Places, Before

LEMMA NotIdle ==
  ASSUME Typed, proc.pc # "idle"
  PROVE  proc \in Process
<1>1. proc = Idle \/ proc \in Process
  BY DEF Typed
<1>2. Idle.pc = "idle"
  BY DEF Idle
<1> QED  BY <1>1, <1>2

-----------------------------------------------------------------------------
(***************************************************************************)
(* Launching.                                                              *)
(***************************************************************************)
LEMMA HopIsName ==
  ASSUME NEW ms \in [Name -> Entry], NEW n \in Name
  PROVE  Hop(ms, n) \in Name
BY DEF Hop, Name, Entry, Absent, Empty, Half, Model, Link

LEMMA ResolveIsName ==
  ASSUME NEW ms \in [Name -> Entry], NEW n \in Name
  PROVE  Resolve(ms, n) \in Name
BY HopIsName DEF Resolve

LEMMA MakeDirFacts ==
  ASSUME Typed, NEW n \in Name, MakeDir(n)
  PROVE  models' \in [Name -> Entry]
<1>1. Empty \in Entry /\ models \in [Name -> Entry]
  BY DEF Entry, Typed
<1> QED  BY <1>1 DEF MakeDir

LEMMA StartFacts ==
  ASSUME Typed, NEW total \in conf.totals, NEW resume \in BOOLEAN,
         NEW place \in {"load", "discard"}, NEW out \in Name,
         Start(place, total, resume, out)
  PROVE  /\ proc' \in Process /\ proc'.pc = place /\ proc'.resume = resume
         /\ proc'.out = out /\ proc'.converted = {}
         /\ proc'.saved = <<>> /\ proc'.lastSaved = 0
         /\ launches' = launches + 1 /\ launches' \in 0..MaxLaunches
         /\ UNCHANGED <<actor, tracker, record, rollouts, val, conf, ruined>>
<1>1. total \in 1..MaxTotal
  BY OptionsAreConfigs DEF Typed
<1>2. NoRecord \in Scored /\ place \in Places
  BY DEF NoRecord, Scored, Unscored, Places, Removing
<1>3. proc' = [pc |-> place, resume |-> resume, total |-> total, out |-> out,
               step |-> 0, best |-> NoRecord, saved |-> <<>>, lastSaved |-> 0,
               then |-> "periodic", converted |-> {}, going |-> {}]
  BY DEF Start
<1>4. proc' \in Process
  BY <1>1, <1>2, <1>3 DEF Process
<1>5. launches' = launches + 1 /\ launches' \in 0..MaxLaunches
  <2>1. launches \in 0..MaxLaunches  BY DEF Typed
  <2>2. launches < MaxLaunches /\ launches' = launches + 1  BY DEF Start
  <2> QED  BY <2>1, <2>2, StepsAreNumbers
<1> QED  BY <1>3, <1>4, <1>5 DEF Start

LEMMA BareFacts ==
  ASSUME Bare
  PROVE  /\ \A k \in Steps : actor[k] = "none"
         /\ tracker = Missing /\ tracker \notin Steps
         /\ record = NoRecord /\ record.step \notin Steps
BY StepsAreNumbers DEF Bare, HoldsCheckpoints, OnDisk, NoRecord

\* Where no process trains, the invariant is about the disk alone.
LEMMA OffKeeps ==
  ASSUME Inv, Typed', ~Training', conf' = conf,
         At("load")' => proc'.saved = <<>> /\ proc'.lastSaved = 0 /\ (proc'.resume \/ Bare'),
         \/ UNCHANGED <<actor, tracker, record, ruined>>
         \/ ruined' \/ Bare' \/ conf.cleanUp = "keep_state"
  PROVE  Inv'
<1>1. Remembers' /\ OneKind'
  BY DEF Remembers, Inv, OneKind
<1>2. Course'
  BY DEF Course, Inv, At, Training
<1>3. Bare' => /\ tracker' \notin Steps
               /\ record' = NoRecord /\ record'.step \notin Steps
  BY StepsAreNumbers DEF Bare, NoRecord
<1>4. ASSUME Roomy' PROVE Tracks'
  <2>1. TrackedIsLoadable'
    <3>1. CASE UNCHANGED <<actor, tracker, record, ruined>>
      BY <1>4, <3>1 DEF Roomy, Inv, Tracks, TrackedIsLoadable
    <3>2. CASE Bare'
      BY <1>3, <3>2 DEF TrackedIsLoadable
    <3> QED  BY <1>4, <3>1, <3>2 DEF Roomy
  <2> QED  BY <1>3, <2>1 DEF Tracks
<1>5. ASSUME OnlyBest' PROVE HoldsBest'
  <2>1. /\ ~conf'.saveBest => record' = NoRecord
        /\ record'.step \in Steps =>
             /\ actor'[record'.step] = "saved"
             /\ tracker' # Missing
             /\ tracker' \in Steps => record'.step <= tracker'
    <3>1. CASE UNCHANGED <<actor, tracker, record, ruined>>
      BY <1>5, <3>1 DEF OnlyBest, Inv, HoldsBest
    <3>2. CASE Bare'
      BY <1>3, <3>2
    <3> QED  BY <1>5, <3>1, <3>2 DEF OnlyBest
  <2> QED  BY <1>3, <2>1 DEF HoldsBest
<1> QED  BY <1>1, <1>2, <1>4, <1>5 DEF Inv

LEMMA StartKeeps ==
  ASSUME Inv, NEW total \in conf.totals, NEW resume \in BOOLEAN,
         NEW place \in {"load", "discard"}, NEW out \in Name,
         Start(place, total, resume, out),
         models' \in [Name -> Entry],
         place = "load" => resume \/ Bare,
         place = "discard" => ~resume
  PROVE  Inv'
<1>1. /\ proc' \in Process /\ proc'.pc = place /\ proc'.resume = resume
      /\ proc'.saved = <<>> /\ proc'.lastSaved = 0
      /\ launches' = launches + 1 /\ launches' \in 0..MaxLaunches
      /\ UNCHANGED <<actor, tracker, record, conf, ruined>>
  BY StartFacts DEF Inv
<1>2. /\ ~Training' /\ ~At("converting best")' /\ ~At("remove old")' /\ ~At("wipe")'
      /\ At("load")' <=> place = "load"
  BY <1>1 DEF Training, Removing, At
<1>3. tracker' < MaxTotal + launches' /\ tracker' <= MaxTotal + launches'
  <2>1. tracker \in Int /\ launches \in Nat /\ MaxTotal \in Nat
    <3>1. tracker \in Steps \cup {Missing, Torn} /\ launches \in 0..MaxLaunches
      BY DEF Inv, Typed
    <3>2. Steps \subseteq Int /\ MaxTotal \in Nat /\ MaxLaunches \in Nat
      BY StepsAreNumbers
    <3> QED  BY <3>1, <3>2 DEF Missing, Torn
  <2>2. tracker <= MaxTotal + launches
    BY DEF Inv, Typed
  <2> QED  BY <1>1, <2>1, <2>2
<1>4. Typed'
  BY <1>1, <1>2, <1>3 DEF Inv, Typed, Overwriting
<1>5. Bare' = Bare
  BY <1>1 DEF Bare, HoldsCheckpoints, OnDisk
<1> QED  BY <1>1, <1>2, <1>4, <1>5, OffKeeps

LEMMA LetInKeeps ==
  ASSUME Inv, NEW total \in conf.totals, NEW resume \in BOOLEAN, LetIn(total, resume),
         resume \/ Bare
  PROVE  Inv'
<1>1. Resolve(models, "model") \in Name
  BY ResolveIsName DEF Inv, Typed, Name
<1>2. /\ Start("load", total, resume, Resolve(models, "model"))
      /\ MakeDir(Resolve(models, "model"))
  BY DEF LetIn
<1>3. models' \in [Name -> Entry]
  BY <1>1, <1>2, MakeDirFacts DEF Inv
<1> QED  BY <1>1, <1>2, <1>3, StartKeeps

LEMMA LaunchKeeps == ASSUME Inv, Littered, Launch PROVE Inv'
<1>1. PICK total \in conf.totals : \/ LaunchFresh(total) \/ LaunchOverwrite(total)
                                   \/ LaunchContinue(total) \/ LaunchResume(total)
  BY DEF Launch
<1>2. CASE LaunchFresh(total)
  <2>1. Bare
    BY <1>2 DEF LaunchFresh, HoldsResults, Littered
  <2> QED  BY <1>2, <2>1, LetInKeeps DEF LaunchFresh
<1>3. CASE LaunchOverwrite(total)
  <2>1. models' \in [Name -> Entry]
    BY <1>3 DEF LaunchOverwrite, Inv, Typed
  <2> QED  BY <1>3, <2>1, StartKeeps DEF LaunchOverwrite, Name
<1>4. CASE LaunchContinue(total)
  BY <1>4, LetInKeeps DEF LaunchContinue
<1>5. CASE LaunchResume(total)
  <2>1. models' \in [Name -> Entry]
    BY <1>5, MakeDirFacts DEF LaunchResume, Inv, Name
  <2> QED  BY <1>5, <2>1, StartKeeps DEF LaunchResume, Name
<1> QED  BY <1>1, <1>2, <1>3, <1>4, <1>5

\* A process that dies leaves the disk as it is.
LEMMA DyingKeeps ==
  ASSUME Inv, proc' = Idle,
         UNCHANGED <<actor, tracker, record, models, conf, launches, ruined>>
  PROVE  Inv'
<1>1. Idle.pc = "idle"
  BY DEF Idle
<1>2. /\ ~Training' /\ ~At("load")' /\ ~Overwriting'
      /\ ~At("remove old")' /\ ~At("converting best")'
  BY <1>1 DEF Training, Overwriting, At
<1>3. Typed'
  BY <1>2 DEF Inv, Typed
<1> QED  BY <1>2, <1>3, OffKeeps

-----------------------------------------------------------------------------
(***************************************************************************)
(* Removing.                                                               *)
(***************************************************************************)
LEMMA RotFacts ==
  ASSUME Inv, proc \in Process, NEW k \in Steps, OnDisk(k), Rot(k)
  PROVE  /\ actor' \in [Steps -> ActorState]
         /\ \A j \in Steps : actor[j] = "none" => actor'[j] = "none"
         /\ \E going \in SUBSET Steps : proc' = [proc EXCEPT !.going = going]
<1>1. actor \in [Steps -> ActorState]
  BY DEF Inv, Typed
<1>2. PICK left \in {"partial", "pruned", "none"} :
        /\ actor' = [actor EXCEPT ![k] = left]
        /\ proc' = [proc EXCEPT !.going = IF left = "none" THEN {} ELSE {k}]
  <2>1. actor[k] \in {"saved", "partial", "pruned"}
    BY <1>1 DEF OnDisk, ActorState
  <2> QED  BY <2>1 DEF Rot
<1> QED  BY <1>1, <1>2 DEF ActorState, OnDisk

LEMMA RemoveEntryKeeps == ASSUME Inv, RemoveEntry PROVE Inv'
<1>1. /\ proc.pc \in {"discard", "remove all"}
      /\ ruined' \/ Bare'
      /\ UNCHANGED <<conf, models, launches>>
  BY DEF RemoveEntry
<1>2. /\ proc \in Process /\ actor \in [Steps -> ActorState] /\ record \in Scored
      /\ launches \in Nat /\ MaxTotal \in Nat
      /\ tracker \in Steps \cup {Missing, Torn} /\ tracker <= MaxTotal + launches
      /\ conf \in Configs /\ models \in [Name -> Entry] /\ launches \in 0..MaxLaunches
  <2>1. proc.pc # "idle"
    BY <1>1
  <2>2. launches \in 0..MaxLaunches /\ MaxLaunches \in Nat /\ MaxTotal \in Nat
    BY StepsAreNumbers DEF Inv, Typed
  <2>3. Typed
    BY DEF Inv
  <2>4. proc \in Process
    BY <2>1, <2>3, NotIdle
  <2>5. launches \in Nat
    BY <2>2
  <2> QED  BY <2>2, <2>3, <2>4, <2>5 DEF Typed
<1>3. /\ actor' \in [Steps -> ActorState]
      /\ tracker' = tracker \/ tracker' = Missing
      /\ record' = record \/ record' = NoRecord
      /\ \E going \in SUBSET Steps : proc' = [proc EXCEPT !.going = going]
  <2>1. CASE \E k \in Steps : OnDisk(k) /\ proc.going \subseteq {k} /\ Rot(k)
    BY <1>2, <2>1, RotFacts DEF RemoveEntry
  <2>2. CASE UNCHANGED <<actor, proc>>
    <3>1. proc.going \in SUBSET Steps /\ proc' = [proc EXCEPT !.going = proc.going]
      BY <1>2, <2>2 DEF Process
    <3>2. tracker' = tracker \/ tracker' = Missing
      BY DEF RemoveEntry
    <3>3. record' = record \/ record' = NoRecord
      BY DEF RemoveEntry
    <3> QED  BY <1>2, <2>2, <3>1, <3>2, <3>3
  <2> QED  BY <2>1, <2>2 DEF RemoveEntry
<1>4. /\ proc' \in Process /\ proc'.pc = proc.pc /\ proc'.resume = proc.resume
      /\ proc'.saved = proc.saved /\ proc'.lastSaved = proc.lastSaved
  BY <1>2, <1>3 DEF Process
<1>5. /\ tracker' \in Steps \cup {Missing, Torn} /\ tracker' <= MaxTotal + launches
      /\ record' \in Scored
      /\ Overwriting => tracker' < MaxTotal + launches
  <2>1. proc.total \in 1..MaxTotal
    BY <1>2 DEF Process
  <2>2. Missing < MaxTotal + launches /\ Missing <= MaxTotal + launches
    BY <1>2, <2>1 DEF Missing
  <2>3. NoRecord \in Scored
    BY DEF NoRecord, Scored, Unscored
  <2>4. Overwriting => tracker < MaxTotal + launches
    BY DEF Inv, Typed
  <2> QED  BY <1>2, <1>3, <2>2, <2>3, <2>4
<1>6. /\ ~Training' /\ ~At("load")' /\ ~At("wipe")' /\ ~At("converting best")'
      /\ ~At("remove old")' /\ (Overwriting' <=> Overwriting)
  BY <1>1, <1>4 DEF Training, Removing, At, Overwriting
<1>7. Overwriting => ~proc.resume /\ proc.saved = <<>> /\ proc.lastSaved = 0
  BY DEF Inv, Typed
<1>8. Typed'
  BY <1>1, <1>2, <1>3, <1>4, <1>5, <1>6, <1>7 DEF Typed
<1> QED  BY <1>1, <1>6, <1>8, OffKeeps

LEMMA EndRemovalKeeps == ASSUME Inv, EndRemoval PROVE Inv'
<1>1. Bare /\ UNCHANGED <<actor, tracker, record, models, conf, launches, ruined>>
  BY DEF EndRemoval, disk, rest
<1>2. CASE proc' = Idle
  BY <1>1, <1>2, DyingKeeps
<1>3. CASE At("discard") /\ Goto("wipe")
  <2>1. proc \in Process
    BY <1>3, NotIdle DEF Inv, At
  <2>2. /\ proc' \in Process /\ proc'.pc = "wipe" /\ proc'.resume = proc.resume
        /\ proc'.saved = proc.saved /\ proc'.lastSaved = proc.lastSaved
    BY <1>3, <2>1, GotoFacts DEF Places, Removing
  <2>3. /\ ~Training' /\ ~At("load")' /\ ~At("converting best")' /\ ~At("remove old")'
        /\ Overwriting
    BY <1>3, <2>2 DEF Training, Removing, At, Overwriting
  <2>4. Bare'
    BY <1>1 DEF Bare, HoldsCheckpoints, OnDisk
  <2>5. Typed'
    BY <1>1, <2>2, <2>3, <2>4 DEF Inv, Typed
  <2> QED  BY <1>1, <2>3, <2>5, OffKeeps
<1> QED  BY <1>2, <1>3 DEF EndRemoval

LEMMA WipeKeeps == ASSUME Inv, Wipe PROVE Inv'
<1>1. /\ At("wipe") /\ Overwriting
      /\ UNCHANGED <<actor, tracker, record, conf, launches, ruined>>
  BY DEF Wipe, rest, At, Overwriting
<1>2. /\ proc \in Process /\ models \in [Name -> Entry]
      /\ Absent \in Entry /\ Half \in Entry /\ "model" \in Name
  BY <1>1, NotIdle DEF Inv, Typed, At, Entry, Name
<1>3. /\ Bare /\ ~proc.resume /\ proc.saved = <<>> /\ proc.lastSaved = 0
      /\ tracker < MaxTotal + launches
  BY <1>1 DEF Inv, Typed
<1>4. Bare'
  BY <1>1, <1>3 DEF Bare, HoldsCheckpoints, OnDisk
<1>5. models' \in [Name -> Entry]
  <2>1. CASE MakeDir("model")
    BY <1>2, <2>1, MakeDirFacts DEF Inv
  <2>2. CASE \E n \in 1..3 : models' = [models EXCEPT ![Wiped[n]] = Shrunk(@)]
    BY <1>2, <2>2 DEF Shrunk
  <2>3. CASE UNCHANGED models
    BY <1>2, <2>3
  <2> QED  BY <2>1, <2>2, <2>3 DEF Wipe
<1>6. PICK place \in {"wipe", "load"} :
        /\ proc' \in Process /\ proc'.pc = place /\ proc'.resume = proc.resume
        /\ proc'.saved = proc.saved /\ proc'.lastSaved = proc.lastSaved
  <2>1. CASE Goto("load")
    BY <1>2, <2>1, GotoFacts DEF Places
  <2>2. CASE UNCHANGED proc
    BY <1>1, <1>2, <2>2 DEF At
  <2> QED  BY <2>1, <2>2 DEF Wipe
<1>7. ~Training' /\ ~At("converting best")' /\ ~At("remove old")'
  BY <1>6 DEF Training, Removing, At
<1>8. Typed'
  BY <1>1, <1>3, <1>4, <1>5, <1>6, <1>7 DEF Inv, Typed
<1> QED  BY <1>1, <1>3, <1>4, <1>6, <1>7, <1>8, OffKeeps

LEMMA RemoveOldKeeps == ASSUME Inv, RemoveOld PROVE Inv'
<1>1. At("remove old") /\ UNCHANGED <<tracker, record, models, conf, launches, ruined>>
  BY DEF RemoveOld, rest
<1>2. CASE proc' = Idle /\ UNCHANGED actor
  BY <1>1, <1>2, DyingKeeps
<1>3. ASSUME NEW k \in Steps, OnDisk(k), Rot(k)
      PROVE  Inv'
  <2>1. proc \in Process /\ conf.cleanUp = "keep_state"
    BY <1>1, NotIdle DEF Inv, Typed, At
  <2>2. /\ actor' \in [Steps -> ActorState]
        /\ proc' \in Process /\ proc'.pc = "remove old"
    <3>1. PICK going \in SUBSET Steps : proc' = [proc EXCEPT !.going = going]
      BY <1>3, <2>1, RotFacts
    <3> QED  BY <1>1, <1>3, <2>1, <3>1, RotFacts DEF Process, At
  <2>3. ~Training' /\ ~At("load")' /\ ~Overwriting' /\ ~At("converting best")'
    BY <2>2 DEF Training, Removing, Overwriting, At
  <2>4. Typed'
    BY <1>1, <2>1, <2>2, <2>3 DEF Inv, Typed
  <2> QED  BY <1>1, <2>1, <2>3, <2>4, OffKeeps
<1> QED  BY <1>2, <1>3 DEF RemoveOld

LEMMA CleanUpKeeps == ASSUME Inv, CleanUpCheckpoints PROVE Inv'
<1>1. At("clean up") /\ UNCHANGED <<actor, tracker, record, models, conf, launches, ruined>>
  BY DEF CleanUpCheckpoints, rest, disk
<1>2. CASE proc' = Idle
  BY <1>1, <1>2, DyingKeeps
<1>3. ASSUME NEW place \in {"remove all", "remove old"}, Goto(place),
             place = "remove old" => conf.cleanUp = "keep_state"
      PROVE  Inv'
  <2>1. proc \in Process /\ place \in Places
    BY <1>1, NotIdle DEF Inv, At, Places, Removing
  <2>2. proc' \in Process /\ proc'.pc = place
    BY <1>3, <2>1, GotoFacts
  <2>3. ~Training' /\ ~At("load")' /\ ~Overwriting' /\ ~At("converting best")'
    BY <2>2 DEF Training, Removing, Overwriting, At
  <2>4. Typed'
    BY <1>1, <1>3, <2>2, <2>3 DEF Inv, Typed, At
  <2> QED  BY <1>1, <2>3, <2>4, OffKeeps
<1> QED  BY <1>2, <1>3 DEF CleanUpCheckpoints

-----------------------------------------------------------------------------
(***************************************************************************)
(* Loading.                                                                *)
(***************************************************************************)
\* Training starts at the step after the one it was resumed from.
LEMMA LoadedKeeps ==
  ASSUME Inv, At("load"), NEW s \in Nat, Loaded(s),
         UNCHANGED <<actor, tracker, record, models, conf, launches, ruined>>,
         s = 0 \/ (proc.resume /\ s = tracker /\ tracker \in Steps),
         ~proc.resume \/ s = tracker \/ ~Roomy
  PROVE  Inv'
<1>1. proc \in Process /\ proc.saved = <<>> /\ proc.lastSaved = 0
  BY NotIdle DEF Inv, Course, At
<1>2. conf \in Configs /\ launches \in 0..MaxLaunches /\ tracker < MaxTotal + launches
  BY DEF Inv, Typed, At
<1>3. /\ proc' \in Process /\ proc'.pc = "train" /\ proc'.step = s + 1
      /\ proc'.saved = <<>> /\ proc'.lastSaved = 0
  <2>1. record \in Scored /\ NoRecord \in Scored
    BY DEF Inv, Typed, NoRecord, Scored, Unscored
  <2>2. "train" \in Places
    BY DEF Places, Before
  <2>3. PICK b \in Scored : proc' = [proc EXCEPT !.pc = "train", !.step = s + 1, !.best = b]
    BY <2>1 DEF Loaded
  <2>4. s + 1 \in Nat  OBVIOUS
  <2> QED  BY <1>1, <2>2, <2>3, <2>4 DEF Process
<1>4. /\ Training' /\ ~At("load")' /\ ~Overwriting'
      /\ ~At("remove old")' /\ ~At("converting best")'
  BY <1>3 DEF Training, Removing, Overwriting, At
<1>5. proc'.step \in 1..(MaxTotal + launches)
  <2>1. CASE s = 0
    <3>2. proc.total \in 1..MaxTotal
      BY <1>1 DEF Process
    <3> QED  BY <1>2, <1>3, <2>1, <3>2, StepsAreNumbers
  <2>2. CASE s = tracker
    BY <1>2, <1>3, <2>2, StepsAreNumbers
  <2> QED  BY <2>1, <2>2
<1>6. Typed'
  BY <1>3, <1>4, <1>5 DEF Inv, Typed
<1>7. conf.maxKeep \in Nat \ {0} /\ OneKind'
  BY <1>2, OptionsAreConfigs DEF Inv, OneKind
<1>8. Remembers' /\ Course'
  BY <1>3, <1>4, <1>7 DEF Remembers, Course, Pending, At, Before, Save2, Saves, After
<1>9. ASSUME Roomy' PROVE Tracks'
  <2>1. Roomy  BY <1>9 DEF Roomy
  <2>2. Tracks  BY <2>1 DEF Inv
  <2>3. tracker \in Steps => tracker < s + 1
    <3>1. CASE ~proc.resume  BY <2>2, <3>1 DEF Tracks, At
    <3>2. CASE s = tracker   BY <3>2
    <3> QED  BY <2>1, <3>1, <3>2
  <2>4. tracker \in Steps => tracker \in Nat  BY StepsAreNumbers
  <2>5. tracker \in Steps => tracker <= s + 1  BY <2>3, <2>4
  <2> QED  BY <1>3, <1>4, <2>2, <2>3, <2>5 DEF Tracks, TrackedIsLoadable
<1>10. ASSUME OnlyBest' PROVE HoldsBest'
  <2>1. OnlyBest  BY <1>10 DEF OnlyBest
  <2>2. HoldsBest  BY <2>1 DEF Inv
  <2>3. ASSUME record.step \in Steps PROVE record.step < s + 1 /\ record.step <= s + 1
    <3>2. proc.resume  BY <2>2, <2>3 DEF HoldsBest, At
    <3>3. conf.saveBest
      BY <2>2, <2>3, StepsAreNumbers DEF HoldsBest, NoRecord
    <3>4. Roomy
      BY <1>2, <2>1, <3>3, OptionsAreConfigs DEF Roomy, OnlyBest
    <3>5. s = tracker  BY <3>2, <3>4
    <3>6. tracker \in Steps
      <4>1. tracker # Missing  BY <2>2, <2>3 DEF HoldsBest
      <4> QED  BY <3>5, <4>1 DEF Missing
    <3>7. record.step <= s  BY <2>2, <2>3, <3>5, <3>6 DEF HoldsBest
    <3>8. record.step \in Nat  BY <2>3, StepsAreNumbers
    <3> QED  BY <3>7, <3>8
  <2>4. DOMAIN proc'.saved = {}
    BY <1>3
  <2> QED  BY <1>3, <1>4, <2>2, <2>3, <2>4 DEF HoldsBest
<1> QED  BY <1>6, <1>7, <1>8, <1>9, <1>10 DEF Inv

LEMMA LoadKeeps == ASSUME Inv, Load PROVE Inv'
<1>1. At("load") /\ UNCHANGED <<actor, tracker, record, models, conf, launches, ruined>>
  BY DEF Load, disk, rest
<1>2. tracker \in Steps \cup {Missing, Torn} /\ proc \in Process
  BY <1>1, NotIdle DEF Inv, Typed, At
<1>6. PICK z \in Nat : z = 0
  OBVIOUS
<1>7. proc.resume \in BOOLEAN
  BY <1>2 DEF Process
<1>3. CASE ~proc.resume \/ tracker = Missing
  <2>1. Loaded(z)
    <3>1. CASE ~proc.resume  BY <1>6, <3>1 DEF Load
    <3>2. CASE proc.resume /\ tracker = Missing  BY <1>6, <3>2, StepsAreNumbers DEF Load, Torn, Missing
    <3> QED  BY <1>3, <1>7, <3>1, <3>2
  <2>2. ~proc.resume \/ z = tracker  BY <1>3, <1>6 DEF Missing
  <2>3. z = 0 \/ (proc.resume /\ z = tracker /\ tracker \in Steps)  BY <1>6
  <2>4. ~proc.resume \/ z = tracker \/ ~Roomy  BY <2>2
  <2> QED  BY <1>1, <2>1, <2>3, <2>4, LoadedKeeps, Zenon
<1>4. CASE proc.resume /\ tracker = Torn
  <2>1. Fail  BY <1>4, StepsAreNumbers DEF Load, Missing, Torn
  <2> QED  BY <1>1, <2>1, DyingKeeps DEF Fail
<1>5. CASE proc.resume /\ tracker \in Steps
  <2>1. \/ ~OnDisk(tracker) /\ Loaded(z)
        \/ Loaded(tracker)
        \/ Fail
    BY <1>5, <1>6, StepsAreNumbers DEF Load, Missing, Torn
  <2>2. CASE ~OnDisk(tracker) /\ Loaded(z)
    <3>2. ~Roomy  BY <1>5, <2>2 DEF Inv, Tracks, TrackedIsLoadable, OnDisk, Roomy
    <3>3. z = 0 \/ (proc.resume /\ z = tracker /\ tracker \in Steps)  BY <1>6
    <3>4. ~proc.resume \/ z = tracker \/ ~Roomy  BY <3>2
    <3> QED  BY <1>1, <2>2, <3>3, <3>4, LoadedKeeps, Zenon
  <2>3. CASE Loaded(tracker)
    <3>2. tracker \in Nat  BY <1>5, StepsAreNumbers
    <3> QED  BY <1>1, <1>5, <2>3, <3>2, LoadedKeeps
  <2>4. CASE Fail
    BY <1>1, <2>4, DyingKeeps DEF Fail
  <2> QED  BY <2>1, <2>2, <2>3, <2>4
<1> QED  BY <1>2, <1>3, <1>4, <1>5

-----------------------------------------------------------------------------
(***************************************************************************)
(* A training step: what moves on without touching a checkpoint.           *)
(***************************************************************************)
LEMMA TrainingFacts ==
  ASSUME Inv, Training
  PROVE  /\ proc \in Process
         /\ proc.step \in Steps /\ proc.step \in 1..(MaxTotal + launches)
         /\ proc.total \in Nat /\ proc.lastSaved \in Nat
         /\ proc.saved \in Seq(Steps)
         /\ conf.maxKeep \in Nat \ {0}
         /\ conf.saveBest => conf.maxKeep >= 2 /\ conf.saveFreq = 0
<1>1. proc \in Process
  BY NotIdle DEF Inv, Training, Removing
<1>2. proc.step \in 1..(MaxTotal + launches) /\ launches \in 0..MaxLaunches
  BY DEF Inv, Typed
<1>3. proc.step \in Steps
  BY <1>2, StepsAreNumbers DEF Steps
<1>4. proc.total \in Nat /\ proc.lastSaved \in Nat /\ proc.saved \in Seq(Steps)
  BY <1>1, StepsAreNumbers DEF Process
<1>5. /\ conf.maxKeep \in Nat \ {0}
      /\ conf.saveBest => conf.maxKeep >= 2 /\ conf.saveFreq = 0
  BY OptionsAreConfigs DEF Inv, Typed, OneKind
<1> QED  BY <1>1, <1>2, <1>3, <1>4, <1>5

LEMMA StayKeeps ==
  ASSUME Inv, Training, proc' \in Process, Training',
         UNCHANGED <<actor, tracker, record, conf, launches, ruined>>,
         models' \in [Name -> Entry],
         proc'.step = proc.step, proc'.saved = proc.saved,
         proc.pc \notin Save2, proc'.pc \notin Save2,
         Pending' => Pending,
         MayPrune' => MayPrune,
         At("converting best")' => record.step \in Steps,
         Course'
  PROVE  Inv'
<1>1. ~At("load")' /\ ~Overwriting' /\ ~At("remove old")'
  BY DEF At, Training, Removing, Overwriting
<1>2. Typed'
  BY <1>1 DEF Inv, Typed
<1>3. Remembers' /\ OneKind'
  BY DEF Inv, Remembers, OneKind
<1>4. ASSUME Roomy' PROVE Tracks'
  <2>1. Roomy  BY <1>4 DEF Roomy
  <2>2. Tracks  BY <2>1 DEF Inv
  <2> QED  BY <1>1, <2>2 DEF Tracks, TrackedIsLoadable
<1>5. ASSUME OnlyBest' PROVE HoldsBest'
  <2>1. OnlyBest  BY <1>5 DEF OnlyBest
  <2>2. HoldsBest  BY <2>1 DEF Inv
  <2> QED  BY <1>1, <2>2 DEF HoldsBest
<1> QED  BY <1>2, <1>3, <1>4, <1>5 DEF Inv

LEMMA TrainStepKeeps == ASSUME Inv, TrainStep PROVE Inv'
<1>1. /\ At("train") /\ Goto("validate") /\ "validate" \in Places
      /\ UNCHANGED <<actor, tracker, record, models, conf, launches, ruined>>
  BY DEF TrainStep, rest, Places, Before
<1>2. Training
  BY <1>1 DEF Training, Removing, Overwriting, At
<1>3. /\ proc' \in Process /\ proc'.pc = "validate" /\ proc'.step = proc.step
      /\ proc'.saved = proc.saved /\ proc'.lastSaved = proc.lastSaved
  BY <1>1, <1>2, TrainingFacts, GotoFacts
<1>4. Training' /\ models' \in [Name -> Entry]
  BY <1>1, <1>3 DEF Training, Removing, Inv, Typed
<1>5. Course'
  BY <1>1, <1>2, <1>3 DEF Inv, Course, At, Before, Save2, Saves, After
<1> QED
  BY <1>1, <1>2, <1>3, <1>4, <1>5, StayKeeps
  DEF At, Save2, Pending, MayPrune, Before

LEMMA ValidateKeeps == ASSUME Inv, Validate PROVE Inv'
<1>1. /\ At("validate")
      /\ UNCHANGED <<actor, tracker, record, models, conf, launches, ruined>>
  BY DEF Validate, rest, disk
<1>2. Training
  BY <1>1 DEF Training, Removing, Overwriting, At
<1>3. models' \in [Name -> Entry]
  BY <1>1 DEF Inv, Typed
<1>4. CASE Goto("periodic")
  <2>1. /\ proc' \in Process /\ proc'.pc = "periodic" /\ proc'.step = proc.step
        /\ proc'.saved = proc.saved /\ proc'.lastSaved = proc.lastSaved
    BY <1>2, <1>4, TrainingFacts, GotoFacts DEF Places
  <2>2. proc.lastSaved < proc.step /\ proc.lastSaved # proc.step
    BY <1>1, <1>2, TrainingFacts DEF Inv, Course, At, Before
  <2>3. Training'
    BY <2>1 DEF Training, Removing, Overwriting
  <2>4. Course'
    BY <1>1, <1>2, <2>1, <2>2 DEF Inv, Course, At, Before, Save2, Saves, After
  <2> QED
    BY <1>1, <1>2, <1>3, <2>1, <2>2, <2>3, <2>4, StayKeeps
    DEF At, Save2, Pending, MayPrune, Before
<1>5. ASSUME NEW s \in Scores \cup {Unscored}, conf.saveBest,
             proc' = [proc EXCEPT !.best = [step |-> proc.step, score |-> s],
                                  !.pc = "prune", !.then = "record"]
      PROVE  Inv'
  <2>1. s \in Nat \cup {Unscored}  BY <1>5, RunAssumption
  <2>2. [step |-> proc.step, score |-> s] \in Scored
    BY <1>2, <2>1, TrainingFacts DEF Scored
  <2>3. /\ proc' \in Process /\ proc'.pc = "prune" /\ proc'.step = proc.step
        /\ proc'.saved = proc.saved /\ proc'.lastSaved = proc.lastSaved
        /\ proc'.then = "record" /\ proc'.best.step = proc.step
    BY <1>2, <1>5, <2>2, TrainingFacts DEF Process, Places, Before
  <2>4. Training'
    BY <2>3 DEF Training, Removing, Overwriting
  <2>5. Course'
    BY <1>1, <1>2, <1>5, <2>3 DEF Inv, Course, At, Before, Save2, Saves, After
  <2> QED
    BY <1>1, <1>2, <1>3, <2>3, <2>4, <2>5, StayKeeps
    DEF At, Save2, Pending, MayPrune, Before
<1> QED  BY <1>4, <1>5 DEF Validate

LEMMA SavePeriodicKeeps == ASSUME Inv, SavePeriodic PROVE Inv'
<1>1. /\ At("periodic")
      /\ UNCHANGED <<actor, tracker, record, models, conf, launches, ruined>>
  BY DEF SavePeriodic, rest, disk
<1>2. Training
  BY <1>1 DEF Training, Removing, Overwriting, At
<1>3. models' \in [Name -> Entry]
  BY <1>1 DEF Inv, Typed
<1>4. CASE Due(conf.saveFreq) /\ SaveThen("last")
  <2>1. /\ proc' \in Process /\ proc'.pc = "prune" /\ proc'.step = proc.step
        /\ proc'.saved = proc.saved /\ proc'.lastSaved = proc.lastSaved
        /\ proc'.then = "last"
    BY <1>2, <1>4, TrainingFacts, SaveThenFacts
  <2>2. conf.saveFreq > 0
    BY <1>4 DEF Due
  <2>3. ~conf.saveBest /\ proc.lastSaved # proc.step /\ proc.lastSaved < proc.step
    <3>1. ~conf.saveBest
      <4>1. ASSUME conf.saveBest PROVE FALSE
        <5>1. conf.saveFreq = 0  BY <1>2, <4>1, TrainingFacts
        <5> QED  BY <2>2, <5>1
      <4> QED  BY <4>1
    <3>2. proc.lastSaved # proc.step /\ proc.lastSaved <= proc.step
      BY <1>1, <1>2, <3>1 DEF Inv, Course
    <3>3. proc.lastSaved \in Nat /\ proc.step \in Nat
      BY <1>2, TrainingFacts, StepsAreNumbers
    <3> QED  BY <3>1, <3>2, <3>3
  <2>4. Training'
    BY <2>1 DEF Training, Removing, Overwriting
  <2>5. Course'
    BY <1>1, <1>2, <2>1, <2>2, <2>3 DEF Inv, Course, At, Before, Save2, Saves, After
  <2> QED
    BY <1>1, <1>2, <1>3, <2>1, <2>3, <2>4, <2>5, StayKeeps
    DEF At, Save2, Pending, MayPrune, Before
<1>5. CASE Goto("last")
  <2>1. /\ proc' \in Process /\ proc'.pc = "last" /\ proc'.step = proc.step
        /\ proc'.saved = proc.saved /\ proc'.lastSaved = proc.lastSaved
    BY <1>2, <1>5, TrainingFacts, GotoFacts DEF Places
  <2>2. Training'
    BY <2>1 DEF Training, Removing, Overwriting
  <2>3. Course'
    BY <1>1, <1>2, <2>1 DEF Inv, Course, At, Before, Save2, Saves, After
  <2> QED
    BY <1>1, <1>2, <1>3, <2>1, <2>2, <2>3, StayKeeps
    DEF At, Save2, Pending, MayPrune, Before
<1> QED  BY <1>4, <1>5 DEF SavePeriodic

LEMMA SaveLastKeeps == ASSUME Inv, SaveLast PROVE Inv'
<1>1. /\ At("last")
      /\ UNCHANGED <<actor, tracker, record, models, conf, launches, ruined>>
  BY DEF SaveLast, rest, disk
<1>2. Training
  BY <1>1 DEF Training, Removing, Overwriting, At
<1>3. models' \in [Name -> Entry]
  BY <1>1 DEF Inv, Typed
<1>4. CASE LastStep /\ proc.lastSaved # proc.step /\ SaveThen("next")
  <2>1. /\ proc' \in Process /\ proc'.pc = "prune" /\ proc'.step = proc.step
        /\ proc'.saved = proc.saved /\ proc'.lastSaved = proc.lastSaved
        /\ proc'.then = "next" /\ proc'.total = proc.total
    BY <1>2, <1>4, TrainingFacts, SaveThenFacts
  <2>2. proc.lastSaved < proc.step
    <3>1. proc.lastSaved <= proc.step
      BY <1>2 DEF Inv, Course
    <3>2. proc.lastSaved \in Nat /\ proc.step \in Nat
      BY <1>2, TrainingFacts, StepsAreNumbers
    <3> QED  BY <1>4, <3>1, <3>2
  <2>3. Training' /\ LastStep'
    BY <1>4, <2>1 DEF Training, Removing, LastStep
  <2>4. Course'
    BY <1>1, <1>2, <2>1, <2>2, <2>3 DEF Inv, Course, At, Before, Save2, Saves, After
  <2> QED
    BY <1>1, <1>2, <1>3, <1>4, <2>1, <2>3, <2>4, StayKeeps
    DEF At, Save2, Pending, MayPrune, Before
<1>5. CASE (~LastStep \/ proc.lastSaved = proc.step) /\ Goto("next")
  <2>1. /\ proc' \in Process /\ proc'.pc = "next" /\ proc'.step = proc.step
        /\ proc'.saved = proc.saved /\ proc'.lastSaved = proc.lastSaved
        /\ proc'.total = proc.total
    BY <1>2, <1>5, TrainingFacts, GotoFacts DEF Places
  <2>2. Training'
    BY <2>1 DEF Training, Removing, Overwriting
  <2>3. Course'
    BY <1>1, <1>2, <1>5, <2>1 DEF Inv, Course, At, Before, Save2, Saves, After, LastStep
  <2> QED
    BY <1>1, <1>2, <1>3, <2>1, <2>2, <2>3, StayKeeps
    DEF At, Save2, Pending, MayPrune, Before
<1> QED  BY <1>4, <1>5 DEF SaveLast

LEMMA NextStepKeeps == ASSUME Inv, NextStep PROVE Inv'
<1>1. /\ At("next")
      /\ UNCHANGED <<actor, tracker, record, models, conf, launches, ruined>>
  BY DEF NextStep, rest, disk
<1>2. Training
  BY <1>1 DEF Training, Removing, Overwriting, At
<1>3. models' \in [Name -> Entry]
  BY <1>1 DEF Inv, Typed
<1>4. CASE LastStep /\ proc' = [proc EXCEPT !.pc = "convert best"]
  <2>1. Goto("convert best") /\ "convert best" \in Places
    BY <1>4 DEF Goto, Places, After
  <2>2. /\ proc' \in Process /\ proc'.pc = "convert best" /\ proc'.step = proc.step
        /\ proc'.saved = proc.saved /\ proc'.lastSaved = proc.lastSaved
    BY <1>2, <2>1, TrainingFacts, GotoFacts
  <2>3. Training'
    BY <2>2 DEF Training, Removing, Overwriting
  <2>4. Course'
    BY <1>1, <1>2, <1>4, <2>2 DEF Inv, Course, At, Before, Save2, Saves, After
  <2> QED
    BY <1>1, <1>2, <1>3, <2>2, <2>3, <2>4, StayKeeps
    DEF At, Save2, Pending, MayPrune, Before
<1>5. CASE ~LastStep /\ proc' = [proc EXCEPT !.pc = "train", !.step = @ + 1]
  <2>0. PICK t \in Nat : t = proc.step + 1
    BY <1>2, TrainingFacts, StepsAreNumbers
  <2>1. /\ proc' \in Process /\ proc'.pc = "train" /\ proc'.step = t
        /\ proc'.saved = proc.saved /\ proc'.lastSaved = proc.lastSaved
    <3>1. proc' = [proc EXCEPT !.pc = "train", !.step = t]
      BY <1>5, <2>0
    <3>2. proc \in Process /\ "train" \in Places
      BY <1>2, TrainingFacts DEF Places, Before
    <3> QED  BY <3>1, <3>2 DEF Process
  <2>2. /\ Training' /\ ~At("load")' /\ ~Overwriting'
        /\ ~At("remove old")' /\ ~At("converting best")'
    BY <2>1 DEF Training, Removing, Overwriting, At
  <2>3. /\ proc.step \in Nat /\ proc.saved \in Seq(Steps) /\ proc.lastSaved \in Nat
        /\ proc.step < t
    BY <1>2, <2>0, TrainingFacts, StepsAreNumbers
  <2>4. t \in 1..(MaxTotal + launches)
    <3>1. proc.total \in 1..MaxTotal /\ proc.step < proc.total
      BY <1>2, <1>5, TrainingFacts, StepsAreNumbers DEF LastStep, Process
    <3>2. launches \in 0..MaxLaunches
      BY DEF Inv, Typed
    <3> QED  BY <2>0, <2>3, <3>1, <3>2, StepsAreNumbers
  <2>5. Typed'
    BY <1>1, <2>1, <2>2, <2>4 DEF Inv, Typed
  <2>6. \A i \in DOMAIN proc.saved : proc.saved[i] <= t /\ proc.saved[i] < t
    <3>1. SUFFICES ASSUME NEW i \in DOMAIN proc.saved
                   PROVE  proc.saved[i] <= t /\ proc.saved[i] < t
      OBVIOUS
    <3>2. proc.saved[i] <= proc.step
      BY <1>2, <3>1 DEF Inv, Remembers
    <3>3. proc.saved[i] \in Steps
      BY <2>3, <3>1
    <3>4. proc.saved[i] \in Nat
      BY <3>3, StepsAreNumbers
    <3> QED  BY <2>3, <3>2, <3>4
  <2>7. Remembers' /\ OneKind'
    BY <1>1, <1>2, <2>1, <2>2, <2>6 DEF Inv, Remembers, OneKind
  <2>8. Course'
    <3>1. proc.lastSaved <= proc.step
      BY <1>2 DEF Inv, Course
    <3>2. proc.lastSaved <= t /\ proc.lastSaved < t /\ proc.lastSaved # t
      BY <2>3, <3>1
    <3> QED  BY <1>1, <1>2, <2>1, <3>2 DEF Inv, Course, At, Before, Save2, Saves, After
  <2>9. ASSUME Roomy' PROVE Tracks'
    <3>1. Tracks  BY <1>1, <2>9 DEF Inv, Roomy
    <3>2. ASSUME tracker \in Steps PROVE tracker <= t /\ tracker < t
      <4>1. tracker <= proc.step  BY <1>2, <3>1, <3>2 DEF Tracks
      <4>2. tracker \in Nat       BY <3>2, StepsAreNumbers
      <4> QED  BY <2>3, <4>1, <4>2
    <3> QED
      BY <1>1, <1>2, <2>1, <2>2, <3>1, <3>2 DEF Tracks, TrackedIsLoadable, Save2, At
  <2>10. ASSUME OnlyBest' PROVE HoldsBest'
    <3>1. HoldsBest  BY <1>1, <2>10 DEF Inv, OnlyBest
    <3>2. ASSUME record.step \in Steps PROVE record.step <= t /\ record.step < t
      <4>1. record.step <= proc.step  BY <1>2, <3>1, <3>2 DEF HoldsBest
      <4>2. record.step \in Nat       BY <3>2, StepsAreNumbers
      <4> QED  BY <2>3, <4>1, <4>2
    <3>3. MayPrune  BY <1>1, <1>5 DEF MayPrune
    <3> QED  BY <1>1, <1>2, <2>1, <2>2, <3>1, <3>2, <3>3 DEF HoldsBest
  <2> QED  BY <2>5, <2>7, <2>8, <2>9, <2>10 DEF Inv
<1> QED  BY <1>4, <1>5 DEF NextStep

-----------------------------------------------------------------------------
(***************************************************************************)
(* Saving a checkpoint.                                                    *)
(***************************************************************************)
\* Making room prunes the oldest remembered checkpoint, or none.
LEMMA PruneFacts ==
  ASSUME Inv, Prune
  PROVE  \E d \in {0, 1} :
           /\ proc' \in Process /\ proc'.pc = "pruning" /\ proc'.step = proc.step
           /\ proc'.lastSaved = proc.lastSaved /\ proc'.then = proc.then
           /\ proc'.best = proc.best /\ proc'.total = proc.total
           /\ Len(proc'.saved) = Len(proc.saved) - d /\ Len(proc'.saved) \in Nat
           /\ DOMAIN proc'.saved = 1..(Len(proc.saved) - d)
           /\ \A i \in DOMAIN proc'.saved : proc'.saved[i] = proc.saved[i + d]
           /\ Len(proc'.saved) < conf.maxKeep
           /\ d = 1 => Len(proc.saved) = conf.maxKeep
           /\ \A k \in Steps :
                actor'[k] = IF d = 1 /\ k = proc.saved[1] THEN "partial" ELSE actor[k]
           /\ actor' \in [Steps -> ActorState]
           /\ \A k \in proc'.going : actor'[k] = "partial"
<1>1. At("prune") /\ Training
  BY DEF Prune, Training, Removing, At
<1>2. /\ proc \in Process /\ proc.saved \in Seq(Steps) /\ conf.maxKeep \in Nat \ {0}
  BY <1>1, TrainingFacts
<1>3. PICK n \in Nat : n = Len(proc.saved)
  BY <1>2
<1>4. n <= conf.maxKeep
  BY <1>1, <1>3 DEF Inv, Remembers
<1>5. PICK d \in {0, 1} : Surplus = d /\ (d = 1 <=> n = conf.maxKeep)
  <2>1. CASE n = conf.maxKeep
    <3>1. Surplus = 1  BY <1>2, <1>3, <2>1 DEF Surplus
    <3> QED  BY <2>1, <3>1
  <2>2. CASE n < conf.maxKeep
    <3>1. Surplus = 0  BY <1>2, <1>3, <2>2 DEF Surplus
    <3> QED  BY <1>2, <2>2, <3>1
  <2> QED  BY <1>2, <1>3, <1>4, <2>1, <2>2
<1>6. PICK kept \in Seq(Steps) :
        /\ kept = SubSeq(proc.saved, d + 1, n)
        /\ Len(kept) = n - d /\ DOMAIN kept = 1..(n - d)
        /\ \A i \in 1..(n - d) : kept[i] = proc.saved[i + d]
  <2>1. n >= d
    BY <1>2, <1>5
  <2>2. SubSeq(proc.saved, d + 1, n) \in Seq(Steps)
    BY <1>2, <1>3, <1>5, <2>1
  <2>3. Len(SubSeq(proc.saved, d + 1, n)) = n - d
    BY <1>2, <1>3, <1>5, <2>1
  <2>4. \A i \in 1..(n - d) : SubSeq(proc.saved, d + 1, n)[i] = proc.saved[i + d]
    BY <1>2, <1>3, <1>5, <2>1
  <2>5. DOMAIN SubSeq(proc.saved, d + 1, n) = 1..(n - d)
    BY <2>2, <2>3
  <2> QED  BY <2>2, <2>3, <2>4, <2>5, Zenon
<1>14. Gone \in SUBSET Steps
  BY <1>2, <1>3, <1>4, <1>5 DEF Gone
<1>7. proc' = [proc EXCEPT !.pc = "pruning", !.going = Gone, !.saved = kept]
  BY <1>3, <1>5, <1>6 DEF Prune
<1>8. /\ proc' \in Process /\ proc'.pc = "pruning" /\ proc'.going = Gone /\ proc'.step = proc.step
      /\ proc'.lastSaved = proc.lastSaved /\ proc'.then = proc.then
      /\ proc'.best = proc.best /\ proc'.total = proc.total /\ proc'.saved = kept
  BY <1>2, <1>7, <1>14 DEF Process, Places, Before
<1>9. actor' = [k \in Steps |-> IF k \in {proc.saved[i] : i \in 1..d} THEN "partial" ELSE actor[k]]
  BY <1>5 DEF Prune, Gone, Become
<1>10. {proc.saved[i] : i \in 1..d} = IF d = 1 THEN {proc.saved[1]} ELSE {}
  <2>1. d = 1 => 1..d = {1}  OBVIOUS
  <2>2. d = 0 => 1..d = {}   OBVIOUS
  <2> QED  BY <1>5, <2>1, <2>2
<1>11. \A k \in Steps :
         actor'[k] = IF d = 1 /\ k = proc.saved[1] THEN "partial" ELSE actor[k]
  BY <1>9, <1>10
<1>12. actor' \in [Steps -> ActorState]
  <2>1. actor \in [Steps -> ActorState]  BY DEF Inv, Typed
  <2> QED  BY <1>9, <2>1 DEF ActorState
<1>15. \A k \in Gone : actor'[k] = "partial"
  BY <1>14 DEF Prune, Become
<1>13. n - d < conf.maxKeep /\ n - d \in Nat
  BY <1>2, <1>4, <1>5
<1> QED  BY <1>3, <1>5, <1>6, <1>8, <1>11, <1>12, <1>13, <1>15

LEMMA PruneKeeps == ASSUME Inv, Prune PROVE Inv'
<1>1. /\ At("prune") /\ Training
      /\ UNCHANGED <<tracker, record, models, conf, launches, ruined>>
  BY DEF Prune, rest, Training, Removing, At
<1>2. PICK d \in {0, 1} :
        /\ proc' \in Process /\ proc'.pc = "pruning" /\ proc'.step = proc.step
        /\ proc'.lastSaved = proc.lastSaved /\ proc'.then = proc.then
        /\ proc'.best = proc.best /\ proc'.total = proc.total
        /\ Len(proc'.saved) = Len(proc.saved) - d /\ Len(proc'.saved) \in Nat
        /\ DOMAIN proc'.saved = 1..(Len(proc.saved) - d)
        /\ \A i \in DOMAIN proc'.saved : proc'.saved[i] = proc.saved[i + d]
        /\ Len(proc'.saved) < conf.maxKeep
        /\ d = 1 => Len(proc.saved) = conf.maxKeep
        /\ \A k \in Steps :
             actor'[k] = IF d = 1 /\ k = proc.saved[1] THEN "partial" ELSE actor[k]
        /\ actor' \in [Steps -> ActorState]
        /\ \A k \in proc'.going : actor'[k] = "partial"
  BY PruneFacts
<1>3. PICK n \in Nat : n = Len(proc.saved) /\ DOMAIN proc.saved = 1..n
  BY <1>1, TrainingFacts
<1>4. /\ Training' /\ ~At("load")' /\ ~Overwriting'
      /\ ~At("remove old")' /\ ~At("converting best")'
  BY <1>2 DEF Training, Removing, Overwriting, At
<1>5. Typed'
  BY <1>1, <1>2, <1>4 DEF Inv, Typed
<1>6. /\ conf.maxKeep \in Nat \ {0}
      /\ conf.saveBest => conf.maxKeep >= 2
      /\ proc.saved \in Seq(Steps)
  BY <1>1, TrainingFacts
<1>7. \A i \in 1..n :
        /\ proc.saved[i] \in Steps /\ actor[proc.saved[i]] = "saved"
        /\ proc.saved[i] < proc.step /\ proc.saved[i] <= proc.step
  BY <1>1, <1>3, <1>6 DEF Inv, Remembers, Pending, At, Before
<1>8. \A i, j \in 1..n : i < j => proc.saved[i] < proc.saved[j] /\ proc.saved[i] # proc.saved[j]
  <2>1. SUFFICES ASSUME NEW i \in 1..n, NEW j \in 1..n, i < j
                 PROVE  proc.saved[i] < proc.saved[j] /\ proc.saved[i] # proc.saved[j]
    OBVIOUS
  <2>2. proc.saved[i] < proc.saved[j]
    BY <1>1, <1>3, <2>1 DEF Inv, Remembers
  <2>3. proc.saved[i] \in Nat /\ proc.saved[j] \in Nat
    BY <1>7, StepsAreNumbers
  <2> QED  BY <2>2, <2>3
<1>9. \A i \in DOMAIN proc'.saved :
        i \in 1..(n - d) /\ i + d \in 1..n /\ proc'.saved[i] = proc.saved[i + d]
  BY <1>2, <1>3
\* What is left is whole.
<1>10. \A i \in DOMAIN proc'.saved : actor'[proc'.saved[i]] = "saved"
  <2>1. SUFFICES ASSUME NEW i \in DOMAIN proc'.saved
                 PROVE  actor'[proc.saved[i + d]] = "saved"
    BY <1>9
  <2>2. i + d \in 1..n /\ i \in 1..(n - d)
    BY <1>9
  <2>3. d = 1 => proc.saved[1] # proc.saved[i + d]
    BY <1>3, <1>8, <2>2
  <2> QED  BY <1>2, <1>7, <2>2, <2>3
<1>11. Remembers' /\ OneKind'
  <2>1. Len(proc'.saved) <= conf.maxKeep
    BY <1>2, <1>6
  <2>2. \A i \in DOMAIN proc'.saved : proc'.saved[i] < proc.step /\ proc'.saved[i] <= proc.step
    BY <1>7, <1>9
  <2>3. \A i, j \in DOMAIN proc'.saved : i < j => proc'.saved[i] < proc'.saved[j]
    <3>1. SUFFICES ASSUME NEW i \in DOMAIN proc'.saved, NEW j \in DOMAIN proc'.saved, i < j
                   PROVE  proc.saved[i + d] < proc.saved[j + d]
      BY <1>9
    <3>2. i + d \in 1..n /\ j + d \in 1..n /\ i + d < j + d
      BY <1>9, <3>1
    <3> QED  BY <1>8, <3>2
  <2> QED  BY <1>1, <1>2, <1>10, <2>1, <2>2, <2>3 DEF Inv, Remembers, OneKind
<1>12. Course'
  <2>1. proc.lastSaved < proc.step /\ proc.lastSaved # proc.step
    BY <1>1, TrainingFacts DEF Inv, Course, At, Before
  <2> QED
    BY <1>1, <1>2, <1>4, <2>1
    DEF Inv, Course, At, Before, Save2, Saves, After, LastStep
<1>13. ASSUME Roomy' PROVE Tracks'
  <2>1. Tracks /\ conf.maxKeep >= 2 /\ ~ruined  BY <1>1, <1>13 DEF Inv, Roomy
  <2>2. n > 0 => tracker = proc.saved[n]
    BY <1>1, <1>3, <2>1 DEF Tracks, At, Save2
  <2>3. ASSUME tracker \in Steps PROVE actor'[tracker] = "saved"
    <3>1. actor[tracker] = "saved"
      BY <2>1, <2>3 DEF Tracks, TrackedIsLoadable
    <3>2. d = 1 => tracker # proc.saved[1]
      BY <1>2, <1>3, <1>8, <2>1, <2>2
    <3> QED  BY <1>2, <2>3, <3>1, <3>2
  <2>4. proc'.saved # <<>> => tracker = proc'.saved[Len(proc'.saved)]
    <3>1. SUFFICES ASSUME proc'.saved # <<>>
                   PROVE  tracker = proc'.saved[Len(proc'.saved)]
      OBVIOUS
    <3>2. proc'.saved \in Seq(Steps)  BY <1>2 DEF Process
    <3>3. Len(proc'.saved) > 0        BY <3>1, <3>2
    <3>4. Len(proc'.saved) = n - d /\ n - d \in 1..(n - d) /\ n > 0
      BY <1>2, <1>3, <3>3
    <3>5. n - d \in DOMAIN proc'.saved
      BY <1>2, <1>3, <3>4
    <3>6. proc'.saved[n - d] = proc.saved[(n - d) + d]
      BY <1>9, <3>5
    <3>7. (n - d) + d = n
      OBVIOUS
    <3> QED  BY <2>2, <3>4, <3>6, <3>7
  <2>5. tracker \in Steps => tracker <= proc.step /\ tracker < proc.step
    BY <1>1, <2>1 DEF Tracks, Pending, At, Before
  <2> QED  BY <1>1, <1>2, <1>4, <2>3, <2>4, <2>5 DEF Tracks, TrackedIsLoadable
<1>14. ASSUME OnlyBest' PROVE HoldsBest'
  <2>1. HoldsBest  BY <1>1, <1>14 DEF Inv, OnlyBest
  <2>2. \A i \in 1..n : record.step \in Steps /\ record.step = proc.saved[i] => i = n
    BY <1>1, <1>3, <2>1 DEF HoldsBest, MayPrune, At, Before
  <2>3. ASSUME record.step \in Steps PROVE actor'[record.step] = "saved"
    <3>1. conf.saveBest
      BY <2>1, <2>3, StepsAreNumbers DEF HoldsBest, NoRecord
    <3>2. d = 1 => n >= 2  BY <1>2, <1>3, <1>6, <3>1
    <3>3. d = 1 => record.step # proc.saved[1]
      BY <1>3, <2>2, <2>3, <3>2
    <3>4. actor[record.step] = "saved"
      BY <2>1, <2>3 DEF HoldsBest
    <3> QED  BY <1>2, <2>3, <3>3, <3>4
  <2>4. ASSUME record.step \in Steps, NEW i \in DOMAIN proc'.saved,
               record.step = proc'.saved[i]
        PROVE  i = Len(proc'.saved)
    <3>1. i \in 1..(n - d) /\ i + d \in 1..n /\ record.step = proc.saved[i + d]
      BY <1>9, <2>4
    <3>2. i + d = n  BY <2>2, <2>4, <3>1
    <3> QED  BY <1>2, <1>3, <3>1, <3>2
  <2>5. record.step \in Steps => record.step <= proc.step /\ record.step < proc.step
    BY <1>1, <2>1 DEF HoldsBest, Pending, At, Before
  <2> QED  BY <1>1, <1>2, <1>4, <2>1, <2>3, <2>4, <2>5 DEF HoldsBest
<1> QED  BY <1>5, <1>11, <1>12, <1>13, <1>14 DEF Inv

\* The rest of what was pruned goes; what is whole stays whole.
LEMMA EndPruneKeeps == ASSUME Inv, EndPrune PROVE Inv'
<1>1. /\ At("pruning") /\ Training
      /\ proc' = [proc EXCEPT !.pc = "save", !.going = {}]
      /\ actor' = Become(proc.going, "pruned")
      /\ UNCHANGED <<tracker, record, models, conf, launches, ruined>>
  BY DEF EndPrune, rest, Training, Removing, At
<1>2. /\ proc' \in Process /\ proc'.pc = "save" /\ proc'.step = proc.step
      /\ proc'.saved = proc.saved /\ proc'.lastSaved = proc.lastSaved
      /\ proc'.then = proc.then /\ proc'.best = proc.best /\ proc'.total = proc.total
  BY <1>1, TrainingFacts DEF Process, Places, Before
<1>3. /\ Training' /\ ~At("load")' /\ ~Overwriting'
      /\ ~At("remove old")' /\ ~At("converting best")'
  BY <1>2 DEF Training, Removing, Overwriting, At
<1>4. /\ actor \in [Steps -> ActorState] /\ actor' \in [Steps -> ActorState]
      /\ \A k \in Steps : actor[k] = "saved" => actor'[k] = "saved"
  <2>1. \A k \in proc.going : actor[k] = "partial"
    BY <1>1 DEF Inv, Course
  <2>2. actor \in [Steps -> ActorState]
    BY DEF Inv, Typed
  <2> QED  BY <1>1, <2>1, <2>2 DEF Become, ActorState
<1>5. Typed'
  BY <1>1, <1>2, <1>3, <1>4 DEF Inv, Typed, At
<1>6. \A i \in DOMAIN proc.saved :
        /\ proc.saved[i] \in Steps /\ proc.saved[i] < proc.step
        /\ actor'[proc.saved[i]] = "saved"
  <2>1. proc.saved \in Seq(Steps)
    BY <1>1, TrainingFacts
  <2> QED  BY <1>1, <1>4, <2>1 DEF Inv, Remembers, Pending, At, Before
<1>7. Remembers' /\ OneKind'
  BY <1>1, <1>2, <1>6 DEF Inv, Remembers, OneKind
<1>8. Course'
  <2>1. proc.lastSaved < proc.step /\ proc.lastSaved # proc.step
    BY <1>1, TrainingFacts DEF Inv, Course, At, Before
  <2> QED
    BY <1>1, <1>2, <1>3, <2>1 DEF Inv, Course, At, Before, Save2, Saves, After, LastStep
<1>9. ASSUME Roomy' PROVE Tracks'
  <2>1. Tracks  BY <1>1, <1>9 DEF Inv, Roomy
  <2>2. tracker \in Steps => tracker <= proc.step /\ tracker < proc.step
    BY <1>1, <2>1 DEF Tracks, Pending, At, Before
  <2>3. ~ruined
    BY <1>1, <1>9 DEF Roomy
  <2> QED
    BY <1>1, <1>2, <1>3, <1>4, <2>1, <2>2, <2>3 DEF Tracks, TrackedIsLoadable, Save2, At
<1>10. ASSUME OnlyBest' PROVE HoldsBest'
  <2>1. HoldsBest  BY <1>1, <1>10 DEF Inv, OnlyBest
  <2>2. record.step \in Steps => record.step <= proc.step /\ record.step < proc.step
    BY <1>1, <2>1 DEF HoldsBest, Pending, At, Before
  <2>4. MayPrune  BY <1>1 DEF MayPrune, At, Before
  <2> QED
    BY <1>1, <1>2, <1>3, <1>4, <2>1, <2>2, <2>4 DEF HoldsBest
<1> QED  BY <1>5, <1>7, <1>8, <1>9, <1>10 DEF Inv

\* While the files of this step are written nothing refers to them.
LEMMA BeginSaveKeeps == ASSUME Inv, BeginSave PROVE Inv'
<1>1. /\ At("save") /\ Training /\ Goto("saving") /\ "saving" \in Places
      /\ actor' = [actor EXCEPT ![proc.step] = "partial"]
      /\ UNCHANGED <<tracker, record, models, conf, launches, ruined>>
  BY DEF BeginSave, rest, Training, Removing, At, Places, Before
<1>2. /\ proc' \in Process /\ proc'.pc = "saving" /\ proc'.step = proc.step
      /\ proc'.saved = proc.saved /\ proc'.lastSaved = proc.lastSaved
      /\ proc'.then = proc.then /\ proc'.best = proc.best /\ proc'.total = proc.total
  BY <1>1, TrainingFacts, GotoFacts
<1>3. /\ Training' /\ ~At("load")' /\ ~Overwriting'
      /\ ~At("remove old")' /\ ~At("converting best")'
  BY <1>2 DEF Training, Removing, Overwriting, At
<1>4. /\ actor \in [Steps -> ActorState] /\ actor' \in [Steps -> ActorState]
      /\ \A k \in Steps : k # proc.step => actor'[k] = actor[k]
  BY <1>1 DEF Inv, Typed, ActorState
<1>5. Typed'
  BY <1>1, <1>2, <1>3, <1>4 DEF Inv, Typed
<1>6. \A i \in DOMAIN proc.saved :
        /\ proc.saved[i] \in Steps /\ proc.saved[i] < proc.step /\ proc.saved[i] # proc.step
        /\ actor[proc.saved[i]] = "saved"
  <2>1. SUFFICES ASSUME NEW i \in DOMAIN proc.saved
                 PROVE  /\ proc.saved[i] \in Steps /\ proc.saved[i] < proc.step
                        /\ proc.saved[i] # proc.step
                        /\ actor[proc.saved[i]] = "saved"
    OBVIOUS
  <2>2. proc.saved[i] \in Steps /\ proc.step \in Nat
    BY <1>1, <2>1, TrainingFacts, StepsAreNumbers
  <2>3. proc.saved[i] < proc.step /\ actor[proc.saved[i]] = "saved"
    BY <1>1, <2>1 DEF Inv, Remembers, Pending, At, Before
  <2>4. proc.saved[i] \in Nat
    BY <2>2, StepsAreNumbers
  <2> QED  BY <2>2, <2>3, <2>4
<1>7. Remembers' /\ OneKind'
  BY <1>1, <1>2, <1>4, <1>6 DEF Inv, Remembers, OneKind
<1>8. Course'
  <2>1. proc.lastSaved < proc.step /\ proc.lastSaved # proc.step
    BY <1>1, TrainingFacts DEF Inv, Course, At, Before
  <2> QED
    BY <1>1, <1>2, <1>3, <2>1 DEF Inv, Course, At, Before, Save2, Saves, After, LastStep
<1>9. ASSUME Roomy' PROVE Tracks'
  <2>1. Tracks  BY <1>1, <1>9 DEF Inv, Roomy
  <2>2. tracker \in Steps => tracker <= proc.step /\ tracker < proc.step
    BY <1>1, <2>1 DEF Tracks, Pending, At, Before
  <2>3. tracker \in Steps => tracker # proc.step
    BY <1>1, <2>2, TrainingFacts, StepsAreNumbers
  <2> QED
    BY <1>1, <1>2, <1>3, <1>4, <2>1, <2>2, <2>3 DEF Tracks, TrackedIsLoadable, Save2, At
<1>10. ASSUME OnlyBest' PROVE HoldsBest'
  <2>1. HoldsBest  BY <1>1, <1>10 DEF Inv, OnlyBest
  <2>2. record.step \in Steps => record.step <= proc.step /\ record.step < proc.step
    BY <1>1, <2>1 DEF HoldsBest, Pending, At, Before
  <2>3. record.step \in Steps => record.step # proc.step
    BY <1>1, <2>2, TrainingFacts, StepsAreNumbers
  <2>4. MayPrune  BY <1>1 DEF MayPrune, At, Before
  <2> QED
    BY <1>1, <1>2, <1>3, <1>4, <2>1, <2>2, <2>3, <2>4 DEF HoldsBest
<1> QED  BY <1>5, <1>7, <1>8, <1>9, <1>10 DEF Inv

LEMMA EndSaveKeeps == ASSUME Inv, EndSave PROVE Inv'
<1>1. /\ At("saving") /\ Training
      /\ actor' = [actor EXCEPT ![proc.step] = "saved"]
      /\ proc' = [proc EXCEPT !.pc = "track", !.saved = Append(@, proc.step)]
      /\ UNCHANGED <<tracker, record, models, conf, launches, ruined>>
  BY DEF EndSave, rest, Training, Removing, At
<1>2. /\ proc \in Process /\ proc.step \in Steps /\ proc.step \in Nat
      /\ proc.saved \in Seq(Steps) /\ conf.maxKeep \in Nat \ {0} /\ proc.lastSaved \in Nat
  BY <1>1, TrainingFacts, StepsAreNumbers
<1>3. PICK n \in Nat : n = Len(proc.saved) /\ DOMAIN proc.saved = 1..n
  BY <1>2
<1>4. PICK longer \in Seq(Steps) :
        /\ longer = Append(proc.saved, proc.step)
        /\ Len(longer) = n + 1 /\ DOMAIN longer = 1..(n + 1)
        /\ longer[n + 1] = proc.step
        /\ \A i \in 1..n : longer[i] = proc.saved[i]
  <2>1. Append(proc.saved, proc.step) \in Seq(Steps)
    BY <1>2
  <2>2. Len(Append(proc.saved, proc.step)) = n + 1
    BY <1>2, <1>3
  <2>3. /\ Append(proc.saved, proc.step)[n + 1] = proc.step
        /\ \A i \in 1..n : Append(proc.saved, proc.step)[i] = proc.saved[i]
    BY <1>2, <1>3
  <2>4. DOMAIN Append(proc.saved, proc.step) = 1..(n + 1)
    BY <2>1, <2>2
  <2> QED  BY <2>1, <2>2, <2>3, <2>4, Zenon
<1>5. /\ proc' \in Process /\ proc'.pc = "track" /\ proc'.step = proc.step
      /\ proc'.saved = longer /\ proc'.lastSaved = proc.lastSaved
      /\ proc'.then = proc.then /\ proc'.best = proc.best /\ proc'.total = proc.total
  <2>1. proc' = [proc EXCEPT !.pc = "track", !.saved = longer]
    BY <1>1, <1>4
  <2> QED  BY <1>2, <2>1 DEF Process, Places, Save2
<1>6. /\ Training' /\ ~At("load")' /\ ~Overwriting'
      /\ ~At("remove old")' /\ ~At("converting best")' /\ ~Pending'
  BY <1>5 DEF Training, Removing, Overwriting, At, Pending, Before
<1>7. /\ actor \in [Steps -> ActorState] /\ actor' \in [Steps -> ActorState]
      /\ \A k \in Steps : actor[k] = "saved" => actor'[k] = "saved"
      /\ actor'[proc.step] = "saved"
  BY <1>1, <1>2 DEF Inv, Typed, ActorState
<1>8. Typed'
  BY <1>1, <1>5, <1>6, <1>7 DEF Inv, Typed
<1>9. n < conf.maxKeep
  BY <1>1, <1>3 DEF Inv, Course, At
<1>10. \A i \in 1..n :
         /\ proc.saved[i] \in Steps /\ proc.saved[i] < proc.step
         /\ actor'[proc.saved[i]] = "saved"
  BY <1>1, <1>2, <1>3, <1>7 DEF Inv, Remembers, Pending, At, Before
<1>11. \A i \in 1..(n + 1) : i \in 1..n \/ (i = n + 1 /\ longer[i] = proc.step)
  BY <1>4
<1>12. Remembers' /\ OneKind'
  <2>1. Len(longer) <= conf.maxKeep
    BY <1>2, <1>4, <1>9
  <2>2. \A i \in 1..(n + 1) : actor'[longer[i]] = "saved" /\ longer[i] <= proc.step
    <3>1. ASSUME NEW i \in 1..n
          PROVE  actor'[longer[i]] = "saved" /\ longer[i] <= proc.step
      <4>1. longer[i] = proc.saved[i] /\ proc.saved[i] < proc.step
        BY <1>4, <1>10
      <4>2. proc.saved[i] \in Nat
        BY <1>10, StepsAreNumbers
      <4> QED  BY <1>2, <1>10, <4>1, <4>2
    <3> QED  BY <1>2, <1>4, <1>7, <1>11, <3>1
  <2>3. \A i, j \in 1..(n + 1) : i < j => longer[i] < longer[j]
    <3>1. SUFFICES ASSUME NEW i \in 1..(n + 1), NEW j \in 1..(n + 1), i < j
                   PROVE  longer[i] < longer[j]
      OBVIOUS
    <3>2. i \in 1..n /\ longer[i] = proc.saved[i]
      BY <1>3, <1>4, <3>1
    <3>3. CASE j = n + 1
      BY <1>4, <1>10, <3>2, <3>3
    <3>4. CASE j \in 1..n
      <4>1. longer[j] = proc.saved[j]  BY <1>4, <3>4
      <4>2. proc.saved[i] < proc.saved[j]
        BY <1>1, <1>3, <3>1, <3>2, <3>4 DEF Inv, Remembers
      <4> QED  BY <3>2, <4>1, <4>2
    <3> QED  BY <1>11, <3>3, <3>4
  <2> QED  BY <1>1, <1>4, <1>5, <1>6, <2>1, <2>2, <2>3 DEF Inv, Remembers, OneKind
<1>13. Course'
  <2>1. proc.lastSaved < proc.step /\ proc.lastSaved <= proc.step
    BY <1>1, <1>2 DEF Inv, Course, At, Before
  <2>2. longer # <<>> /\ longer[Len(longer)] = proc.step
    BY <1>3, <1>4
  <2> QED
    BY <1>1, <1>5, <1>6, <2>1, <2>2
    DEF Inv, Course, At, Before, Save2, Saves, After, LastStep
<1>14. ASSUME Roomy' PROVE Tracks'
  <2>1. Tracks  BY <1>1, <1>14 DEF Inv, Roomy
  <2> QED
    BY <1>1, <1>5, <1>6, <1>7, <2>1 DEF Tracks, TrackedIsLoadable, Save2
<1>15. ASSUME OnlyBest' PROVE HoldsBest'
  <2>1. HoldsBest  BY <1>1, <1>15 DEF Inv, OnlyBest
  <2>2. ~MayPrune'  BY <1>5 DEF MayPrune, At, Before
  <2> QED
    BY <1>1, <1>5, <1>6, <1>7, <2>1, <2>2 DEF HoldsBest
<1> QED  BY <1>8, <1>12, <1>13, <1>14, <1>15 DEF Inv

LEMMA OpenTrackerKeeps == ASSUME Inv, OpenTracker PROVE Inv'
<1>1. /\ At("track") /\ Training /\ Goto("tracking") /\ "tracking" \in Places
      /\ tracker' = Torn
      /\ UNCHANGED <<actor, record, models, conf, launches, ruined>>
  BY DEF OpenTracker, rest, Training, Removing, At, Places, Save2
<1>2. /\ proc' \in Process /\ proc'.pc = "tracking" /\ proc'.step = proc.step
      /\ proc'.saved = proc.saved /\ proc'.lastSaved = proc.lastSaved
      /\ proc'.then = proc.then /\ proc'.best = proc.best /\ proc'.total = proc.total
  BY <1>1, TrainingFacts, GotoFacts
<1>3. /\ Training' /\ ~At("load")' /\ ~Overwriting'
      /\ ~At("remove old")' /\ ~At("converting best")' /\ ~Pending'
  BY <1>2 DEF Training, Removing, Overwriting, At, Pending, Before
<1>4. tracker' \notin Steps /\ tracker' # Missing /\ tracker' \in Steps \cup {Missing, Torn}
  BY <1>1, StepsAreNumbers DEF Missing, Torn
<1>5. tracker' <= MaxTotal + launches
  <2>1. launches \in 0..MaxLaunches  BY DEF Inv, Typed
  <2> QED  BY <1>1, <2>1, StepsAreNumbers DEF Torn
<1>6. Typed'
  BY <1>1, <1>2, <1>3, <1>4, <1>5 DEF Inv, Typed
<1>7. Remembers' /\ OneKind'
  BY <1>1, <1>2, <1>3 DEF Inv, Remembers, OneKind
<1>8. Course'
  BY <1>1, <1>2, <1>3 DEF Inv, Course, At, Before, Save2, Saves, After, LastStep
<1>9. Tracks'
  BY <1>2, <1>3, <1>4 DEF Tracks, TrackedIsLoadable, Save2
<1>10. ASSUME OnlyBest' PROVE HoldsBest'
  <2>1. HoldsBest  BY <1>1, <1>10 DEF Inv, OnlyBest
  <2>2. ~MayPrune'  BY <1>2 DEF MayPrune, At, Before
  <2> QED
    BY <1>1, <1>2, <1>3, <1>4, <2>1, <2>2 DEF HoldsBest
<1> QED  BY <1>6, <1>7, <1>8, <1>9, <1>10 DEF Inv

LEMMA WriteTrackerKeeps == ASSUME Inv, WriteTracker PROVE Inv'
<1>1. /\ At("tracking") /\ Training /\ tracker' = proc.step
      /\ proc' = [proc EXCEPT !.pc = proc.then, !.lastSaved = proc.step]
      /\ UNCHANGED <<actor, record, models, conf, launches, ruined>>
  BY DEF WriteTracker, rest, Training, Removing, At
<1>2. /\ proc \in Process /\ proc.step \in Steps /\ proc.step \in Nat
      /\ proc.step \in 1..(MaxTotal + launches)
      /\ proc.saved \in Seq(Steps)
  BY <1>1, TrainingFacts, StepsAreNumbers
<1>3. PICK then \in {"record", "last", "next"} : proc.then = then
  BY <1>1 DEF Inv, Course, Saves, At
<1>4. /\ proc' \in Process /\ proc'.pc = then /\ proc'.step = proc.step
      /\ proc'.saved = proc.saved /\ proc'.lastSaved = proc.step
      /\ proc'.best = proc.best /\ proc'.total = proc.total
  <2>1. proc' = [proc EXCEPT !.pc = then, !.lastSaved = proc.step]
    BY <1>1, <1>3
  <2> QED  BY <1>2, <2>1 DEF Process, Places
<1>5. /\ Training' /\ ~At("load")' /\ ~Overwriting'
      /\ ~At("remove old")' /\ ~At("converting best")' /\ ~Pending'
      /\ proc'.pc \notin Save2
  BY <1>4 DEF Training, Removing, Overwriting, At, Pending, Before, Save2
<1>6. /\ then = "record" => conf.saveBest /\ proc.best.step = proc.step
      /\ then = "last" => conf.saveFreq > 0
      /\ then = "next" => LastStep
      /\ proc.saved # <<>> /\ proc.saved[Len(proc.saved)] = proc.step
  BY <1>1, <1>3 DEF Inv, Course, Saves, Save2, At
<1>7. actor[proc.step] = "saved"
  <2>1. Len(proc.saved) \in DOMAIN proc.saved
    BY <1>2, <1>6
  <2> QED  BY <1>1, <1>6, <2>1 DEF Inv, Remembers
<1>8. proc.step <= proc.step /\ proc.step <= MaxTotal + launches
  BY <1>2, StepsAreNumbers
<1>9. Typed'
  BY <1>1, <1>2, <1>4, <1>5, <1>8 DEF Inv, Typed
<1>10. Remembers' /\ OneKind'
  BY <1>1, <1>4, <1>5 DEF Inv, Remembers, OneKind
<1>11. Course'
  BY <1>1, <1>4, <1>5, <1>6, <1>8
  DEF Inv, Course, At, Before, Save2, Saves, After
<1>12. Tracks'
  BY <1>1, <1>2, <1>4, <1>5, <1>6, <1>7, <1>8 DEF Tracks, TrackedIsLoadable
<1>13. ASSUME OnlyBest' PROVE HoldsBest'
  <2>1. HoldsBest /\ conf.saveFreq = 0  BY <1>1, <1>13 DEF Inv, OnlyBest
  <2>2. ~MayPrune'
    <3>1. then # "last"  BY <1>6, <2>1
    <3>2. then = "next" => LastStep'  BY <1>4, <1>6 DEF LastStep
    <3> QED  BY <1>4, <3>1, <3>2 DEF MayPrune, At, Before
  <2>3. tracker' # Missing  BY <1>1, <1>2, StepsAreNumbers
  <2>4. record.step \in Steps => record.step <= proc.step
    BY <1>1, <2>1 DEF HoldsBest
  <2> QED
    BY <1>1, <1>4, <1>5, <2>1, <2>2, <2>3, <2>4 DEF HoldsBest
<1> QED  BY <1>9, <1>10, <1>11, <1>12, <1>13 DEF Inv

LEMMA OpenRecordKeeps == ASSUME Inv, OpenRecord PROVE Inv'
<1>1. /\ At("record") /\ Training /\ Goto("recording") /\ "recording" \in Places
      /\ record' = TornRecord
      /\ UNCHANGED <<actor, tracker, models, conf, launches, ruined>>
  BY DEF OpenRecord, rest, Training, Removing, At, Places
<1>2. /\ proc' \in Process /\ proc'.pc = "recording" /\ proc'.step = proc.step
      /\ proc'.saved = proc.saved /\ proc'.lastSaved = proc.lastSaved
      /\ proc'.then = proc.then /\ proc'.best = proc.best /\ proc'.total = proc.total
  BY <1>1, TrainingFacts, GotoFacts
<1>3. /\ Training' /\ ~At("load")' /\ ~Overwriting'
      /\ ~At("remove old")' /\ ~At("converting best")' /\ ~Pending'
  BY <1>2 DEF Training, Removing, Overwriting, At, Pending, Before
<1>4. record' \in Scored /\ record'.step \notin Steps
  BY <1>1, StepsAreNumbers DEF TornRecord, Scored, Unscored, Torn
<1>5. Typed'
  BY <1>1, <1>2, <1>3, <1>4 DEF Inv, Typed
<1>6. Remembers' /\ OneKind'
  BY <1>1, <1>2, <1>3 DEF Inv, Remembers, OneKind
<1>7. Course'
  BY <1>1, <1>2, <1>3 DEF Inv, Course, At, Before, Save2, Saves, After, LastStep
<1>8. ASSUME Roomy' PROVE Tracks'
  <2>1. Tracks  BY <1>1, <1>8 DEF Inv, Roomy
  <2> QED
    BY <1>1, <1>2, <1>3, <2>1 DEF Tracks, TrackedIsLoadable, Save2, At
<1>9. conf.saveBest
  BY <1>1 DEF Inv, Course, At
<1>10. HoldsBest'
  BY <1>1, <1>3, <1>4, <1>9 DEF HoldsBest
<1> QED  BY <1>5, <1>6, <1>7, <1>8, <1>10 DEF Inv

LEMMA WriteRecordKeeps == ASSUME Inv, WriteRecord PROVE Inv'
<1>1. /\ At("recording") /\ Training /\ Goto("periodic") /\ "periodic" \in Places
      /\ record' = proc.best
      /\ UNCHANGED <<actor, tracker, models, conf, launches, ruined>>
  BY DEF WriteRecord, rest, Training, Removing, At, Places
<1>2. /\ proc \in Process /\ proc.step \in Steps /\ proc.step \in Nat
      /\ proc.saved \in Seq(Steps)
      /\ conf.saveBest => conf.maxKeep >= 2
  BY <1>1, TrainingFacts, StepsAreNumbers
<1>3. /\ proc' \in Process /\ proc'.pc = "periodic" /\ proc'.step = proc.step
      /\ proc'.saved = proc.saved /\ proc'.lastSaved = proc.lastSaved
      /\ proc'.then = proc.then /\ proc'.best = proc.best /\ proc'.total = proc.total
  BY <1>1, <1>2, GotoFacts
<1>4. conf.saveBest /\ proc.lastSaved = proc.step /\ proc.best.step = proc.step
  BY <1>1 DEF Inv, Course, At
<1>5. /\ Training' /\ ~At("load")' /\ ~Overwriting'
      /\ ~At("remove old")' /\ ~At("converting best")' /\ ~Pending'
  BY <1>3, <1>4 DEF Training, Removing, Overwriting, At, Pending, Before
<1>6. record' \in Scored
  BY <1>1, <1>2 DEF Process
<1>7. Typed'
  BY <1>1, <1>3, <1>5, <1>6 DEF Inv, Typed
<1>8. Remembers' /\ OneKind'
  BY <1>1, <1>3, <1>5 DEF Inv, Remembers, OneKind
<1>9. Course'
  BY <1>1, <1>3, <1>4, <1>5 DEF Inv, Course, At, Before, Save2, Saves, After, LastStep
<1>10. ASSUME Roomy' PROVE Tracks'
  <2>1. Tracks  BY <1>1, <1>10 DEF Inv, Roomy
  <2> QED
    BY <1>1, <1>3, <1>5, <2>1 DEF Tracks, TrackedIsLoadable, Save2, At
<1>11. PICK n \in Nat : n = Len(proc.saved) /\ DOMAIN proc.saved = 1..n
  BY <1>2
<1>12. /\ n \in 1..n /\ proc.saved[n] = proc.step
       /\ actor[proc.step] = "saved"
       /\ \A i \in 1..n : proc.saved[i] = proc.step => i = n
  <2>1. proc.saved # <<>> /\ proc.saved[n] = proc.step
    BY <1>1, <1>4, <1>11 DEF Inv, Course
  <2>2. n \in 1..n
    BY <1>2, <1>11, <2>1
  <2>3. actor[proc.step] = "saved"
    BY <1>1, <1>11, <2>1, <2>2 DEF Inv, Remembers
  <2>4. ASSUME NEW i \in 1..n, proc.saved[i] = proc.step, i # n
        PROVE  FALSE
    <3>1. i < n  BY <2>4
    <3>2. proc.saved[i] < proc.saved[n]
      BY <1>1, <1>11, <2>2, <2>4, <3>1 DEF Inv, Remembers
    <3> QED  BY <1>2, <2>1, <2>4, <3>2
  <2> QED  BY <2>1, <2>2, <2>3, <2>4
<1>13. ASSUME OnlyBest' PROVE HoldsBest'
  <2>1. HoldsBest /\ Roomy
    BY <1>1, <1>2, <1>4, <1>13 DEF Inv, OnlyBest, Roomy
  <2>2. tracker = proc.step
    BY <1>1, <1>11, <1>12, <2>1 DEF Inv, Tracks, At, Save2
  <2>3. tracker # Missing /\ proc.step <= proc.step
    BY <1>2, <2>2, StepsAreNumbers
  <2>4. record'.step = proc.step
    BY <1>1, <1>4
  <2> QED
    BY <1>1, <1>3, <1>4, <1>5, <1>11, <1>12, <2>2, <2>3, <2>4 DEF HoldsBest
<1> QED  BY <1>7, <1>8, <1>9, <1>10, <1>13 DEF Inv

-----------------------------------------------------------------------------
(***************************************************************************)
(* After training.                                                         *)
(***************************************************************************)
\* Something was saved, so there is a last checkpoint.
LEMMA LastIsStep == ASSUME Inv, proc.pc \in After PROVE LastOnDisk \in Steps
<1>1. Training  BY DEF Training, Removing, After
<1>2. proc.saved \in Seq(Steps)
  BY <1>1, TrainingFacts
<1>3. proc.saved # <<>>
  BY <1>1 DEF Inv, Course
<1>4. PICK s \in Steps : actor[s] = "saved"
  <2>1. 1 \in DOMAIN proc.saved  BY <1>2, <1>3
  <2> QED  BY <1>1, <1>2, <2>1 DEF Inv, Remembers
<1> DEFINE there == {k \in Steps : OnDisk(k)}
<1>5. there # {}
  BY <1>4 DEF OnDisk
<1>6. there \in SUBSET (1..(MaxTotal + MaxLaunches))
  BY DEF Steps
<1>7. MaxTotal + MaxLaunches \in Nat
  BY StepsAreNumbers
<1> HIDE DEF there
<1>8. Max(there) \in there
  BY <1>5, <1>6, <1>7, MaxIsIn
<1> QED  BY <1>8 DEF there, LastOnDisk

\* The conversions touch nothing but the models.
LEMMA AfterKeeps ==
  ASSUME Inv, proc.pc \in After,
         proc' \in Process, proc'.pc \in After,
         UNCHANGED <<actor, tracker, record, conf, launches, ruined>>,
         models' \in [Name -> Entry],
         proc'.step = proc.step, proc'.saved = proc.saved,
         proc'.lastSaved = proc.lastSaved,
         At("converting best")' => record.step \in Steps
  PROVE  Inv'
<1>1. Training /\ Training'
  BY DEF Training, Removing, After
<1>2. /\ proc.pc \notin Save2 /\ proc'.pc \notin Save2
      /\ ~Pending' /\ ~MayPrune'
  BY DEF After, Save2, Pending, MayPrune, Before, At
<1>3. Course'
  BY <1>1 DEF Inv, Course, After, At, Before, Save2, Saves
<1> QED  BY <1>1, <1>2, <1>3, StayKeeps

LEMMA GoingOnKeeps ==
  ASSUME Inv, proc.pc \in After, NEW place \in After, Goto(place),
         place = "converting best" => record.step \in Steps,
         UNCHANGED <<actor, tracker, record, conf, launches, ruined>>,
         models' \in [Name -> Entry]
  PROVE  Inv'
<1>1. proc \in Process
  BY TrainingFacts DEF Training, Removing, After
<1>2. place \in Places
  BY DEF Places
<1>3. /\ proc' \in Process /\ proc'.pc = place /\ proc'.step = proc.step
      /\ proc'.saved = proc.saved /\ proc'.lastSaved = proc.lastSaved
  BY <1>1, <1>2, GotoFacts
<1> QED  BY <1>3, AfterKeeps DEF At

LEMMA BeginConvertKeeps ==
  ASSUME Inv, proc.pc \in After, NEW label \in Name, NEW step, NEW merging \in After,
         NEW next \in After, next # "converting best",
         merging = "converting best" => record.step \in Steps,
         BeginConvert(label, step, merging, next),
         UNCHANGED <<actor, tracker, record, conf, launches, ruined>>
  PROVE  Inv'
<1>1. models \in [Name -> Entry] /\ Half \in Entry /\ Absent \in Entry
  BY DEF Inv, Typed, Entry
<1>2. CASE Goto(next) /\ UNCHANGED models
  BY <1>1, <1>2, GoingOnKeeps
<1>3. CASE Goto(merging) /\ \E entry \in {Absent, Half} : models' = [models EXCEPT ![label] = entry]
  <2>1. models' \in [Name -> Entry]  BY <1>1, <1>3
  <2> QED  BY <1>3, <2>1, GoingOnKeeps
<1> QED  BY <1>2, <1>3 DEF BeginConvert

LEMMA EndConvertKeeps ==
  ASSUME Inv, proc.pc \in After, NEW label \in {"best", "last"}, NEW step \in Steps,
         NEW next \in After, next # "converting best",
         EndConvert(label, step, next),
         UNCHANGED <<actor, tracker, record, conf, launches, ruined>>
  PROVE  Inv'
<1>1. models \in [Name -> Entry] /\ Model(step) \in Entry /\ label \in Name
  BY DEF Inv, Typed, Entry, Name
<1>2. proc \in Process
  BY TrainingFacts DEF Training, Removing, After
<1>3. CASE /\ models' = [models EXCEPT ![label] = Model(step)]
           /\ proc' = [proc EXCEPT !.pc = next, !.converted = @ \cup {label}]
  <2>1. models' \in [Name -> Entry]  BY <1>1, <1>3
  <2>2. proc.converted \cup {label} \in SUBSET {"best", "last"}
    BY <1>2 DEF Process
  <2>3. next \in Places
    BY DEF Places
  <2>4. /\ proc' \in Process /\ proc'.pc = next /\ proc'.step = proc.step
        /\ proc'.saved = proc.saved /\ proc'.lastSaved = proc.lastSaved
    BY <1>2, <1>3, <2>2, <2>3 DEF Process
  <2> QED  BY <2>1, <2>4, AfterKeeps DEF At
<1>4. CASE Fail /\ UNCHANGED models
  BY <1>4, DyingKeeps DEF Fail
<1> QED  BY <1>3, <1>4 DEF EndConvert

LEMMA ConvertBestKeeps == ASSUME Inv, ConvertBest PROVE Inv'
<1>1. /\ UNCHANGED <<actor, tracker, record, conf, launches, ruined>>
      /\ models \in [Name -> Entry]
  BY DEF ConvertBest, rest, Inv, Typed
<1>2. proc.pc \in After
  BY DEF ConvertBest, At, After
<1>3. CASE /\ At("convert best") /\ BestOnDisk
           /\ BeginConvert("best", record.step, "converting best", "convert last")
  BY <1>1, <1>2, <1>3, BeginConvertKeeps DEF BestOnDisk, Name, After
<1>4. CASE Goto("convert last") /\ UNCHANGED models
  BY <1>1, <1>2, <1>4, GoingOnKeeps DEF After
<1>5. CASE At("converting best") /\ EndConvert("best", record.step, "convert last")
  <2>1. record.step \in Steps
    BY <1>5 DEF Inv, Typed
  <2> QED  BY <1>1, <1>2, <1>5, <2>1, EndConvertKeeps DEF After
<1> QED  BY <1>3, <1>4, <1>5 DEF ConvertBest

LEMMA ConvertLastKeeps == ASSUME Inv, ConvertLast PROVE Inv'
<1>1. UNCHANGED <<actor, tracker, record, conf, launches, ruined>>
  BY DEF ConvertLast, rest
<1>2. proc.pc \in After
  BY DEF ConvertLast, At, After
<1>3. CASE BeginConvert("last", LastOnDisk, "converting last", "clear")
  BY <1>1, <1>2, <1>3, BeginConvertKeeps DEF Name, After
<1>4. CASE EndConvert("last", LastOnDisk, "clear")
  BY <1>1, <1>2, <1>4, LastIsStep, EndConvertKeeps DEF After
<1> QED  BY <1>3, <1>4 DEF ConvertLast

LEMMA OutputKeeps == ASSUME Inv, ClearOutput \/ LinkOutput PROVE Inv'
<1>1. /\ UNCHANGED <<actor, tracker, record, conf, launches, ruined>>
      /\ models \in [Name -> Entry]
  BY DEF ClearOutput, LinkOutput, rest, Inv, Typed
<1>2. proc.pc \in After
  BY DEF ClearOutput, LinkOutput, At, After
<1>3. PICK entry \in Entry, place \in {"clear", "link", "clean up"} :
        Goto(place) /\ (UNCHANGED models \/ models' = [models EXCEPT ![proc.out] = entry])
  <2>1. /\ Absent \in Entry /\ Half \in Entry /\ Link(Primary) \in Entry
        /\ Shrunk(models[proc.out]) \in {Absent, Half}
    BY DEF Entry, Primary, Shrunk
  <2>2. CASE LinkOutput
    BY <2>1, <2>2 DEF LinkOutput
  <2>3. CASE ClearOutput
    <3>1. \/ Goto("clean up") /\ UNCHANGED models
          \/ /\ models' = [models EXCEPT ![proc.out] = Shrunk(models[proc.out])]
             /\ Goto("link") \/ Goto("clear")
      BY <2>3 DEF ClearOutput
    <3> QED  BY <2>1, <3>1
  <2> QED  BY <2>2, <2>3
<1>4. models' \in [Name -> Entry]
  BY <1>1, <1>3
<1> QED  BY <1>1, <1>2, <1>3, <1>4, GoingOnKeeps DEF After

-----------------------------------------------------------------------------
LEMMA Initially ==
  ASSUME OneKind, Init
  PROVE  Inv
<1>1. Idle.pc = "idle"
  BY DEF Idle
<1>2. /\ ~Training /\ ~At("load") /\ ~Overwriting
      /\ ~At("remove old") /\ ~At("converting best")
  BY <1>1 DEF Init, Training, Removing, At, Overwriting
<1>3. NoRecord \in Scored /\ NoRecord.step \notin Steps /\ Missing \notin Steps
  BY StepsAreNumbers DEF NoRecord, Scored, Unscored
<1>4. Typed
  <2>1. 0 \in 0..MaxLaunches /\ Missing <= MaxTotal + 0
    BY StepsAreNumbers DEF Missing
  <2>2. [k \in Steps |-> "none"] \in [Steps -> ActorState]
    BY DEF ActorState
  <2>3. [n \in Name |-> Absent] \in [Name -> Entry]
    BY DEF Entry
  <2> QED  BY <1>2, <1>3, <2>1, <2>2, <2>3 DEF Init, Typed
<1>5. Remembers /\ Course /\ OneKind
  BY <1>2 DEF Remembers, Course, OneKind, Init, At, Training
<1>6. Tracks /\ HoldsBest
  BY <1>2, <1>3 DEF Init, Tracks, TrackedIsLoadable, HoldsBest
<1> QED  BY <1>4, <1>5, <1>6 DEF Inv

LEMMA StepKeeps == ASSUME Inv, Littered, [Next]_vars PROVE Inv'
<1>1. CASE Launch  BY <1>1, LaunchKeeps
<1>2. CASE Remove
  BY <1>2, RemoveEntryKeeps, EndRemovalKeeps, WipeKeeps, RemoveOldKeeps DEF Remove
<1>3. CASE Train
  BY <1>3, LoadKeeps, TrainStepKeeps, ValidateKeeps, SavePeriodicKeeps, SaveLastKeeps,
     NextStepKeeps DEF Train
<1>4. CASE Save
  BY <1>4, PruneKeeps, EndPruneKeeps, BeginSaveKeeps, EndSaveKeeps, OpenTrackerKeeps,
     WriteTrackerKeeps, OpenRecordKeeps, WriteRecordKeeps DEF Save
<1>5. CASE Finish
  BY <1>5, ConvertBestKeeps, ConvertLastKeeps, OutputKeeps, CleanUpKeeps DEF Finish
<1>6. CASE Crash
  BY <1>6, DyingKeeps DEF Crash, Fail, disk
<1>7. CASE UNCHANGED vars
  <2>1. UNCHANGED <<conf, actor, tracker, record, models, proc, launches, ruined>>
    BY <1>7 DEF vars, disk, rest
  <2>2. Typed' /\ OneKind'
    BY <2>1 DEF Inv, Typed, OneKind, Training, Removing, At, Overwriting, Bare,
       HoldsCheckpoints, OnDisk
  <2>3. Remembers'
    BY <2>1 DEF Inv, Remembers, Training, Removing, Pending
  <2>4. Course'
    BY <2>1 DEF Inv, Course, Training, Removing, At, LastStep
  <2>5. Roomy' => Tracks'
    BY <2>1 DEF Inv, Roomy, Tracks, Training, Removing, Pending, At, TrackedIsLoadable
  <2>6. OnlyBest' => HoldsBest'
    BY <2>1 DEF Inv, OnlyBest, HoldsBest, Training, Removing, Pending, At, MayPrune, LastStep
  <2> QED  BY <2>2, <2>3, <2>4, <2>5, <2>6 DEF Inv
<1> QED  BY <1>1, <1>2, <1>3, <1>4, <1>5, <1>6, <1>7 DEF Next

\* Whatever is written is written by a process that has dumped rollouts.
LEMMA LitteredKeeps == ASSUME Inv, Littered, [Next]_vars PROVE Littered'
<1>1. CASE UNCHANGED <<actor, tracker, record, rollouts>> /\ ~(Training /\ ~At("train"))'
  BY <1>1 DEF Littered, Bare, HoldsCheckpoints, OnDisk
<1>2. CASE UNCHANGED rollouts /\ Training /\ ~At("train")
  BY <1>2 DEF Littered
<1>3. CASE UNCHANGED rollouts /\ ~Training' /\ (Bare => Bare')
  BY <1>3 DEF Littered
<1>4. CASE Launch
  <2>1. ASSUME NEW place \in {"load", "discard"}, NEW total, NEW resume, NEW out,
               Start(place, total, resume, out)
        PROVE  Littered'
    <3>1. proc'.pc = place /\ UNCHANGED <<actor, tracker, record, rollouts>>
      BY <2>1 DEF Start
    <3>2. ~Training'
      BY <3>1 DEF Training, Removing
    <3> QED  BY <1>1, <3>1, <3>2
  <2>2. PICK total \in conf.totals : \/ LaunchFresh(total) \/ LaunchOverwrite(total)
                                     \/ LaunchContinue(total) \/ LaunchResume(total)
    BY <1>4 DEF Launch
  <2>3. CASE LaunchFresh(total) \/ LaunchContinue(total)
    BY <2>1, <2>3 DEF LaunchFresh, LaunchContinue, LetIn
  <2>4. CASE LaunchOverwrite(total) \/ LaunchResume(total)
    BY <2>1, <2>4 DEF LaunchOverwrite, LaunchResume
  <2> QED  BY <2>2, <2>3, <2>4
<1>5. CASE RemoveEntry \/ RemoveOld
  <2>1. /\ proc.pc \in {"discard", "remove all", "remove old"}
        /\ proc \in Process /\ UNCHANGED rollouts
    BY <1>5, NotIdle DEF RemoveEntry, RemoveOld, Inv, At
  <2>2. proc' = Idle \/ \E going : proc' = [proc EXCEPT !.going = going]
    <3>1. proc' = [proc EXCEPT !.going = proc.going] \/ proc' # proc
      BY <2>1 DEF Process
    <3> QED  BY <1>5, <3>1 DEF RemoveEntry, RemoveOld, Rot
  <2>3. ~Training'
    <3>1. CASE proc' = Idle
      BY <3>1 DEF Training, Idle
    <3>2. ASSUME NEW going, proc' = [proc EXCEPT !.going = going] PROVE ~Training'
      <4>1. proc'.pc = proc.pc
        BY <2>1, <3>2 DEF Process
      <4> QED  BY <2>1, <4>1 DEF Training, Removing
    <3> QED  BY <2>2, <3>1, <3>2
  <2>4. Bare => Bare'
    <3>1. ASSUME Bare PROVE Bare'
      <4>1. /\ \A k \in Steps : ~OnDisk(k)
            /\ tracker = Missing /\ record = NoRecord
        BY <3>1 DEF Bare, HoldsCheckpoints
      <4>2. UNCHANGED <<actor, tracker, record>>
        BY <1>5, <4>1 DEF RemoveEntry, RemoveOld
      <4> QED  BY <3>1, <4>2 DEF Bare, HoldsCheckpoints, OnDisk
    <3> QED  BY <3>1
  <2> QED  BY <1>3, <2>1, <2>3, <2>4
<1>6. CASE EndRemoval
  <2>1. ~Training'
    <3>1. CASE proc' = Idle
      BY <3>1 DEF Training, Idle
    <3>2. CASE At("discard") /\ Goto("wipe")
      <4>1. proc'.pc = "wipe"
        BY <3>2, NotIdle, GotoFacts DEF Inv, At, Places, Removing
      <4> QED  BY <4>1 DEF Training, Removing
    <3> QED  BY <1>6, <3>1, <3>2 DEF EndRemoval
  <2> QED  BY <1>1, <1>6, <2>1 DEF EndRemoval, disk
<1>7. CASE Wipe
  <2>1. Bare /\ UNCHANGED <<actor, tracker, record>>
    BY <1>7 DEF Wipe, Inv, Typed, Overwriting, At
  <2>2. ~Training'
    <3>1. CASE UNCHANGED proc
      BY <1>7, <3>1 DEF Wipe, Training, Removing, At
    <3>2. CASE At("wipe") /\ Goto("load")
      <4>1. proc'.pc = "load"
        BY <3>2, NotIdle, GotoFacts DEF Inv, At, Places
      <4> QED  BY <4>1 DEF Training
    <3> QED  BY <1>7, <3>1, <3>2 DEF Wipe
  <2> QED  BY <2>1, <2>2 DEF Littered, Bare, HoldsCheckpoints, OnDisk
<1>8. CASE Load
  <2>1. proc' = Idle \/ \E s : Loaded(s)
    BY <1>8, StepsAreNumbers DEF Load, Fail, Inv, Typed, Missing, Torn
  <2>2. proc \in Process
    BY <1>8, NotIdle DEF Load, Inv, At
  <2>3. ~(Training /\ ~At("train"))'
    <3>1. CASE proc' = Idle
      BY <3>1 DEF Training, Idle
    <3>2. ASSUME NEW s, Loaded(s) PROVE At("train")'
      BY <2>2, <3>2 DEF Loaded, Process, At
    <3> QED  BY <2>1, <3>1, <3>2
  <2> QED  BY <1>1, <1>8, <2>3 DEF Load, disk
<1>9. CASE TrainStep
  BY <1>9 DEF TrainStep, Littered
<1>10. CASE Validate \/ SavePeriodic \/ SaveLast \/ NextStep \/ Save \/ Finish
  BY <1>2, <1>10
  DEF Validate, SavePeriodic, SaveLast, NextStep, disk, Save, Prune, EndPrune, BeginSave,
      EndSave, OpenTracker, WriteTracker, OpenRecord, WriteRecord, Finish, ConvertBest,
      ConvertLast, ClearOutput, LinkOutput, CleanUpCheckpoints, Training, Removing, At
<1>11. CASE Crash
  <2>1. ~Training'
    BY <1>11 DEF Crash, Fail, Training, Idle
  <2> QED  BY <1>1, <1>11, <2>1 DEF Crash, disk
<1>12. CASE UNCHANGED vars
  BY <1>12 DEF vars, disk, Littered, Training, Removing, At, Bare, HoldsCheckpoints, OnDisk
<1> QED
  BY <1>4, <1>5, <1>6, <1>7, <1>8, <1>9, <1>10, <1>11, <1>12 DEF Next, Remove, Train

LEMMA InitiallyLittered == ASSUME Init PROVE Littered
BY DEF Init, Littered, Bare, HoldsCheckpoints, OnDisk, Training, Idle

LEMMA AlwaysInv ==
  ASSUME \A c \in Configs : c.saveBest => c.saveFreq = 0
  PROVE  Spec => []Inv
<1>1. Init => Inv /\ Littered
  BY Initially, InitiallyLittered DEF Init, OneKind
<1>2. Inv /\ Littered /\ [Next]_vars => (Inv /\ Littered)'
  BY StepKeeps, LitteredKeeps
<1> QED  BY <1>1, <1>2, PTL DEF Spec

-----------------------------------------------------------------------------
(***************************************************************************)
(* Launches that resume nothing: the invariant behind FinishedRun, on top  *)
(* of Inv.  It needs no assumption on what is cleaned up: such a launch    *)
(* starts from a directory without checkpoints.                            *)
(***************************************************************************)
Fresh == (At("load") \/ Training) /\ ~proc.resume /\ conf.saveFreq = 0

\* What a launch that resumes nothing finds.
Begins == At("load") => Bare /\ proc.out = "model" /\ proc.converted = {}

\* The process's best score is the highest of the launch.
Judged ==
  /\ val \in [Steps -> Nat \cup {Unscored}]
  /\ \A k \in Steps :
       k > proc.step \/ (k = proc.step /\ proc.pc \in {"train", "validate"}) =>
         val[k] = Unscored
  /\ \/ proc.best = NoRecord
     \/ conf.saveBest /\ proc.best.step \in Steps /\ proc.best.score \in Nat
  /\ conf.saveBest =>
       /\ \A k \in Steps : val[k] <= proc.best.score
       /\ \E k \in Steps : val[k] = proc.best.score

\* From the save of a new best checkpoint until its record is written.
SavingBest ==
  \/ proc.pc \in Saves /\ proc.then = "record"
  \/ proc.pc \in {"record", "recording"}

\* Otherwise what the process knows is what the record says, and the manager's
\* next prune does not meet the best checkpoint.
Held ==
  /\ \A k \in Steps : OnDisk(k) => k <= proc.step
  /\ ~SavingBest =>
       /\ record = proc.best
       /\ proc.best.step \in Steps =>
            /\ actor[proc.best.step] = "saved"
            /\ proc.best.step <= proc.step
            /\ Pending => proc.best.step < proc.step
            /\ MayPrune => \A i \in DOMAIN proc.saved :
                              proc.best.step = proc.saved[i] => i = Len(proc.saved)

\* Some validation of the launch had a score.
HasBest == proc.best.step \in Steps

Bests == IF HasBest THEN {"best"} ELSE {}
Lasts == {"convert last", "converting last"}
Done  == {"clear", "link", "clean up"}

\* What has been converted at each place, and into what.
Converts ==
  /\ proc.out = "model"
  /\ proc.pc \in After => LastStep
  /\ proc.pc \notin Lasts \cup Done => proc.converted = {}
  /\ proc.pc \in Lasts => proc.converted = Bests
  /\ proc.pc \in Done => proc.converted = Bests \cup {"last"}
  /\ proc.pc \in Lasts \cup Done /\ HasBest => models["best"] = Model(record.step)
  /\ proc.pc \in Done => models["last"] = Model(proc.step)
  /\ At("clean up") => models["model"] = Link(IF HasBest THEN "best" ELSE "last")

FreshInv ==
  /\ ~Training => val = NoScores
  /\ Overwriting => proc.out = "model" /\ proc.converted = {}
  /\ Fresh => Begins
  /\ Fresh /\ Training => Judged /\ Held /\ Converts

\* A step whose save has finished is the last that the manager remembers.
LEMMA StepIsSaved ==
  ASSUME Inv, Training, proc.pc \in Save2 \/ proc.lastSaved = proc.step
  PROVE  /\ actor[proc.step] = "saved"
         /\ Len(proc.saved) \in DOMAIN proc.saved
         /\ proc.saved[Len(proc.saved)] = proc.step
         /\ \A i \in DOMAIN proc.saved : proc.saved[i] = proc.step => i = Len(proc.saved)
<1>1. proc.saved \in Seq(Steps)
  BY TrainingFacts
<1>2. proc.saved # <<>> /\ proc.saved[Len(proc.saved)] = proc.step
  BY DEF Inv, Course
<1>3. PICK n \in Nat : n = Len(proc.saved) /\ DOMAIN proc.saved = 1..n
  BY <1>1
<1>4. n \in 1..n
  BY <1>1, <1>2, <1>3
<1>5. actor[proc.step] = "saved"
  BY <1>2, <1>3, <1>4 DEF Inv, Remembers
<1>6. ASSUME NEW i \in 1..n, proc.saved[i] = proc.step, i # n
      PROVE  FALSE
  <2>1. proc.saved[i] < proc.saved[n]
    BY <1>3, <1>4, <1>6 DEF Inv, Remembers
  <2>2. proc.step \in Nat
    BY TrainingFacts, StepsAreNumbers
  <2> QED  BY <1>2, <1>3, <1>6, <2>1, <2>2
<1> QED  BY <1>2, <1>3, <1>4, <1>5, <1>6

LEMMA LastIsOnDisk ==
  ASSUME Inv, proc.pc \in After
  PROVE  /\ OnDisk(LastOnDisk) /\ actor[proc.step] = "saved"
         /\ LastOnDisk \in Steps /\ proc.step \in Steps
         /\ (\A k \in Steps : OnDisk(k) => k <= proc.step) => LastOnDisk = proc.step
<1> DEFINE there == {k \in Steps : OnDisk(k)}
<1>1. Training  BY DEF Training, Removing, After
<1>2. proc.lastSaved = proc.step
  BY <1>1 DEF Inv, Course
<1>3. proc.step \in Steps /\ actor[proc.step] = "saved"
  BY <1>1, <1>2, TrainingFacts, StepIsSaved
<1>4. proc.step \in there
  BY <1>3 DEF OnDisk
<1>5. there \in SUBSET (1..(MaxTotal + MaxLaunches)) /\ MaxTotal + MaxLaunches \in Nat
  BY StepsAreNumbers DEF Steps
<1>6. Max(there) \in there /\ \A k \in there : Max(there) >= k
  <2> HIDE DEF there
  <2> QED  BY <1>4, <1>5, MaxIsIn
<1>7. LastOnDisk = Max(there)
  BY DEF LastOnDisk
<1>8. LastOnDisk \in Steps /\ OnDisk(LastOnDisk) /\ LastOnDisk >= proc.step
  <2> HIDE DEF there
  <2>1. LastOnDisk \in there /\ LastOnDisk >= proc.step  BY <1>4, <1>6, <1>7
  <2> QED  BY <2>1 DEF there
<1>9. LastOnDisk \in Nat /\ proc.step \in Nat
  BY <1>3, <1>8, StepsAreNumbers
<1> QED  BY <1>3, <1>8, <1>9

\* A launch that trains has begun, and scores count from then on.
LEMMA FreshSuffices ==
  ASSUME Training', Fresh' => Judged' /\ Held' /\ Converts'
  PROVE  FreshInv'
BY DEF FreshInv, Training, Removing, Overwriting, Begins, At

\* Where no process trains or is about to, nothing is said of one.
LEMMA OffFresh ==
  ASSUME ~Training', ~Overwriting', ~At("load")', val' = NoScores
  PROVE  FreshInv'
BY DEF FreshInv, Fresh

LEMMA TrainingStepIsStep ==
  ASSUME Inv', Training'
  PROVE  proc'.step \in Steps
<1>1. proc'.step \in 1..(MaxTotal + launches') /\ launches' \in 0..MaxLaunches
  BY DEF Inv, Typed
<1>2. PICK l \in 0..MaxLaunches : l = launches'
  BY <1>1
<1>3. proc'.step \in 1..(MaxTotal + l)
  BY <1>1, <1>2
<1> QED  BY <1>3, StepsAreNumbers DEF Steps

LEMMA GoneIsNotFresh ==
  ASSUME proc' = Idle, val' = NoScores
  PROVE  FreshInv'
<1>1. Idle.pc = "idle"
  BY DEF Idle
<1> QED  BY <1>1, OffFresh DEF Training, Overwriting, At

\* Steps that move on without a checkpoint, a score or a record.
LEMMA QuietKeeps ==
  ASSUME Inv, FreshInv, Training, Training',
         UNCHANGED <<actor, val, conf>>,
         UNCHANGED record \/ SavingBest',
         proc'.resume = proc.resume, proc'.total = proc.total, proc'.step = proc.step,
         proc'.best = proc.best, proc'.saved = proc.saved,
         proc.pc \in {"train", "validate"} <=> proc'.pc \in {"train", "validate"},
         SavingBest => SavingBest',
         Pending' => Pending,
         MayPrune' => MayPrune,
         Fresh /\ Judged /\ Held /\ Converts => Converts'
  PROVE  FreshInv'
<1>1. SUFFICES ASSUME Fresh' PROVE Judged' /\ Held' /\ Converts'
  BY FreshSuffices
<1>2. Fresh /\ Judged /\ Held /\ Converts
  BY <1>1 DEF FreshInv, Fresh
<1>4. Judged'
  BY <1>2 DEF Judged
<1>5. Held'
  BY <1>2 DEF Held, OnDisk
<1> QED  BY <1>2, <1>4, <1>5

\* Before the conversions there is little to say of them.
LEMMA NotConverting ==
  ASSUME Converts, Training', proc'.pc \notin After, proc.pc \notin After,
         proc'.out = proc.out, proc'.converted = proc.converted
  PROVE  Converts'
BY DEF Converts, After, Lasts, Done, At

LEMMA TrainStepFresh == ASSUME Inv, FreshInv, TrainStep PROVE FreshInv'
<1>1. At("train") /\ Training /\ proc \in Process /\ UNCHANGED <<actor, record, val, conf>>
  BY TrainingFacts DEF TrainStep, rest, At, Training, Removing
<1>2. /\ proc'.pc = "validate" /\ proc'.step = proc.step /\ proc'.saved = proc.saved
      /\ proc'.resume = proc.resume /\ proc'.total = proc.total /\ proc'.best = proc.best
      /\ proc'.out = proc.out /\ proc'.converted = proc.converted
  BY <1>1, GotoFacts DEF TrainStep, Places, Before
<1>3. Training'
  BY <1>2 DEF Training, Removing, Overwriting
<1>4. Converts => Converts'
  BY <1>1, <1>2, <1>3, NotConverting DEF At, After
<1> QED
  BY <1>1, <1>2, <1>3, <1>4, QuietKeeps
  DEF At, SavingBest, Saves, Pending, Before, MayPrune

LEMMA SavePeriodicFresh == ASSUME Inv, FreshInv, SavePeriodic PROVE FreshInv'
<1>1. /\ At("periodic") /\ Training /\ proc \in Process
      /\ UNCHANGED <<actor, record, val, conf>>
  BY TrainingFacts DEF SavePeriodic, rest, disk, At, Training, Removing
<1>2. CASE ~Due(conf.saveFreq)
  <2>1. /\ proc'.pc = "last" /\ proc'.step = proc.step /\ proc'.saved = proc.saved
        /\ proc'.resume = proc.resume /\ proc'.total = proc.total /\ proc'.best = proc.best
        /\ proc'.out = proc.out /\ proc'.converted = proc.converted
        /\ proc'.lastSaved = proc.lastSaved
    BY <1>1, <1>2, GotoFacts DEF SavePeriodic, Places
  <2>2. Training'
    BY <2>1 DEF Training, Removing, Overwriting
  <2>3. Converts => Converts'
    BY <1>1, <2>1, <2>2, NotConverting DEF At, After
  <2> QED
    BY <1>1, <2>1, <2>2, <2>3, QuietKeeps
    DEF At, SavingBest, Saves, Pending, Before, MayPrune
<1>3. CASE Due(conf.saveFreq)
  <2>1. proc'.resume = proc.resume /\ proc'.pc = "prune"
    BY <1>1, <1>3, SaveThenFacts DEF SavePeriodic
  <2>2. conf.saveFreq # 0 /\ conf' = conf
    BY <1>1, <1>3 DEF Due
  <2>3. ~Fresh' /\ Training'
    BY <2>1, <2>2 DEF Fresh, Training, Removing
  <2> QED  BY <2>3, FreshSuffices
<1> QED  BY <1>2, <1>3

LEMMA SaveLastFresh == ASSUME Inv, FreshInv, SaveLast PROVE FreshInv'
<1>1. /\ At("last") /\ Training /\ proc \in Process
      /\ UNCHANGED <<actor, record, val, conf>>
  BY TrainingFacts DEF SaveLast, rest, disk, At, Training, Removing
<1>2. /\ \/ proc'.pc = "prune" /\ proc'.then = "next" /\ proc.lastSaved # proc.step
         \/ proc'.pc = "next" /\ (~LastStep \/ proc.lastSaved = proc.step)
      /\ proc'.step = proc.step /\ proc'.saved = proc.saved
      /\ proc'.resume = proc.resume /\ proc'.total = proc.total /\ proc'.best = proc.best
      /\ proc'.out = proc.out /\ proc'.converted = proc.converted
      /\ proc'.lastSaved = proc.lastSaved
  BY <1>1, GotoFacts, SaveThenFacts DEF SaveLast, Places
<1>3. Training'
  BY <1>2 DEF Training, Removing, Overwriting
<1>4. Converts => Converts'
  BY <1>1, <1>2, <1>3, NotConverting DEF At, After
<1> QED
  BY <1>1, <1>2, <1>3, <1>4, QuietKeeps
  DEF At, SavingBest, Saves, Pending, Before, MayPrune, LastStep

LEMMA OpenTrackerFresh == ASSUME Inv, FreshInv, OpenTracker PROVE FreshInv'
<1>1. /\ At("track") /\ Training /\ proc \in Process
      /\ UNCHANGED <<actor, record, val, conf>>
  BY TrainingFacts DEF OpenTracker, rest, At, Training, Removing
<1>2. /\ proc'.pc = "tracking" /\ proc'.step = proc.step /\ proc'.saved = proc.saved
      /\ proc'.resume = proc.resume /\ proc'.total = proc.total /\ proc'.best = proc.best
      /\ proc'.out = proc.out /\ proc'.converted = proc.converted
      /\ proc'.then = proc.then
  BY <1>1, GotoFacts DEF OpenTracker, Places, Save2
<1>3. Training'
  BY <1>2 DEF Training, Removing, Overwriting
<1>4. Converts => Converts'
  BY <1>1, <1>2, <1>3, NotConverting DEF At, After
<1> QED
  BY <1>1, <1>2, <1>3, <1>4, QuietKeeps
  DEF At, SavingBest, Saves, Pending, Before, MayPrune

LEMMA WriteTrackerFresh == ASSUME Inv, FreshInv, WriteTracker PROVE FreshInv'
<1>1. /\ At("tracking") /\ Training /\ proc \in Process
      /\ proc' = [proc EXCEPT !.pc = proc.then, !.lastSaved = proc.step]
      /\ UNCHANGED <<actor, record, val, conf>>
  BY TrainingFacts DEF WriteTracker, rest, At, Training, Removing
<1>2. PICK then \in {"record", "last", "next"} :
        /\ proc.then = then
        /\ then = "last" => conf.saveFreq > 0
        /\ then = "next" => LastStep
  BY <1>1 DEF Inv, Course, Saves, At
<1>3. /\ proc'.pc = then /\ proc'.step = proc.step /\ proc'.saved = proc.saved
      /\ proc'.resume = proc.resume /\ proc'.total = proc.total /\ proc'.best = proc.best
      /\ proc'.out = proc.out /\ proc'.converted = proc.converted
      /\ proc'.lastSaved = proc.step
  BY <1>1, <1>2 DEF Process
<1>4. Training'
  BY <1>3 DEF Training, Removing, Overwriting
<1>5. Converts => Converts'
  BY <1>1, <1>3, <1>4, NotConverting DEF At, After
<1>6. CASE then = "last"
  <2>1. ~Fresh'
    BY <1>1, <1>2, <1>3, <1>6 DEF Fresh
  <2> QED  BY <1>4, <2>1, FreshSuffices
<1>7. CASE then # "last"
  BY <1>1, <1>2, <1>3, <1>4, <1>5, <1>7, QuietKeeps
  DEF At, SavingBest, Saves, Pending, Before, MayPrune, LastStep
<1> QED  BY <1>6, <1>7

\* While a record is being written it holds nothing.
LEMMA OpenRecordFresh == ASSUME Inv, FreshInv, OpenRecord PROVE FreshInv'
<1>1. /\ At("record") /\ Training /\ proc \in Process /\ UNCHANGED <<actor, val, conf>>
  BY TrainingFacts DEF OpenRecord, rest, At, Training, Removing
<1>2. /\ proc'.pc = "recording" /\ proc'.step = proc.step /\ proc'.saved = proc.saved
      /\ proc'.resume = proc.resume /\ proc'.total = proc.total /\ proc'.best = proc.best
      /\ proc'.out = proc.out /\ proc'.converted = proc.converted
      /\ proc'.lastSaved = proc.lastSaved
  BY <1>1, GotoFacts DEF OpenRecord, Places
<1>3. Training'
  BY <1>2 DEF Training, Removing, Overwriting
<1>4. Converts => Converts'
  BY <1>1, <1>2, <1>3, NotConverting DEF At, After
<1> QED
  BY <1>1, <1>2, <1>3, <1>4, QuietKeeps
  DEF At, SavingBest, Saves, Pending, Before, MayPrune

LEMMA ValidateFresh == ASSUME Inv, FreshInv, Validate PROVE FreshInv'
<1>1. /\ At("validate") /\ Training /\ proc \in Process /\ proc.step \in Steps
      /\ proc.step \in Nat
      /\ UNCHANGED <<actor, record, conf>>
  BY TrainingFacts, StepsAreNumbers DEF Validate, rest, disk, At, Training, Removing
<1>2. proc.best.score \in Nat \cup {Unscored} /\ (proc.best = NoRecord => proc.best.score = Unscored)
  BY <1>1 DEF Process, Scored, NoRecord, Unscored
<1>3. CASE Due(conf.testFreq)
  <2>1. PICK s \in Scores \cup {Unscored} :
          /\ val' = [val EXCEPT ![proc.step] = s]
          /\ IF conf.saveBest /\ s > proc.best.score
             THEN proc' = [proc EXCEPT !.best = [step |-> proc.step, score |-> s],
                                       !.pc = "prune", !.then = "record"]
             ELSE Goto("periodic")
    BY <1>3 DEF Validate
  <2>2. s \in Nat \cup {Unscored}
    BY RunAssumption
  <2>3. CASE conf.saveBest /\ s > proc.best.score
    <3>1. /\ proc'.pc = "prune" /\ proc'.then = "record" /\ proc'.step = proc.step
          /\ proc'.best = [step |-> proc.step, score |-> s]
          /\ proc'.resume = proc.resume /\ proc'.total = proc.total
          /\ proc'.out = proc.out /\ proc'.converted = proc.converted
      BY <1>1, <2>1, <2>3 DEF Process
    <3>2. Training' /\ SavingBest'
      BY <3>1 DEF Training, Removing, SavingBest, Saves
    <3>12. s \in Nat
      BY <1>2, <2>2, <2>3 DEF Unscored
    <3>3. SUFFICES ASSUME Fresh' PROVE Judged' /\ Held' /\ Converts'
      BY <3>2, FreshSuffices
    <3>4. Judged /\ Held /\ Converts
      BY <1>1, <3>1, <3>3 DEF FreshInv, Fresh
    <3>5. Converts'
      BY <1>1, <3>1, <3>2, <3>4, NotConverting DEF At, After
    <3>6. Held'
      BY <1>1, <3>1, <3>2, <3>4 DEF Held, OnDisk
    <3>7. val \in [Steps -> Nat \cup {Unscored}] /\ val'[proc.step] = s
          /\ \A k \in Steps : k # proc.step => val'[k] = val[k]
      BY <1>1, <2>1, <3>4 DEF Judged
    <3>8. val' \in [Steps -> Nat \cup {Unscored}]
      BY <2>1, <2>2, <3>7
    <3>9. \A k \in Steps : val'[k] <= s
      <4>1. SUFFICES ASSUME NEW k \in Steps, k # proc.step PROVE val[k] <= s
        BY <3>7, <3>12
      <4>2. val[k] <= proc.best.score /\ val[k] \in Nat \cup {Unscored}
        BY <2>3, <3>4, <3>7 DEF Judged
      <4> QED  BY <1>2, <2>3, <3>12, <4>2 DEF Unscored
    <3>10. \A k \in Steps : k > proc.step => val'[k] = Unscored
      <4>1. \A k \in Steps : k > proc.step => k # proc.step
        BY <1>1, StepsAreNumbers
      <4> QED  BY <3>4, <3>7, <4>1 DEF Judged
    <3>11. Judged'
      BY <1>1, <2>3, <3>1, <3>7, <3>8, <3>9, <3>10, <3>12 DEF Judged
    <3> QED  BY <3>5, <3>6, <3>11
  <2>4. CASE ~(conf.saveBest /\ s > proc.best.score)
    <3>1. /\ proc'.pc = "periodic" /\ proc'.step = proc.step /\ proc'.best = proc.best
          /\ proc'.resume = proc.resume /\ proc'.total = proc.total
          /\ proc'.saved = proc.saved
          /\ proc'.out = proc.out /\ proc'.converted = proc.converted
      BY <1>1, <2>1, <2>4, GotoFacts DEF Places
    <3>2. Training' /\ ~SavingBest /\ Pending /\ MayPrune
      BY <1>1, <3>1 DEF Training, Removing, SavingBest, Saves, At, Pending, MayPrune, Before
    <3>3. SUFFICES ASSUME Fresh' PROVE Judged' /\ Held' /\ Converts'
      BY <3>2, FreshSuffices
    <3>4. Judged /\ Held /\ Converts
      BY <1>1, <3>1, <3>3 DEF FreshInv, Fresh
    <3>5. Converts'
      BY <1>1, <3>1, <3>2, <3>4, NotConverting DEF At, After
    <3>6. Held'
      BY <1>1, <3>1, <3>2, <3>4 DEF Held, OnDisk
    <3>7. val \in [Steps -> Nat \cup {Unscored}] /\ val'[proc.step] = s
          /\ val[proc.step] = Unscored
          /\ \A k \in Steps : k # proc.step => val'[k] = val[k]
      BY <1>1, <2>1, <3>4 DEF Judged, At
    <3>8. val' \in [Steps -> Nat \cup {Unscored}]
      BY <2>1, <2>2, <3>7
    <3>9. conf.saveBest => s <= proc.best.score
      BY <1>2, <2>2, <2>4 DEF Unscored
    <3>10. conf.saveBest => \A k \in Steps : val'[k] <= proc.best.score
      BY <3>4, <3>7, <3>9 DEF Judged
    <3>11. conf.saveBest => \E k \in Steps : val'[k] = proc.best.score
      <4>1. SUFFICES ASSUME conf.saveBest PROVE \E k \in Steps : val'[k] = proc.best.score
        OBVIOUS
      <4>2. PICK k \in Steps : val[k] = proc.best.score
        BY <3>4, <4>1 DEF Judged
      <4>3. CASE k = proc.step
        <5>1. s = proc.best.score
          BY <1>2, <2>2, <3>7, <3>9, <4>1, <4>2, <4>3 DEF Unscored
        <5> QED  BY <1>1, <3>7, <5>1
      <4> QED  BY <3>7, <4>2, <4>3
    <3>13. \A k \in Steps : k > proc.step => val'[k] = Unscored
      <4>1. \A k \in Steps : k > proc.step => k # proc.step
        BY <1>1, StepsAreNumbers
      <4> QED  BY <3>4, <3>7, <4>1 DEF Judged
    <3>14. Judged'
      BY <1>1, <3>1, <3>4, <3>8, <3>10, <3>11, <3>13 DEF Judged
    <3> QED  BY <3>5, <3>6, <3>14
  <2> QED  BY <2>3, <2>4
<1>4. CASE ~Due(conf.testFreq)
  <2>1. UNCHANGED val /\ Goto("periodic")
    BY <1>4 DEF Validate
  <2>2. /\ proc'.pc = "periodic" /\ proc'.step = proc.step /\ proc'.best = proc.best
        /\ proc'.resume = proc.resume /\ proc'.total = proc.total
        /\ proc'.saved = proc.saved
        /\ proc'.out = proc.out /\ proc'.converted = proc.converted
    BY <1>1, <2>1, GotoFacts DEF Places
  <2>3. Training' /\ ~SavingBest /\ Pending /\ MayPrune
    BY <1>1, <2>2 DEF Training, Removing, SavingBest, Saves, At, Pending, MayPrune, Before
  <2>4. SUFFICES ASSUME Fresh' PROVE Judged' /\ Held' /\ Converts'
    BY <2>3, FreshSuffices
  <2>5. Judged /\ Held /\ Converts
    BY <1>1, <2>2, <2>4 DEF FreshInv, Fresh
  <2>6. Converts'
    BY <1>1, <2>2, <2>3, <2>5, NotConverting DEF At, After
  <2>7. Held'
    BY <1>1, <2>2, <2>3, <2>5 DEF Held, OnDisk
  <2>8. Judged'
    BY <1>1, <2>1, <2>2, <2>5 DEF Judged
  <2> QED  BY <2>6, <2>7, <2>8
<1> QED  BY <1>3, <1>4

\* The manager's oldest checkpoint may go, but it is not the best one.
LEMMA PruneFresh == ASSUME Inv, Inv', FreshInv, Prune PROVE FreshInv'
<1>1. /\ At("prune") /\ Training /\ proc \in Process
      /\ proc.saved \in Seq(Steps)
      /\ conf.maxKeep \in Nat \ {0} /\ (conf.saveBest => conf.maxKeep >= 2)
      /\ UNCHANGED <<record, val, conf>>
  BY TrainingFacts DEF Prune, rest, At, Training, Removing
<1>2. PICK n \in Nat : n = Len(proc.saved) /\ DOMAIN proc.saved = 1..n
  BY <1>1
<1>3. PICK d \in {0, 1} :
        /\ proc'.pc = "pruning" /\ proc'.step = proc.step
        /\ proc'.then = proc.then
        /\ proc'.best = proc.best /\ proc'.total = proc.total
        /\ Len(proc'.saved) = n - d
        /\ DOMAIN proc'.saved = 1..(n - d)
        /\ \A i \in DOMAIN proc'.saved : proc'.saved[i] = proc.saved[i + d]
        /\ d = 1 => n = conf.maxKeep
        /\ \A k \in Steps :
             actor'[k] = IF d = 1 /\ k = proc.saved[1] THEN "partial" ELSE actor[k]
  BY <1>2, PruneFacts
<1>4. /\ proc'.resume = proc.resume
      /\ proc'.out = proc.out /\ proc'.converted = proc.converted
  BY <1>1 DEF Prune, Process
<1>5. Training' /\ ~At("load")' /\ Pending /\ MayPrune
  BY <1>1, <1>3 DEF Training, Removing, Overwriting, At, Pending, MayPrune, Before
<1>6. SUFFICES ASSUME Fresh' PROVE Judged' /\ Held' /\ Converts'
  BY <1>5, FreshSuffices
<1>7. Judged /\ Held /\ Converts
  BY <1>1, <1>4, <1>6 DEF FreshInv, Fresh
<1>8. Converts'
  BY <1>1, <1>3, <1>4, <1>5, <1>7, NotConverting DEF At, After
<1>9. Judged'
  BY <1>1, <1>3, <1>7 DEF Judged, LastStep, At
<1>10. \A k \in Steps : OnDisk(k)' => k <= proc.step
  <2>1. \A i \in 1..n : proc.saved[i] \in Steps /\ actor[proc.saved[i]] = "saved"
    BY <1>1, <1>2 DEF Inv, Remembers
  <2>2. d = 1 => 1 \in 1..n
    BY <1>1, <1>2, <1>3
  <2>3. \A k \in Steps : OnDisk(k)' => OnDisk(k)
    BY <1>3, <2>1, <2>2 DEF OnDisk
  <2> QED  BY <1>7, <2>3 DEF Held
<1>11. ASSUME ~SavingBest', proc.best.step \in Steps
       PROVE  /\ actor'[proc.best.step] = "saved"
              /\ \A i \in DOMAIN proc'.saved :
                    proc.best.step = proc'.saved[i] => i = Len(proc'.saved)
  <2>1. ~SavingBest
    BY <1>1, <1>3, <1>11 DEF SavingBest, Saves, At
  <2>2. \A i \in 1..n : proc.best.step = proc.saved[i] => i = n
    BY <1>2, <1>5, <1>7, <1>11, <2>1 DEF Held
  <2>3. actor[proc.best.step] = "saved"
    BY <1>7, <1>11, <2>1 DEF Held
  <2>4. proc.best # NoRecord
    BY <1>11, StepsAreNumbers DEF NoRecord
  <2>5. conf.saveBest
    BY <1>7, <2>4 DEF Judged
  <2>6. d = 1 => n >= 2
    BY <1>1, <1>3, <2>5
  <2>7. d = 1 => proc.best.step # proc.saved[1]
    BY <2>2, <2>6
  <2>8. actor'[proc.best.step] = "saved"
    BY <1>3, <1>11, <2>3, <2>7
  <2>9. ASSUME NEW i \in DOMAIN proc'.saved, proc.best.step = proc'.saved[i]
        PROVE  i = Len(proc'.saved)
    <3>1. i \in 1..(n - d) /\ i + d \in 1..n /\ proc.best.step = proc.saved[i + d]
      BY <1>3, <2>9
    <3>2. i + d = n  BY <2>2, <3>1
    <3> QED  BY <1>3, <3>1, <3>2
  <2> QED  BY <2>8, <2>9
<1>12. ~SavingBest' => ~SavingBest
  BY <1>1, <1>3 DEF SavingBest, Saves, At
<1>13. Held'
  BY <1>1, <1>3, <1>5, <1>7, <1>10, <1>11, <1>12 DEF Held
<1> QED  BY <1>5, <1>8, <1>9, <1>13

\* Nor does the rest of what is pruned concern it.
LEMMA EndPruneFresh == ASSUME Inv, FreshInv, EndPrune PROVE FreshInv'
<1>1. /\ At("pruning") /\ Training /\ proc \in Process
      /\ actor \in [Steps -> ActorState]
      /\ proc' = [proc EXCEPT !.pc = "save", !.going = {}]
      /\ actor' = Become(proc.going, "pruned")
      /\ UNCHANGED <<record, val, conf>>
  BY TrainingFacts DEF EndPrune, rest, At, Training, Removing, Inv, Typed
<1>2. /\ proc'.pc = "save" /\ proc'.step = proc.step /\ proc'.saved = proc.saved
      /\ proc'.resume = proc.resume /\ proc'.total = proc.total /\ proc'.best = proc.best
      /\ proc'.out = proc.out /\ proc'.converted = proc.converted
      /\ proc'.then = proc.then
  BY <1>1 DEF Process
<1>3. Training' /\ Pending /\ MayPrune
  BY <1>1, <1>2 DEF Training, Removing, At, Pending, MayPrune, Before
<1>4. SUFFICES ASSUME Fresh' PROVE Judged' /\ Held' /\ Converts'
  BY <1>3, FreshSuffices
<1>5. Judged /\ Held /\ Converts
  BY <1>1, <1>2, <1>4 DEF FreshInv, Fresh
<1>6. Converts'
  BY <1>1, <1>2, <1>3, <1>5, NotConverting DEF At, After
<1>7. Judged'
  BY <1>1, <1>2, <1>5 DEF Judged, At
<1>8. \A k \in proc.going : actor[k] = "partial"
  BY <1>1 DEF Inv, Course
<1>9. \A k \in Steps : /\ OnDisk(k)' => OnDisk(k)
                       /\ actor[k] = "saved" => actor'[k] = "saved"
  BY <1>1, <1>8 DEF Become, OnDisk
<1>10. SavingBest' <=> SavingBest
  BY <1>1, <1>2 DEF SavingBest, Saves, At
<1>11. Held'
  BY <1>1, <1>2, <1>3, <1>5, <1>9, <1>10 DEF Held
<1> QED  BY <1>6, <1>7, <1>11

LEMMA WritingFresh == ASSUME Inv, Inv', FreshInv, BeginSave \/ EndSave
                      PROVE  FreshInv'
<1>1. /\ At("save") \/ At("saving")
      /\ Training /\ proc \in Process /\ proc.step \in Steps /\ proc.step \in Nat
      /\ actor \in [Steps -> ActorState]
      /\ UNCHANGED <<record, val, conf>>
  BY TrainingFacts, StepsAreNumbers DEF BeginSave, EndSave, rest, At, Training, Removing, Inv, Typed
<1>2. PICK place \in {"saving", "track"} :
        /\ proc'.pc = place /\ proc'.step = proc.step
        /\ proc'.resume = proc.resume /\ proc'.total = proc.total /\ proc'.best = proc.best
        /\ proc'.out = proc.out /\ proc'.converted = proc.converted
        /\ proc'.then = proc.then
        /\ place = "saving" => proc'.saved = proc.saved
  <2>1. CASE BeginSave
    BY <1>1, <2>1, GotoFacts DEF BeginSave, Places, Before
  <2>2. CASE EndSave
    BY <1>1, <2>2 DEF EndSave, Process
  <2> QED  BY <2>1, <2>2
<1>3. \A k \in Steps : k # proc.step => actor'[k] = actor[k]
  BY <1>1 DEF BeginSave, EndSave
<1>4. /\ Training' /\ ~At("load")' /\ Pending /\ MayPrune
      /\ place # "saving" => ~MayPrune'
  BY <1>1, <1>2 DEF Training, Removing, Overwriting, At, Pending, MayPrune, Before
<1>5. SUFFICES ASSUME Fresh' PROVE Judged' /\ Held' /\ Converts'
  BY <1>4, FreshSuffices
<1>6. Judged /\ Held /\ Converts
  BY <1>1, <1>2, <1>5 DEF FreshInv, Fresh
<1>7. Converts'
  BY <1>1, <1>2, <1>4, <1>6, NotConverting DEF At, After
<1>8. Judged'
  BY <1>1, <1>2, <1>6 DEF Judged, LastStep, At
<1>9. SavingBest' <=> SavingBest
  BY <1>1, <1>2 DEF SavingBest, Saves, At
<1>10. \A k \in Steps : OnDisk(k)' => k <= proc.step
  BY <1>1, <1>3, <1>6 DEF Held, OnDisk
<1>11. ASSUME ~SavingBest, proc.best.step \in Steps
       PROVE  /\ actor'[proc.best.step] = "saved"
              /\ proc.best.step < proc.step /\ proc.best.step <= proc.step
              /\ proc.best.step # proc.step
              /\ \A i \in DOMAIN proc.saved :
                    proc.best.step = proc.saved[i] => i = Len(proc.saved)
  <2>1. /\ proc.best.step < proc.step /\ actor[proc.best.step] = "saved"
        /\ \A i \in DOMAIN proc.saved : proc.best.step = proc.saved[i] => i = Len(proc.saved)
    BY <1>4, <1>6, <1>11 DEF Held
  <2>2. proc.best.step \in Nat
    BY <1>11, StepsAreNumbers
  <2>3. proc.best.step # proc.step /\ proc.best.step <= proc.step
    BY <1>1, <2>1, <2>2
  <2> QED  BY <1>3, <1>11, <2>1, <2>3
<1>12. Held'
  BY <1>1, <1>2, <1>4, <1>6, <1>9, <1>10, <1>11 DEF Held
<1> QED  BY <1>4, <1>7, <1>8, <1>12

\* The record now names the step that was just saved.
LEMMA WriteRecordFresh == ASSUME Inv, FreshInv, WriteRecord PROVE FreshInv'
<1>1. /\ At("recording") /\ Training /\ proc \in Process /\ proc.step \in Nat
      /\ record' = proc.best /\ UNCHANGED <<actor, val, conf>>
  BY TrainingFacts, StepsAreNumbers DEF WriteRecord, rest, At, Training, Removing
<1>2. /\ proc'.pc = "periodic" /\ proc'.step = proc.step /\ proc'.saved = proc.saved
      /\ proc'.resume = proc.resume /\ proc'.total = proc.total /\ proc'.best = proc.best
      /\ proc'.out = proc.out /\ proc'.converted = proc.converted
      /\ proc'.lastSaved = proc.lastSaved
  BY <1>1, GotoFacts DEF WriteRecord, Places
<1>3. proc.best.step = proc.step /\ proc.lastSaved = proc.step
  BY <1>1 DEF Inv, Course, At
<1>4. /\ actor[proc.step] = "saved"
      /\ \A i \in DOMAIN proc.saved : proc.saved[i] = proc.step => i = Len(proc.saved)
  BY <1>1, <1>3, StepIsSaved
<1>5. Training' /\ ~At("load")' /\ ~Pending'
  BY <1>2, <1>3 DEF Training, Removing, Overwriting, At, Pending, Before
<1>6. SUFFICES ASSUME Fresh' PROVE Judged' /\ Held' /\ Converts'
  BY <1>5, FreshSuffices
<1>7. Judged /\ Held /\ Converts
  BY <1>1, <1>2, <1>6 DEF FreshInv, Fresh
<1>8. Converts'
  BY <1>1, <1>2, <1>5, <1>7, NotConverting DEF At, After
<1>9. Judged'
  BY <1>1, <1>2, <1>7 DEF Judged, LastStep, At
<1>10. Held'
  BY <1>1, <1>2, <1>3, <1>4, <1>5, <1>7 DEF Held, OnDisk
<1> QED  BY <1>5, <1>8, <1>9, <1>10

LEMMA NextStepFresh == ASSUME Inv, Inv', FreshInv, NextStep PROVE FreshInv'
<1>1. /\ At("next") /\ Training /\ proc \in Process /\ proc.step \in Nat
      /\ UNCHANGED <<actor, record, val, conf>>
  BY TrainingFacts, StepsAreNumbers DEF NextStep, rest, disk, At, Training, Removing
<1>2. CASE LastStep
  <2>1. Goto("convert best")
    BY <1>2 DEF NextStep, Goto
  <2>2. /\ proc'.pc = "convert best" /\ proc'.step = proc.step /\ proc'.saved = proc.saved
        /\ proc'.resume = proc.resume /\ proc'.total = proc.total /\ proc'.best = proc.best
        /\ proc'.out = proc.out /\ proc'.converted = proc.converted
        /\ proc'.lastSaved = proc.lastSaved
    BY <1>1, <2>1, GotoFacts DEF Places, After
  <2>3. Training'
    BY <2>2 DEF Training, Removing, Overwriting
  <2>4. Converts => Converts'
    BY <1>1, <1>2, <2>2, <2>3 DEF Converts, After, Lasts, Done, At, LastStep
  <2> QED
    BY <1>1, <2>2, <2>3, <2>4, QuietKeeps
    DEF At, SavingBest, Saves, Pending, Before, MayPrune
<1>3. CASE ~LastStep
  <2>1. PICK t \in Nat : t = proc.step + 1
    BY <1>1
  <2>2. proc' = [proc EXCEPT !.pc = "train", !.step = t]
    BY <1>3, <2>1 DEF NextStep
  <2>3. /\ proc'.pc = "train" /\ proc'.step = t /\ proc'.saved = proc.saved
        /\ proc'.resume = proc.resume /\ proc'.total = proc.total /\ proc'.best = proc.best
        /\ proc'.out = proc.out /\ proc'.converted = proc.converted
    BY <1>1, <2>2 DEF Process
  <2>4. Training' /\ ~At("load")' /\ MayPrune /\ ~SavingBest
    BY <1>1, <1>3, <2>3 DEF Training, Removing, Overwriting, At, MayPrune, SavingBest, Saves
  <2>5. SUFFICES ASSUME Fresh' PROVE Judged' /\ Held' /\ Converts'
    BY <2>4, FreshSuffices
  <2>6. Judged /\ Held /\ Converts
    BY <1>1, <2>3, <2>5 DEF FreshInv, Fresh
  <2>7. Converts'
    BY <1>1, <2>3, <2>4, <2>6, NotConverting DEF At, After
  <2>8. \A k \in Steps : k > t \/ k = t => val[k] = Unscored
    <3>1. \A k \in Steps : k > t \/ k = t => k > proc.step
      BY <1>1, <2>1, StepsAreNumbers
    <3> QED  BY <2>6, <3>1 DEF Judged
  <2>9. Judged'
    BY <1>1, <2>3, <2>6, <2>8 DEF Judged
  <2>10. \A k \in Steps : OnDisk(k) => k <= t
    <3>1. \A k \in Steps : OnDisk(k) => k <= proc.step
      BY <2>6 DEF Held
    <3> QED  BY <1>1, <2>1, <3>1, StepsAreNumbers
  <2>11. proc.best.step \in Steps => proc.best.step <= t /\ proc.best.step < t
    <3>1. SUFFICES ASSUME proc.best.step \in Steps
                   PROVE  proc.best.step <= t /\ proc.best.step < t
      OBVIOUS
    <3>2. proc.best.step <= proc.step
      BY <2>4, <2>6, <3>1 DEF Held
    <3>3. proc.best.step \in Nat
      BY <3>1, StepsAreNumbers
    <3> QED  BY <1>1, <2>1, <3>2, <3>3
  <2>12. Held'
    BY <1>1, <2>3, <2>4, <2>6, <2>10, <2>11 DEF Held, OnDisk
  <2> QED  BY <2>4, <2>7, <2>9, <2>12
<1> QED  BY <1>2, <1>3

\* A launch that resumes nothing is let in to a directory without results, or
\* discards what there is.
LEMMA LaunchFreshly == ASSUME Inv, Littered, FreshInv, Launch PROVE FreshInv'
<1>1. PICK total \in conf.totals : \/ LaunchFresh(total) \/ LaunchOverwrite(total)
                                   \/ LaunchContinue(total) \/ LaunchResume(total)
  BY DEF Launch
<1>2. val = NoScores
  <2>1. At("idle")
    BY <1>1 DEF LaunchFresh, LaunchOverwrite, LaunchContinue, LaunchResume
  <2> QED  BY <2>1 DEF FreshInv, Training, At
<1>3. ASSUME NEW place \in {"load", "discard"}, NEW resume \in BOOLEAN, NEW out,
             Start(place, total, resume, out),
             ~resume => out = "model" /\ (place = "load" => Bare),
             place = "discard" => ~resume
      PROVE  FreshInv'
  <2>1. /\ proc'.pc = place /\ proc'.resume = resume /\ proc'.out = out
        /\ proc'.converted = {}
        /\ UNCHANGED <<actor, tracker, record, val>>
    BY <1>3 DEF Start
  <2>2. ~Training' /\ val' = NoScores
    BY <1>2, <2>1 DEF Training, Removing, NoScores
  <2>3. Bare' = Bare
    BY <2>1 DEF Bare, HoldsCheckpoints, OnDisk
  <2>4. Overwriting' => place = "discard"
    BY <2>1 DEF Overwriting
  <2>5. At("load")' => place = "load"
    BY <2>1 DEF At
  <2>6. (Overwriting => proc.out = "model" /\ proc.converted = {})'
    BY <1>3, <2>1, <2>4
  <2>7. (Fresh => Begins)'
    BY <1>3, <2>1, <2>3, <2>5 DEF Fresh, Begins
  <2> QED  BY <2>2, <2>6, <2>7 DEF FreshInv
<1>4. CASE LaunchFresh(total)
  <2>1. Bare /\ \A n \in Name : models[n].kind \in {"absent", "empty"}
    BY <1>4 DEF LaunchFresh, HoldsResults, HoldsModels, Littered
  <2>2. Resolve(models, "model") = "model"
    BY <2>1 DEF Resolve, Hop, Name
  <2>3. Start("load", total, FALSE, "model")
    BY <1>4, <2>2 DEF LaunchFresh, LetIn
  <2> QED  BY <1>3, <2>1, <2>3
<1>5. CASE LaunchOverwrite(total)
  BY <1>3, <1>5 DEF LaunchOverwrite
<1>6. CASE LaunchContinue(total)
  BY <1>3, <1>6 DEF LaunchContinue, LetIn
<1>7. CASE LaunchResume(total)
  BY <1>3, <1>7 DEF LaunchResume
<1> QED  BY <1>1, <1>4, <1>5, <1>6, <1>7

\* Once all is removed, it begins as in a new directory.
LEMMA RemoveFresh == ASSUME Inv, FreshInv, Remove PROVE FreshInv'
<1>1. ~Training /\ val = NoScores /\ val' = NoScores /\ proc \in Process
  <2>1. proc.pc \in Removing /\ UNCHANGED val
    BY DEF Remove, RemoveEntry, EndRemoval, Wipe, RemoveOld, At, Removing
  <2>2. ~Training
    BY <2>1 DEF Training
  <2> QED  BY <2>1, <2>2, NotIdle DEF FreshInv, Inv, Removing
<1>2. CASE RemoveEntry \/ RemoveOld
  <2>1. proc.pc \in {"discard", "remove all", "remove old"}
    BY <1>2 DEF RemoveEntry, RemoveOld, At
  <2>2. CASE proc' = Idle
    BY <1>1, <2>2, GoneIsNotFresh
  <2>3. ASSUME NEW going, proc' = [proc EXCEPT !.going = going] PROVE FreshInv'
    <3>1. proc'.pc = proc.pc /\ proc'.out = proc.out /\ proc'.converted = proc.converted
      BY <1>1, <2>3 DEF Process
    <3>2. ~Training' /\ ~At("load")' /\ (Overwriting' <=> Overwriting)
      BY <2>1, <3>1 DEF Training, Removing, Overwriting, At
    <3> QED  BY <1>1, <3>1, <3>2 DEF FreshInv, Fresh
  <2>4. proc' = Idle \/ \E going : proc' = [proc EXCEPT !.going = going]
    <3>1. proc' = [proc EXCEPT !.going = proc.going] \/ proc' # proc
      BY <1>1 DEF Process
    <3> QED  BY <1>2, <3>1 DEF RemoveEntry, RemoveOld, Rot
  <2> QED  BY <2>2, <2>3, <2>4
<1>3. CASE EndRemoval
  <2>1. CASE proc' = Idle
    BY <1>1, <2>1, GoneIsNotFresh
  <2>2. CASE At("discard") /\ Goto("wipe")
    <3>1. proc'.pc = "wipe" /\ proc'.out = proc.out /\ proc'.converted = proc.converted
      BY <1>1, <2>2, GotoFacts DEF Places, Removing
    <3>2. Overwriting /\ ~Training' /\ ~At("load")'
      BY <2>2, <3>1 DEF Training, Removing, Overwriting, At
    <3> QED  BY <1>1, <3>1, <3>2 DEF FreshInv, Fresh
  <2> QED  BY <1>3, <2>1, <2>2 DEF EndRemoval
<1>4. CASE Wipe
  <2>1. At("wipe") /\ Overwriting /\ UNCHANGED <<actor, tracker, record>>
    BY <1>4 DEF Wipe, At, Overwriting
  <2>2. Bare
    BY <2>1 DEF Inv, Typed
  <2>3. Bare'
    BY <2>1, <2>2 DEF Bare, HoldsCheckpoints, OnDisk
  <2>4. /\ proc'.pc \in {"wipe", "load"}
        /\ proc'.out = proc.out /\ proc'.converted = proc.converted
    <3>1. CASE UNCHANGED proc
      BY <2>1, <3>1 DEF At
    <3>2. CASE Goto("load")
      BY <1>1, <3>2, GotoFacts DEF Places
    <3> QED  BY <1>4, <3>1, <3>2 DEF Wipe
  <2>5. ~Training' /\ proc'.out = "model" /\ proc'.converted = {}
    BY <2>1, <2>4 DEF FreshInv, Training, Removing
  <2> QED  BY <1>1, <2>3, <2>5 DEF FreshInv, Fresh, Begins
<1> QED  BY <1>2, <1>3, <1>4 DEF Remove

LEMMA LoadFresh == ASSUME Inv, Inv', FreshInv, Load PROVE FreshInv'
<1>1. /\ At("load") /\ proc \in Process /\ ~Training
      /\ UNCHANGED <<actor, tracker, record, models, conf>>
  BY NotIdle DEF Load, Inv, At, Training, Removing, disk, rest
<1>2. val = NoScores
  BY <1>1 DEF FreshInv
<1>3. CASE Fail
  BY <1>3, GoneIsNotFresh DEF Fail
<1>4. ASSUME NEW s, Loaded(s), ~proc.resume => s = 0 PROVE FreshInv'
  <2>1. /\ proc'.pc = "train" /\ proc'.step = s + 1 /\ proc'.resume = proc.resume
        /\ proc'.out = proc.out /\ proc'.converted = proc.converted
        /\ proc'.best = IF record = TornRecord THEN NoRecord ELSE record
        /\ val' = NoScores
    BY <1>1, <1>2, <1>4 DEF Loaded, Process
  <2>2. Training'
    BY <2>1 DEF Training, Removing
  <2>3. SUFFICES ASSUME Fresh' PROVE Judged' /\ Held' /\ Converts'
    BY <2>2, FreshSuffices
  <2>4. ~proc.resume /\ Fresh
    BY <1>1, <2>1, <2>3 DEF Fresh
  <2>5. Bare /\ proc.out = "model" /\ proc.converted = {}
    BY <1>1, <2>4 DEF FreshInv, Begins
  <2>6. /\ \A k \in Steps : ~OnDisk(k)
        /\ record = NoRecord /\ NoRecord # TornRecord /\ NoRecord.step \notin Steps
    BY <2>5, StepsAreNumbers DEF Bare, HoldsCheckpoints, NoRecord, TornRecord, Missing, Torn
  <2>7. proc'.best = NoRecord /\ proc'.step \in Steps
    <3>1. proc'.step \in Steps
      BY <2>2, TrainingStepIsStep
    <3> QED  BY <2>1, <2>6, <3>1
  <2>8. Judged'
    BY <2>1, <2>7 DEF Judged, NoScores, NoRecord, Unscored
  <2>9. Held'
    BY <1>1, <2>6, <2>7 DEF Held, OnDisk
  <2>10. Converts'
    BY <2>1, <2>5 DEF Converts, After, Lasts, Done, At
  <2> QED  BY <2>8, <2>9, <2>10
<1>5. CASE ~proc.resume
  <2>1. Loaded(0)
    BY <1>5 DEF Load
  <2> QED  BY <1>4, <2>1
<1>6. CASE proc.resume
  <2>1. Fail \/ \E s : Loaded(s)
    BY StepsAreNumbers DEF Load, Inv, Typed, Missing, Torn
  <2> QED  BY <1>3, <1>4, <1>6, <2>1
<1>7. proc.resume \in BOOLEAN
  BY <1>1 DEF Process
<1> QED  BY <1>5, <1>6, <1>7

\* What the conversions start from: the recorded and the last checkpoint, whole.
LEMMA ReadyToConvert ==
  ASSUME Inv, Judged, Held, proc.pc \in After
  PROVE  /\ HasBest => record.step \in Steps /\ actor[record.step] = "saved" /\ BestOnDisk
         /\ ~HasBest => record.step \notin Steps /\ ~BestOnDisk
         /\ LastOnDisk = proc.step /\ actor[proc.step] = "saved"
<1>1. ~SavingBest
  BY DEF SavingBest, Saves, After
<1>2. record = proc.best
  BY <1>1 DEF Held
<1>3. HasBest => actor[record.step] = "saved"
  BY <1>1, <1>2 DEF Held, HasBest
<1>4. LastOnDisk = proc.step /\ actor[proc.step] = "saved"
  BY LastIsOnDisk DEF Held
<1> QED  BY <1>2, <1>3, <1>4 DEF BestOnDisk, OnDisk, HasBest

\* Going on after training, when Converts' can be shown.
LEMMA AfterFresh ==
  ASSUME Inv, FreshInv, proc.pc \in After, proc'.pc \in After,
         UNCHANGED <<actor, record, val, conf>>,
         proc'.resume = proc.resume, proc'.total = proc.total, proc'.step = proc.step,
         proc'.best = proc.best, proc'.saved = proc.saved,
         Fresh /\ Judged /\ Held /\ Converts => Converts'
  PROVE  FreshInv'
BY QuietKeeps DEF Training, Removing, After, At, SavingBest, Saves, Pending, Before, MayPrune

\* BeginConvert, of a checkpoint whose files are whole.
LEMMA BeginsFresh ==
  ASSUME Inv, proc \in Process, NEW label \in Name, NEW step, actor[step] = "saved",
         NEW merging \in Places, NEW next, BeginConvert(label, step, merging, next)
  PROVE  /\ proc'.pc = merging /\ proc'.step = proc.step /\ proc'.saved = proc.saved
         /\ proc'.resume = proc.resume /\ proc'.total = proc.total /\ proc'.best = proc.best
         /\ proc'.out = proc.out /\ proc'.converted = proc.converted
         /\ \A n \in Name : n # label => models'[n] = models[n]
         /\ UNCHANGED val
<1>1. /\ Goto(merging) /\ UNCHANGED val
      /\ \E entry \in {Absent, Half} : models' = [models EXCEPT ![label] = entry]
  BY DEF BeginConvert
<1>2. models \in [Name -> Entry]
  BY DEF Inv, Typed
<1>3. \A n \in Name : n # label => models'[n] = models[n]
  BY <1>1, <1>2
<1> QED  BY <1>1, <1>3, GotoFacts

LEMMA EndsFresh ==
  ASSUME Inv, proc \in Process, NEW label \in {"best", "last"}, NEW step,
         actor[step] = "saved", NEW next, EndConvert(label, step, next)
  PROVE  /\ proc'.pc = next /\ proc'.step = proc.step /\ proc'.saved = proc.saved
         /\ proc'.resume = proc.resume /\ proc'.total = proc.total /\ proc'.best = proc.best
         /\ proc'.out = proc.out /\ proc'.converted = proc.converted \cup {label}
         /\ models'[label] = Model(step)
         /\ \A n \in Name : n # label => models'[n] = models[n]
         /\ UNCHANGED val
<1>1. /\ models' = [models EXCEPT ![label] = Model(step)]
      /\ proc' = [proc EXCEPT !.pc = next, !.converted = @ \cup {label}]
      /\ UNCHANGED val
  BY DEF EndConvert
<1>2. models \in [Name -> Entry] /\ label \in Name
  BY DEF Inv, Typed, Name
<1> QED  BY <1>1, <1>2 DEF Process

\* A conversion goes on or ends the process.
LEMMA ConvertingGoesOn ==
  ASSUME Inv, ConvertBest \/ ConvertLast
  PROVE  \/ proc' = Idle /\ val' = NoScores
         \/ Training' /\ proc'.resume = proc.resume /\ UNCHANGED <<val, conf>>
<1>1. proc \in Process
  BY TrainingFacts DEF ConvertBest, ConvertLast, At, Training, Removing
<1>2. ASSUME NEW place \in After, Goto(place)
      PROVE  Training' /\ proc'.resume = proc.resume
  <2>1. proc'.pc = place /\ proc'.resume = proc.resume
    BY <1>1, <1>2, GotoFacts DEF Places
  <2> QED  BY <2>1 DEF Training, Removing, After
<1>3. ASSUME NEW place \in After, NEW label,
             proc' = [proc EXCEPT !.pc = place, !.converted = @ \cup {label}]
      PROVE  Training' /\ proc'.resume = proc.resume
  <2>1. proc'.pc = place /\ proc'.resume = proc.resume
    BY <1>1, <1>3 DEF Process
  <2> QED  BY <2>1 DEF Training, Removing, After
<1>4. conf' = conf
  BY DEF ConvertBest, ConvertLast, rest
<1>5. \/ Fail
      \/ \E place \in After : Goto(place) /\ UNCHANGED val
      \/ \E label : \E place \in After :
           proc' = [proc EXCEPT !.pc = place, !.converted = @ \cup {label}] /\ UNCHANGED val
  BY DEF ConvertBest, ConvertLast, BeginConvert, EndConvert, After
<1> QED  BY <1>2, <1>3, <1>4, <1>5 DEF Fail

LEMMA ConvertBestFresh == ASSUME Inv, FreshInv, ConvertBest PROVE FreshInv'
<1>1. /\ proc.pc \in {"convert best", "converting best"}
      /\ Training /\ proc \in Process /\ proc.pc \in After
      /\ UNCHANGED <<actor, record, conf>>
  BY TrainingFacts DEF ConvertBest, rest, At, Training, Removing, After
<1>2. CASE ~Fresh
  BY <1>1, <1>2, ConvertingGoesOn, GoneIsNotFresh, FreshSuffices DEF Fresh
<1>3. CASE Fresh
  <2>1. Judged /\ Held /\ Converts
    BY <1>1, <1>3 DEF FreshInv
  <2>2. /\ HasBest => record.step \in Steps /\ actor[record.step] = "saved" /\ BestOnDisk
        /\ ~HasBest => record.step \notin Steps /\ ~BestOnDisk
    BY <1>1, <2>1, ReadyToConvert
  <2>3. proc.converted = {}
    BY <1>1, <2>1 DEF Converts, Lasts, Done
  <2>4. CASE At("convert best") /\ HasBest
    <3>1. /\ proc'.pc = "converting best" /\ proc'.step = proc.step
          /\ proc'.saved = proc.saved
          /\ proc'.resume = proc.resume /\ proc'.total = proc.total /\ proc'.best = proc.best
          /\ proc'.out = proc.out /\ proc'.converted = proc.converted
          /\ UNCHANGED val
      BY <1>1, <2>2, <2>4, BeginsFresh DEF ConvertBest, At, Name, Places, After
    <3>2. Converts'
      BY <1>1, <2>1, <2>3, <3>1 DEF Converts, After, Lasts, Done, At, LastStep
    <3> QED  BY <1>1, <3>1, <3>2, AfterFresh DEF After
  <2>5. CASE At("convert best") /\ ~HasBest
    <3>1. Goto("convert last") /\ UNCHANGED val
      BY <2>2, <2>5 DEF ConvertBest, At
    <3>2. /\ proc'.pc = "convert last" /\ proc'.step = proc.step
          /\ proc'.saved = proc.saved
          /\ proc'.resume = proc.resume /\ proc'.total = proc.total /\ proc'.best = proc.best
          /\ proc'.out = proc.out /\ proc'.converted = proc.converted
      BY <1>1, <3>1, GotoFacts DEF Places, After
    <3>3. Converts'
      BY <1>1, <2>1, <2>3, <2>5, <3>2
      DEF Converts, After, Lasts, Done, At, LastStep, Bests, HasBest
    <3> QED  BY <1>1, <3>1, <3>2, <3>3, AfterFresh DEF After
  <2>6. CASE At("converting best")
    <3>1. record.step \in Steps
      BY <2>6 DEF Inv, Typed
    <3>2. HasBest /\ actor[record.step] = "saved"
      BY <2>2, <3>1
    <3>3. /\ proc'.pc = "convert last" /\ proc'.step = proc.step
          /\ proc'.saved = proc.saved
          /\ proc'.resume = proc.resume /\ proc'.total = proc.total /\ proc'.best = proc.best
          /\ proc'.out = proc.out /\ proc'.converted = proc.converted \cup {"best"}
          /\ models'["best"] = Model(record.step)
          /\ UNCHANGED val
      BY <1>1, <2>6, <3>2, EndsFresh DEF ConvertBest, At
    <3>4. Converts'
      BY <1>1, <2>1, <2>3, <3>2, <3>3
      DEF Converts, After, Lasts, Done, At, LastStep, Bests, HasBest
    <3> QED  BY <1>1, <3>3, <3>4, AfterFresh DEF After
  <2> QED  BY <1>1, <2>4, <2>5, <2>6 DEF At
<1> QED  BY <1>2, <1>3

LEMMA ConvertLastFresh == ASSUME Inv, FreshInv, ConvertLast PROVE FreshInv'
<1>1. /\ proc.pc \in Lasts
      /\ Training /\ proc \in Process /\ proc.pc \in After
      /\ UNCHANGED <<actor, record, conf>>
  BY TrainingFacts DEF ConvertLast, rest, At, Training, Removing, After, Lasts
<1>2. CASE ~Fresh
  BY <1>1, <1>2, ConvertingGoesOn, GoneIsNotFresh, FreshSuffices DEF Fresh
<1>3. CASE Fresh
  <2>1. Judged /\ Held /\ Converts
    BY <1>1, <1>3 DEF FreshInv
  <2>2. LastOnDisk = proc.step /\ actor[proc.step] = "saved"
    BY <1>1, <2>1, ReadyToConvert
  <2>3. proc.converted = Bests /\ (HasBest => models["best"] = Model(record.step))
    BY <1>1, <2>1 DEF Converts
  <2>4. CASE At("convert last")
    <3>1. /\ proc'.pc = "converting last" /\ proc'.step = proc.step
          /\ proc'.saved = proc.saved
          /\ proc'.resume = proc.resume /\ proc'.total = proc.total /\ proc'.best = proc.best
          /\ proc'.out = proc.out /\ proc'.converted = proc.converted
          /\ models'["best"] = models["best"] /\ UNCHANGED val
      BY <1>1, <2>2, <2>4, BeginsFresh DEF ConvertLast, At, Name, Places, After
    <3>2. Converts'
      BY <1>1, <2>1, <2>3, <3>1
      DEF Converts, After, Lasts, Done, At, LastStep, Bests, HasBest
    <3> QED  BY <1>1, <3>1, <3>2, AfterFresh DEF After
  <2>5. CASE At("converting last")
    <3>1. /\ proc'.pc = "clear" /\ proc'.step = proc.step
          /\ proc'.saved = proc.saved
          /\ proc'.resume = proc.resume /\ proc'.total = proc.total /\ proc'.best = proc.best
          /\ proc'.out = proc.out /\ proc'.converted = proc.converted \cup {"last"}
          /\ models'["last"] = Model(proc.step)
          /\ models'["best"] = models["best"] /\ UNCHANGED val
      BY <1>1, <2>2, <2>5, EndsFresh DEF ConvertLast, At, Name
    <3>2. Converts'
      BY <1>1, <2>1, <2>3, <3>1
      DEF Converts, After, Lasts, Done, At, LastStep, Bests, HasBest
    <3> QED  BY <1>1, <3>1, <3>2, AfterFresh DEF After
  <2> QED  BY <1>1, <2>4, <2>5 DEF At, Lasts
<1> QED  BY <1>2, <1>3

LEMMA OutputFresh == ASSUME Inv, FreshInv, ClearOutput \/ LinkOutput
                     PROVE  FreshInv'
<1>1. /\ At("clear") \/ At("link")
      /\ Training /\ proc \in Process /\ proc.pc \in After /\ proc.pc \in Done
      /\ models \in [Name -> Entry]
      /\ UNCHANGED <<actor, record, val, conf>>
  BY TrainingFacts DEF ClearOutput, LinkOutput, rest, At, Training, Removing, After, Done, Inv, Typed
<1>2. PICK place \in {"clear", "link", "clean up"} :
        /\ Goto(place)
        /\ proc'.pc = place /\ proc'.step = proc.step /\ proc'.saved = proc.saved
        /\ proc'.resume = proc.resume /\ proc'.total = proc.total /\ proc'.best = proc.best
        /\ proc'.out = proc.out /\ proc'.converted = proc.converted
  <2>1. PICK place \in {"clear", "link", "clean up"} : Goto(place)
    BY DEF ClearOutput, LinkOutput
  <2>2. place \in Places
    BY DEF Places, After
  <2> QED  BY <1>1, <2>1, <2>2, GotoFacts
<1>3. ASSUME Fresh, Judged, Held, Converts
      PROVE  Converts'
  <2>1. /\ proc.out = "model" /\ proc.converted = Bests \cup {"last"}
        /\ HasBest => models["best"] = Model(record.step)
        /\ models["last"] = Model(proc.step)
    BY <1>1, <1>3 DEF Converts
  <2>2. models'["best"] = models["best"] /\ models'["last"] = models["last"]
    BY <1>1, <2>1 DEF ClearOutput, LinkOutput, Name
  <2>3. CASE At("clear")
    <3>1. proc'.pc \in {"clear", "link"}
      <4>1. Goto("link") \/ Goto("clear")
        BY <2>1, <2>3 DEF ClearOutput, LinkOutput, At
      <4> QED  BY <1>1, <4>1, GotoFacts DEF Places, After
    <3> QED
      BY <1>1, <1>2, <1>3, <2>1, <2>2, <3>1
      DEF Converts, After, Lasts, Done, At, LastStep, Bests, HasBest
  <2>4. CASE At("link")
    <3>1. models'["model"] = Link(Primary) /\ proc'.pc = "clean up"
      BY <1>1, <1>2, <2>1, <2>4 DEF ClearOutput, LinkOutput, At, Goto, Name, Process
    <3>2. Primary = IF HasBest THEN "best" ELSE "last"
      BY <2>1 DEF Primary, Bests
    <3> QED
      BY <1>1, <1>2, <1>3, <2>1, <2>2, <3>1, <3>2
      DEF Converts, After, Lasts, Done, At, LastStep, Bests, HasBest
  <2> QED  BY <1>1, <2>3, <2>4
<1> QED  BY <1>1, <1>2, <1>3, AfterFresh DEF After

LEMMA CleanUpFresh == ASSUME Inv, CleanUpCheckpoints PROVE FreshInv'
<1>1. At("clean up") /\ val' = NoScores /\ proc \in Process
  BY NotIdle DEF CleanUpCheckpoints, Inv, At
<1>2. CASE proc' = Idle
  BY <1>1, <1>2, GoneIsNotFresh
<1>3. ASSUME NEW place \in {"remove all", "remove old"}, Goto(place) PROVE FreshInv'
  <2>1. proc'.pc = place
    BY <1>1, <1>3, GotoFacts DEF Places, Removing
  <2> QED  BY <1>1, <2>1, OffFresh DEF Training, Removing, Overwriting, At
<1> QED  BY <1>2, <1>3 DEF CleanUpCheckpoints

LEMMA FreshKeeps == ASSUME Inv, Inv', Littered, FreshInv, [Next]_vars PROVE FreshInv'
<1>1. CASE Launch  BY <1>1, LaunchFreshly
<1>2. CASE Remove  BY <1>2, RemoveFresh
<1>3. CASE Train
  BY <1>3, LoadFresh, TrainStepFresh, ValidateFresh, SavePeriodicFresh, SaveLastFresh,
     NextStepFresh DEF Train
<1>4. CASE Save
  BY <1>4, PruneFresh, EndPruneFresh, WritingFresh, OpenTrackerFresh, WriteTrackerFresh,
     OpenRecordFresh, WriteRecordFresh DEF Save
<1>5. CASE Finish
  BY <1>5, ConvertBestFresh, ConvertLastFresh, OutputFresh, CleanUpFresh DEF Finish
<1>6. CASE Crash
  BY <1>6, GoneIsNotFresh DEF Crash, Fail
<1>7. CASE UNCHANGED vars
  <2>1. UNCHANGED <<conf, actor, tracker, record, models, proc, val>>
    BY <1>7 DEF vars, disk, rest
  <2>2. /\ Fresh' = Fresh /\ Begins' = Begins /\ Training' = Training
        /\ Overwriting' = Overwriting /\ NoScores' = NoScores
    BY <2>1 DEF Fresh, Begins, Bare, HoldsCheckpoints, OnDisk, Training, Removing,
       Overwriting, At, NoScores
  <2>3. Converts' = Converts
    BY <2>1 DEF Converts, At, LastStep, Bests, HasBest
  <2>4. Judged' = Judged
    BY <2>1 DEF Judged
  <2>5. Held' = Held
    BY <2>1 DEF Held, OnDisk, SavingBest, Pending, MayPrune, At, LastStep
  <2> QED  BY <2>1, <2>2, <2>3, <2>4, <2>5 DEF FreshInv
<1> QED  BY <1>1, <1>2, <1>3, <1>4, <1>5, <1>6, <1>7 DEF Next

\* The options of a run do not change, so that OneKind can be a hypothesis of
\* what the invariants say instead of an assumption on every configuration.
LEMMA AlwaysFreshInv == Spec => [](OneKind => Inv /\ Littered /\ FreshInv)
<1>1. Init => (OneKind => Inv /\ Littered /\ FreshInv)
  <2>1. ASSUME Init PROVE FreshInv
    BY <2>1 DEF Init, FreshInv, Fresh, Training, Removing, Overwriting, At, Idle
  <2> QED  BY <2>1, Initially, InitiallyLittered
<1>2. (OneKind => Inv /\ Littered /\ FreshInv) /\ [Next]_vars
        => (OneKind => Inv /\ Littered /\ FreshInv)'
  <2>1. ASSUME [Next]_vars, OneKind' PROVE OneKind
    <3>1. conf' = conf
      <4>1. CASE Launch \/ Remove \/ Crash \/ UNCHANGED vars
        BY <4>1 DEF vars, rest, Launch, LaunchFresh, LaunchOverwrite, LaunchContinue,
           LaunchResume, LetIn, Start, Remove, RemoveEntry, EndRemoval, Wipe, RemoveOld, Crash
      <4>2. CASE Train \/ Save
        BY <4>2 DEF rest, Train, Load, TrainStep, Validate, SavePeriodic, SaveLast, NextStep,
           Save, Prune, EndPrune, BeginSave, EndSave, OpenTracker, WriteTracker, OpenRecord,
           WriteRecord
      <4>3. CASE Finish
        BY <4>3 DEF rest, Finish, ConvertBest, ConvertLast, ClearOutput, LinkOutput,
           CleanUpCheckpoints
      <4> QED  BY <2>1, <4>1, <4>2, <4>3 DEF Next
    <3> QED  BY <2>1, <3>1 DEF OneKind
  <2> QED  BY <2>1, StepKeeps, LitteredKeeps, FreshKeeps
<1> QED  BY <1>1, <1>2, PTL DEF Spec

-----------------------------------------------------------------------------
\* Types, and that the checkpoint manager of a launch remembers no more than
\* --max-ckpt-to-keep checkpoints, each of them still whole, when no step is
\* saved both as the best and as a periodic checkpoint (ray_trainer.py:1484-1493,
\* fsdp_checkpoint_manager.py:204-211 and 344).
THEOREM TypeCorrect ==
  ASSUME \A c \in Configs : c.saveBest => c.saveFreq = 0
  PROVE  Spec => []TypeOK
<1>1. Inv => TypeOK
  BY TrainingFacts, OptionsAreConfigs DEF Inv, Typed, Remembers, Scored, TypeOK
<1> QED  BY <1>1, AlwaysInv, PTL

\* As long as no removal of all checkpoints was begun and left unfinished, the
\* files of the step that latest_checkpointed_iteration.txt names are whole, at
\* every place of training, saving, pruning and converting and so wherever one of
\* them crashes: pruning with room for two checkpoints never takes them
\* (fsdp_checkpoint_manager.py:204-211, ray_trainer.py:1147-1152).
THEOREM TrackedCanBeLoaded ==
  ASSUME \A c \in Configs :
           /\ c.saveBest => c.saveFreq = 0
           /\ c.maxKeep >= 2 /\ c.cleanUp # "keep_state"
  PROVE  Spec => []TrackedIsLoadable
<1>1. Inv => TrackedIsLoadable
  BY DEF Inv, Typed, Roomy, Tracks, TrackedIsLoadable
<1>2. Spec => []Inv
  BY AlwaysInv
<1> QED  BY <1>1, <1>2, PTL

\* Under the same options every step that is trained lies past the one that the
\* tracker names: where the tracker has got to is where _load_checkpoint resumes,
\* and training starts one step later (ray_trainer.py:1081-1135 and 1191).
THEOREM TrackedStepsAreNotTrainedAgain ==
  ASSUME \A c \in Configs :
           /\ c.saveBest => c.saveFreq = 0
           /\ c.maxKeep >= 2 /\ c.cleanUp # "keep_state"
  PROVE  Spec => []ResumesWhereItStopped
<1>1. Inv => ResumesWhereItStopped
  <2>1. SUFFICES ASSUME Inv, At("train"), ~ruined, tracker \in Steps
                 PROVE  proc.step > tracker
    BY DEF ResumesWhereItStopped
  <2>2. Training /\ Pending
    BY <2>1 DEF Training, Removing, Pending, Before, At
  <2>3. tracker < proc.step
    BY <2>1, <2>2 DEF Inv, Typed, Roomy, Tracks
  <2>4. tracker \in Nat /\ proc.step \in Nat
    BY <2>1, <2>2, TrainingFacts, StepsAreNumbers
  <2> QED  BY <2>3, <2>4
<1>2. Spec => []Inv
  BY AlwaysInv
<1> QED  BY <1>1, <1>2, PTL

\* Without periodic checkpoints, and where keep_state does not drop it, the files
\* of the checkpoint that best_checkpoint.json names are whole whatever is saved
\* after it and wherever a launch crashes, unless a removal of all checkpoints was
\* begun and left unfinished.
THEOREM BestIsNeverPruned == Spec => []BestIsKept
<1>1. (OneKind => Inv /\ Littered /\ FreshInv) => BestIsKept
  BY DEF OneKind, Inv, OnlyBest, HoldsBest, BestIsKept
<1> QED  BY <1>1, AlwaysFreshInv, PTL

\* What a launch without periodic checkpoints that resumed nothing leaves before it
\* cleans up, however many launches, crashes and unfinished removals there were
\* before it: last/ holds its last step, best/ the step with the highest validation
\* score if it validated with a score and saved its best, and model/ the one of
\* them that the run is judged on (ray_trainer.py:1478-1499, training.py:926-964).
THEOREM FinishedRunIsWhatWasTrained == Spec => []FinishedRun
<1>1. (OneKind => Inv /\ Littered /\ FreshInv) => FinishedRun
  <2> DEFINE judged == conf.saveBest /\ \E k \in Steps : val[k] # Unscored
  <2>1. SUFFICES ASSUME OneKind => Inv /\ Littered /\ FreshInv,
                        At("clean up"), ~proc.resume, conf.saveFreq = 0
                 PROVE  /\ models["last"] = Model(proc.step)
                        /\ judged =>
                             /\ models["best"] = Model(record.step)
                             /\ record.score = Max({val[k] : k \in Steps})
                        /\ models[Resolve(models, "model")]
                             = models[IF judged THEN "best" ELSE "last"]
    BY DEF FinishedRun
  <2>2. Inv /\ Fresh /\ Training /\ proc.pc \in Done /\ proc.pc \in After /\ ~SavingBest
    BY <2>1 DEF OneKind, Fresh, Training, Removing, At, Done, After, SavingBest, Saves
  <2>3. Judged /\ Held /\ Converts
    BY <2>1, <2>2 DEF FreshInv, Inv
  <2>4. judged <=> HasBest
    <3>1. ASSUME HasBest PROVE judged
      <4>1. conf.saveBest /\ proc.best.score \in Nat
        BY <2>3, <3>1, StepsAreNumbers DEF Judged, HasBest, NoRecord
      <4>2. PICK k \in Steps : val[k] = proc.best.score
        BY <2>3, <4>1 DEF Judged
      <4> QED  BY <4>1, <4>2 DEF Unscored
    <3>2. ASSUME judged PROVE HasBest
      <4>1. PICK k \in Steps : val[k] # Unscored
        BY <3>2
      <4>2. val[k] \in Nat /\ val[k] <= proc.best.score
        BY <2>3, <3>2, <4>1 DEF Judged
      <4>3. proc.best # NoRecord
        BY <4>2 DEF NoRecord
      <4> QED  BY <2>3, <4>3 DEF Judged, HasBest
    <3> QED  BY <3>1, <3>2
  <2> HIDE DEF judged
  <2>5. models["last"] = Model(proc.step)
        /\ (HasBest => models["best"] = Model(record.step))
        /\ models["model"] = Link(IF HasBest THEN "best" ELSE "last")
    BY <2>1, <2>2, <2>3 DEF Converts
  <2>6. ASSUME HasBest PROVE record.score = Max({val[k] : k \in Steps})
    <3> DEFINE scores == {val[k] : k \in Steps}
               best == proc.best.score
    <3>1. best \in scores /\ \A x \in scores : x <= best
      <4>1. conf.saveBest
        BY <2>3, <2>6, StepsAreNumbers DEF Judged, HasBest, NoRecord
      <4> QED  BY <2>3, <4>1 DEF Judged
    <3>2. scores \subseteq Int
      BY <2>3 DEF Judged, Unscored
    <3> HIDE DEF scores, best
    <3>3. ASSUME NEW x \in scores, \A y \in scores : x >= y PROVE x = best
      <4>1. x >= best /\ x <= best  BY <3>1, <3>3
      <4>2. x \in Int /\ best \in Int  BY <3>1, <3>2
      <4> QED  BY <4>1, <4>2
    <3>4. \A y \in scores : best >= y
      BY <3>1, <3>2
    <3>5. Max(scores) = best
      BY <3>1, <3>3, <3>4 DEF Max
    <3>6. record.score = best
      BY <2>2, <2>3 DEF Held, best
    <3> QED  BY <3>5, <3>6 DEF scores
  <2>7. models[Resolve(models, "model")] = models[IF HasBest THEN "best" ELSE "last"]
    BY <2>5 DEF Resolve, Hop, Model, Link
  <2> QED  BY <2>4, <2>5, <2>6, <2>7
<1> QED  BY <1>1, AlwaysFreshInv, PTL
=============================================================================
