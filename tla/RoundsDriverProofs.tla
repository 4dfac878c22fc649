------------------------ MODULE RoundsDriverProofs --------------------------
(***************************************************************************)
(* Proofs about the round driver, for any number of rollouts and every     *)
(* value of the constants: it leaves no rollout behind, and each of its    *)
(* steps is a step of the abstract batch (HintRollout), or none.           *)
(***************************************************************************)
EXTENDS RoundsDriver, TurnRulesProofs

\* While a batch runs, it holds every rollout that is not finished, and each
\* of them had room.
Batched ==
  IF phase = "batch"
  THEN /\ round < MaxTurns /\ DOMAIN batch # {}
       /\ \A r \in Rollouts : r \in DOMAIN batch <=> ~st[r].completed
       /\ \A r \in DOMAIN batch : HasRoom(st[r])
  ELSE DOMAIN batch = {}

\* The inductive invariant.
IInv ==
  /\ TypeOK
  /\ Lockstep
  /\ Batched
  /\ phase # "done" => \A r \in Rollouts : Turning(st[r])
  /\ phase = "finalize" => \A r \in Rollouts : st[r].completed \/ st[r].turns = MaxTurns

-----------------------------------------------------------------------------
\* What marking and finalizing leave of the fields the driver looks at.
LEMMA CutShortKeeps ==
  ASSUME NEW s \in Rollout
  PROVE  /\ CutShort(s) \in Rollout
         /\ CutShort(s).completed /\ CutShort(s).turns = s.turns
BY CutShortFacts DEF SameCounts

-----------------------------------------------------------------------------
(***************************************************************************)
(* The invariant.                                                          *)
(***************************************************************************)
LEMMA InitIsInductive == Init => IInv
<1> SUFFICES ASSUME Init PROVE IInv
  OBVIOUS
<1>1. ASSUME NEW r \in Rollouts
      PROVE  Turning(st[r]) /\ st[r].turns = 0
  <2>1. PICK p \in PromptLens, h \in HintCounts : st[r] = Fresh(p, h)
    BY DEF Init
  <2>2. p \in Nat /\ h \in Nat
    BY RoundsAssumption DEF RoundsAssumption
  <2> QED BY <2>1, <2>2, FreshIsTurning DEF Fresh
<1>2. \A r \in Rollouts : st[r] \in Rollout
  BY <1>1 DEF Turning
<1>3. st \in [Rollouts -> Rollout]
  BY <1>2 DEF Init
<1>4. DOMAIN batch = {} /\ round = 0 /\ phase = "round"
  BY DEF Init, NoBatch
<1>5. TypeOK
  BY <1>3, <1>4, ConstantsAreNat DEF TypeOK
<1> QED BY <1>1, <1>4, <1>5 DEF IInv, Lockstep, Batched

LEMMA StartRoundStep ==
  ASSUME IInv, StartRound
  PROVE  IInv'
<1>1. /\ phase = "round" /\ round < MaxTurns /\ round' = round
      /\ st' = [r \in Rollouts |-> IF st[r].completed \/ HasRoom(st[r]) THEN st[r]
                                                                      ELSE CutShort(st[r])]
      /\ batch' = [r \in Live |-> Request(st[r])]
      /\ phase' = IF Live = {} THEN "finalize" ELSE "batch"
  BY DEF StartRound
<1>2. /\ st \in [Rollouts -> Rollout] /\ round \in 0..MaxTurns
      /\ \A r \in Rollouts : Turning(st[r]) /\ st[r].turns <= round
                             /\ (~st[r].completed => st[r].turns = round)
  BY <1>1 DEF IInv, TypeOK, Lockstep
<1>3. ASSUME NEW r \in Rollouts
      PROVE  /\ st'[r] \in Rollout /\ Turning(st'[r])
             /\ st'[r].turns = st[r].turns
             /\ ~st'[r].completed <=> r \in Live
             /\ r \in Live => st'[r] = st[r]
  <2>1. CASE st[r].completed \/ HasRoom(st[r])
    <3>1. st'[r] = st[r]
      BY <1>1, <2>1
    <3> QED BY <1>2, <2>1, <3>1 DEF Live
  <2>2. CASE ~(st[r].completed \/ HasRoom(st[r]))
    <3>1. st'[r] = CutShort(st[r])
      BY <1>1, <2>2
    <3>2. Turning(CutShort(st[r]))
      BY <1>2, CutShortKeepsTurning
    <3> QED BY <1>2, <2>2, <3>1, <3>2, CutShortKeeps DEF Live
  <2> QED BY <2>1, <2>2
<1>4. /\ DOMAIN batch' = Live /\ Live \subseteq Rollouts
      /\ \A r \in Live : batch'[r] = Request(st[r])
  BY <1>1 DEF Live
<1>5. TypeOK'
  BY <1>1, <1>2, <1>3, <1>4 DEF TypeOK
<1>6. Lockstep'
  BY <1>1, <1>2, <1>3 DEF Lockstep, Live
<1>7. Batched'
  <2>1. \A r \in Live : HasRoom(st'[r])
    BY <1>3, <1>4 DEF Live
  <2> QED BY <1>1, <1>3, <1>4, <2>1 DEF Batched
<1> QED BY <1>1, <1>3, <1>5, <1>6, <1>7 DEF IInv

LEMMA FinishBatchStep ==
  ASSUME IInv, FinishBatch
  PROVE  IInv'
<1>1. PICK g \in [DOMAIN batch -> Generation] :
        /\ \A r \in DOMAIN batch : Serves(batch[r], g[r])
        /\ st' = [r \in Rollouts |-> IF r \in DOMAIN batch THEN Ingest(st[r], g[r])
                                                           ELSE st[r]]
  BY DEF FinishBatch
<1>2. /\ phase = "batch" /\ phase' = "round" /\ round' = round + 1
      /\ DOMAIN batch' = {}
  BY DEF FinishBatch, NoBatch
<1>3. /\ st \in [Rollouts -> Rollout] /\ round \in 0..MaxTurns /\ round < MaxTurns
      /\ DOMAIN batch \subseteq Rollouts
      /\ \A r \in Rollouts : /\ Turning(st[r]) /\ st[r].turns <= round
                             /\ ~st[r].completed => st[r].turns = round
                             /\ r \in DOMAIN batch <=> ~st[r].completed
      /\ \A r \in DOMAIN batch : batch[r] = Request(st[r])
  BY <1>2 DEF IInv, TypeOK, Lockstep, Batched
<1>4. ASSUME NEW r \in Rollouts
      PROVE  /\ Turning(st'[r]) /\ st'[r].turns <= round + 1
             /\ ~st'[r].completed => st'[r].turns = round + 1
  <2>1. CASE r \in DOMAIN batch
    <3>1. st'[r] = Ingest(st[r], g[r]) /\ g[r] \in Generation
      BY <1>1, <2>1
    <3>2. Fits(st[r], g[r])
      BY <1>1, <1>3, <2>1, <3>1, RequestOf DEF Request, Rollout
    <3>3. ~st[r].completed /\ st[r].turns = round /\ st[r].turns < MaxTurns
      BY <1>3, <2>1
    <3>4. Turning(Ingest(st[r], g[r]))
      BY <1>3, <3>1, <3>2, <3>3, IngestKeepsTurning
    <3>5. Ingest(st[r], g[r]).turns = st[r].turns + 1
      BY <1>3, <3>1, IngestCountsTurn
    <3> QED BY <1>3, <3>1, <3>3, <3>4, <3>5
  <2>2. CASE r \notin DOMAIN batch
    <3>1. st'[r] = st[r] /\ st[r].completed /\ st[r].turns \in Nat
      BY <1>1, <1>3, <2>2 DEF Rollout
    <3> QED BY <1>3, <3>1
  <2> QED BY <2>1, <2>2
<1>5. TypeOK'
  <2>1. \A r \in Rollouts : st'[r] \in Rollout
    BY <1>4 DEF Turning
  <2>2. st' \in [Rollouts -> Rollout]
    BY <1>1, <2>1
  <2> QED BY <1>2, <1>3, <2>2, ConstantsAreNat DEF TypeOK
<1> QED BY <1>2, <1>4, <1>5 DEF IInv, Lockstep, Batched

LEMMA NextIsInductive == IInv /\ [Next]_vars => IInv'
<1> SUFFICES ASSUME IInv, [Next]_vars PROVE IInv'
  OBVIOUS
<1>a. st \in [Rollouts -> Rollout] /\ round \in 0..MaxTurns
  BY DEF IInv, TypeOK
<1>1. CASE StartRound
  BY <1>1, StartRoundStep
<1>2. CASE FinishBatch
  BY <1>2, FinishBatchStep
<1>3. CASE CapReached
  BY <1>3, <1>a DEF CapReached, IInv, TypeOK, Lockstep, Batched
<1>4. CASE FinalizeUnfinished
  <2>1. /\ phase = "finalize" /\ phase' = "forcing" /\ round' = round /\ batch' = batch
        /\ st' = [r \in Rollouts |-> Finalize(st[r])]
    BY <1>4 DEF FinalizeUnfinished
  <2>2. ASSUME NEW r \in Rollouts
        PROVE  /\ Turning(st'[r]) /\ st'[r].turns = st[r].turns
               /\ st'[r].completed = st[r].completed
    BY <2>1, FinalizeFacts DEF IInv
  <2>3. DOMAIN batch = {}
    BY <2>1 DEF IInv, Batched
  <2>4. TypeOK'
    <3>1. \A r \in Rollouts : st'[r] \in Rollout
      BY <2>2 DEF Turning
    <3>2. st' \in [Rollouts -> Rollout]
      BY <2>1, <3>1
    <3> QED BY <1>a, <2>1, <2>3, <3>2 DEF TypeOK
  <2> QED BY <2>1, <2>2, <2>3, <2>4 DEF IInv, Lockstep, Batched
<1>5. CASE ForceAnswers
  <2>1. PICK a \in [Rollouts -> Answer] :
          /\ \A r \in Rollouts : MaySample(st[r], a[r])
          /\ st' = [r \in Rollouts |-> Settled(st[r], a[r])]
    BY <1>5 DEF ForceAnswers
  <2>2. phase = "forcing" /\ phase' = "done" /\ round' = round /\ batch' = batch
    BY <1>5 DEF ForceAnswers
  <2>3. ASSUME NEW r \in Rollouts
        PROVE  /\ st'[r] \in Rollout /\ st'[r].turns = st[r].turns
               /\ st'[r].completed = st[r].completed
    <3>1. Turning(st[r]) /\ a[r] \in Answer /\ MaySample(st[r], a[r])
      BY <2>1, <2>2 DEF IInv
    <3> QED BY <2>1, <3>1, SettledFacts DEF Settling
  <2>4. DOMAIN batch = {}
    BY <2>2 DEF IInv, Batched
  <2>5. TypeOK'
    <3>1. st' \in [Rollouts -> Rollout]
      BY <2>1, <2>3
    <3> QED BY <1>a, <2>2, <2>4, <3>1 DEF TypeOK
  <2> QED BY <2>2, <2>3, <2>4, <2>5 DEF IInv, Lockstep, Batched
<1>6. CASE UNCHANGED vars
  BY <1>6 DEF vars, IInv, TypeOK, Lockstep, Batched, HasRoom
<1> QED BY <1>1, <1>2, <1>3, <1>4, <1>5, <1>6 DEF Next

LEMMA Inductive == Spec => []IInv
BY InitIsInductive, NextIsInductive, PTL DEF Spec

\* The driver's state is what its fields say, and the requests of a running
\* batch are made from the present tapes of their rollouts.
THEOREM TypeCorrect == Spec => []TypeOK
<1>1. IInv => TypeOK
  BY DEF IInv
<1> QED BY <1>1, Inductive, PTL

\* "Capped at max_turns, matching one generation per rollout per round"
\* (hint_loop.py:164-165): the barrier leaves nobody behind.
THEOREM RoundsAreLockstep == Spec => []Lockstep
<1>1. IInv => Lockstep
  BY DEF IInv
<1> QED BY <1>1, Inductive, PTL

-----------------------------------------------------------------------------
(***************************************************************************)
(* The end of a batch.  TLC checks on small instances that it comes        *)
(* (Terminates); what that rests on, but for the rule that a step that can *)
(* be taken is taken, holds for every value of the constants.              *)
(***************************************************************************)
\* How many steps a driver has left at most.
StepsLeft ==
  IF phase = "round" THEN 2 * (MaxTurns - round) + 3
  ELSE IF phase = "batch" THEN 2 * (MaxTurns - round) + 2
  ELSE IF phase = "finalize" THEN 2
  ELSE IF phase = "forcing" THEN 1
  ELSE 0

ComesNearer == StepsLeft' \in Nat /\ StepsLeft' < StepsLeft

LEMMA StepComesNearer == IInv /\ [Next]_vars => [ComesNearer]_vars
<1> SUFFICES ASSUME IInv, Next PROVE ComesNearer
  OBVIOUS
<1>1. /\ round \in Nat /\ MaxTurns \in Nat /\ round <= MaxTurns
      /\ phase = "batch" => round < MaxTurns
  BY ConstantsAreNat DEF IInv, TypeOK, Batched
<1>2. CASE StartRound
  BY <1>1, <1>2 DEF StartRound, ComesNearer, StepsLeft
<1>3. CASE FinishBatch
  BY <1>1, <1>3 DEF FinishBatch, ComesNearer, StepsLeft
<1>4. CASE CapReached
  BY <1>1, <1>4 DEF CapReached, ComesNearer, StepsLeft
<1>5. CASE FinalizeUnfinished
  BY <1>5 DEF FinalizeUnfinished, ComesNearer, StepsLeft
<1>6. CASE ForceAnswers
  BY <1>6 DEF ForceAnswers, ComesNearer, StepsLeft
<1> QED BY <1>2, <1>3, <1>4, <1>5, <1>6 DEF Next

\* Every step of the driver brings the end of the batch nearer, whatever the
\* engine returns: there are 2 * max_turns + 3 of them at most.
THEOREM EveryStepComesNearer ==
  Spec => StepsLeft = 2 * MaxTurns + 3 /\ [][ComesNearer]_vars
<1>1. Init => StepsLeft = 2 * MaxTurns + 3
  BY ConstantsAreNat DEF Init, StepsLeft
<1> QED BY <1>1, StepComesNearer, Inductive, PTL DEF Spec

\* What the driver needs to take its next step: at the barrier, texts that answer
\* every request of the batch; at the end, answers that fit.
CanGoOn ==
  \/ phase = "round" /\ (round < MaxTurns \/ round = MaxTurns)
  \/ /\ phase = "batch"
     /\ \E g \in [DOMAIN batch -> Generation] :
           \A r \in DOMAIN batch : Serves(batch[r], g[r])
  \/ phase = "finalize"
  \/ /\ phase = "forcing"
     /\ \E a \in [Rollouts -> Answer] : \A r \in Rollouts : MaySample(st[r], a[r])

NotStuck == phase # "done" => CanGoOn

\* The driver is never stuck before its end.  It sends the engine nothing that
\* cannot be answered, so no rollout holds the barrier up for the others; and
\* where it forces an answer there is room for one.
THEOREM RoundsAreNeverStuck ==
  ASSUME Texts # {}
  PROVE  Spec => []NotStuck
<1>1. IInv => NotStuck
  <2> SUFFICES ASSUME IInv, phase # "done" PROVE CanGoOn
    BY DEF NotStuck
  <2>1. /\ st \in [Rollouts -> Rollout] /\ round \in 0..MaxTurns
        /\ phase \in {"round", "batch", "finalize", "forcing", "done"}
        /\ DOMAIN batch \subseteq Rollouts
        /\ \A r \in DOMAIN batch : batch[r] = Request(st[r])
    BY DEF IInv, TypeOK
  <2>2. CASE phase = "round"
    BY <2>1, <2>2, ConstantsAreNat DEF CanGoOn
  <2>3. CASE phase = "batch"
    <3>1. ASSUME NEW r \in DOMAIN batch PROVE \E g \in Generation : Serves(batch[r], g)
      <4>1. st[r] \in Rollout /\ HasRoom(st[r]) /\ batch[r] = Request(st[r])
        BY <2>1, <2>3 DEF IInv, Batched
      <4>2. batch[r].prompt = st[r].total /\ batch[r].budget = MaxResponseLen - st[r].resp
        BY <4>1 DEF Request
      <4> QED BY <4>1, <4>2, RoomIsServed
    <3> DEFINE g == [r \in DOMAIN batch |-> CHOOSE x \in Generation : Serves(batch[r], x)]
    <3>2. \A r \in DOMAIN batch : g[r] \in Generation /\ Serves(batch[r], g[r])
      BY <3>1
    <3>3. g \in [DOMAIN batch -> Generation]
      BY <3>2
    <3> HIDE DEF g
    <3> QED BY <2>3, <3>2, <3>3 DEF CanGoOn
  <2>4. CASE phase = "forcing"
    <3>1. \A r \in Rollouts : \E a \in Answer : MaySample(st[r], a)
      BY <2>1, SomeAnswerFits
    <3> DEFINE a == [r \in Rollouts |-> CHOOSE x \in Answer : MaySample(st[r], x)]
    <3>2. \A r \in Rollouts : a[r] \in Answer /\ MaySample(st[r], a[r])
      BY <3>1
    <3>3. a \in [Rollouts -> Answer]
      BY <3>2
    <3> HIDE DEF a
    <3> QED BY <2>4, <3>2, <3>3 DEF CanGoOn
  <2> QED BY <2>1, <2>2, <2>3, <2>4 DEF CanGoOn
<1> QED BY <1>1, Inductive, PTL

-----------------------------------------------------------------------------
(***************************************************************************)
(* The refinement.  The batch's rules are the driver's rules.              *)
(***************************************************************************)
LEMMA SameRules ==
  /\ \A p, h : Promise!Fresh(p, h) = Fresh(p, h)
  /\ \A s : Promise!HasRoom(s) = HasRoom(s)
  /\ \A s : Promise!CutShort(s) = CutShort(s)
  /\ \A s : Promise!Finalize(s) = Finalize(s)
  /\ \A s, g : Promise!Fits(s, g) = Fits(s, g)
  /\ Promise!Generation = Generation
<1>1. \A p, h : Promise!Fresh(p, h) = Fresh(p, h)
  BY DEF Promise!Fresh, Fresh
<1>2. \A s : Promise!HasRoom(s) = HasRoom(s)
  BY DEF Promise!HasRoom, HasRoom
<1>3. \A s : Promise!CutShort(s) = CutShort(s)
  BY DEF Promise!CutShort, CutShort
<1>4. \A s : Promise!Finalize(s) = Finalize(s)
  BY DEF Promise!Finalize, Finalize
<1>5. \A s, g : Promise!Fits(s, g) = Fits(s, g)
  BY DEF Promise!Fits, Fits
<1>6. Promise!Generation = Generation
  BY DEF Promise!Generation, Generation
<1> QED BY <1>1, <1>2, <1>3, <1>4, <1>5, <1>6

LEMMA SameIngest == \A s, g : Promise!Ingest(s, g) = Ingest(s, g)
BY DEF Promise!Ingest, Ingest, Promise!Contains, Contains, Promise!Extended, Extended,
       Promise!CutShort, CutShort, Promise!Completed, Completed,
       Promise!AnswerRequest, AnswerRequest, Promise!Refuse, Refuse,
       Promise!InjectHint, InjectHint, Promise!EnvironmentTurn, EnvironmentTurn,
       Promise!Reply, Reply

LEMMA SameForcing ==
  /\ Promise!Answer = Answer
  /\ \A s, a : Promise!MaySample(s, a) = MaySample(s, a)
  /\ \A s, a : Promise!Settled(s, a) = Settled(s, a)
<1>1. Promise!Answer = Answer
  BY DEF Promise!Answer, Answer
<1>2. Promise!Rescue = Rescue /\ (\A t, c : Promise!CutAt(t, c) = CutAt(t, c))
      /\ \A t : Promise!Tight(t) = Tight(t)
  BY DEF Promise!Rescue, Rescue, Promise!CutAt, CutAt, Promise!Exchanges, Exchanges,
         Promise!After, After, Promise!Exchange, Exchange, Promise!Ask, Ask,
         Promise!Reply, Reply, Promise!Tight, Tight, Promise!Loose, Loose
<1>3. \A t : Promise!Rescuable(t) = Rescuable(t)
  BY <1>2 DEF Promise!Rescuable, Rescuable
<1>4. \A t : Promise!AnswerScaffold(t) = AnswerScaffold(t)
  BY <1>2 DEF Promise!AnswerScaffold, AnswerScaffold
<1>5. \A s : Promise!AddedLen(s) = AddedLen(s)
  BY <1>4 DEF Promise!AddedLen, AddedLen
<1>6. \A s : Promise!CanForce(s) = CanForce(s)
  BY <1>3, <1>5 DEF Promise!CanForce, CanForce
<1>7. \A s, a : Promise!MaySample(s, a) = MaySample(s, a)
  BY <1>5, <1>6 DEF Promise!MaySample, MaySample, Promise!AnswerFits, AnswerFits
<1>8. \A s, a : Promise!ForceAnswer(s, a) = ForceAnswer(s, a)
  <2>1. \A t : Promise!Reverse(t) = Reverse(t)
    BY DEF Promise!Reverse, Reverse
  <2>2. \A t, u : Promise!IsPrefix(t, u) = IsPrefix(t, u)
    BY DEF Promise!IsPrefix, IsPrefix
  <2>3. \A t, u : Promise!IsSuffix(t, u) = IsSuffix(t, u)
    BY <2>1, <2>2 DEF Promise!IsSuffix, IsSuffix
  <2>4. \A s, ts, n : Promise!Extended(s, ts, n) = Extended(s, ts, n)
    BY DEF Promise!Extended, Extended
  <2> QED BY <1>4, <1>5, <2>3, <2>4 DEF Promise!ForceAnswer, ForceAnswer
<1>9. \A s, a : Promise!Settled(s, a) = Settled(s, a)
  BY <1>6, <1>8 DEF Promise!Settled, Settled, Promise!Unforced, Unforced
<1> QED BY <1>1, <1>7, <1>9

\* The batch is where the driver is: taking turns until it is finalized.
AbstractPhase == IF phase \in {"forcing", "done"} THEN phase ELSE "turns"

LEMMA InitImplements == Init => Promise!Init
BY SameRules DEF Init, Promise!Init

LEMMA StutterOnTheBatch ==
  ASSUME st' = st, AbstractPhase' = AbstractPhase
  PROVE  UNCHANGED Promise!vars
BY DEF Promise!vars, AbstractPhase

\* Asking can_generate of the live rollouts cuts short the ones without room.
LEMMA StartRoundImplements ==
  ASSUME IInv, StartRound
  PROVE  [Promise!Next]_Promise!vars
<1> DEFINE S == {r \in Rollouts : ~st[r].completed /\ ~HasRoom(st[r])}
<1>1. /\ phase = "round" /\ phase' \in {"finalize", "batch"} /\ round < MaxTurns
      /\ st' = [r \in Rollouts |-> IF r \in S THEN CutShort(st[r]) ELSE st[r]]
  BY DEF StartRound
<1>2. /\ \A r \in Rollouts : ~st[r].completed => st[r].turns = round
      /\ st \in [Rollouts -> Rollout]
  BY DEF IInv, Lockstep, TypeOK
<1>3. CASE S = {}
  <2>1. st' = [r \in Rollouts |-> st[r]]
    BY <1>1, <1>3
  <2>2. st' = st
    BY <1>2, <2>1
  <2> QED BY <1>1, <2>2, StutterOnTheBatch DEF AbstractPhase
<1>4. CASE S # {}
  <2>1. \A r \in S : Promise!Open(r) /\ ~Promise!HasRoom(st[r])
    BY <1>1, <1>2, SameRules DEF Promise!Open
  <2>2. st' = [r \in Rollouts |-> IF r \in S THEN Promise!CutShort(st[r]) ELSE st[r]]
    BY <1>1, SameRules
  <2> HIDE DEF S
  <2>3. Promise!RunOut(S)
    BY <1>1, <1>4, <2>1, <2>2 DEF Promise!RunOut
  <2>4. S \in SUBSET Rollouts
    BY DEF S
  <2> QED BY <2>3, <2>4 DEF Promise!Next
<1> QED BY <1>3, <1>4

\* A batch is a turn of every rollout that is not finished.
LEMMA FinishBatchImplements ==
  ASSUME IInv, FinishBatch
  PROVE  Promise!Next
<1> DEFINE S == DOMAIN batch
<1>1. PICK g \in [S -> Generation] :
        /\ \A r \in S : Serves(batch[r], g[r])
        /\ st' = [r \in Rollouts |-> IF r \in S THEN Ingest(st[r], g[r]) ELSE st[r]]
  BY DEF FinishBatch
<1>2. phase = "batch" /\ phase' = "round"
  BY DEF FinishBatch
<1>3. /\ S \in SUBSET Rollouts /\ S # {} /\ round < MaxTurns
      /\ \A r \in S : /\ ~st[r].completed /\ st[r].turns = round /\ HasRoom(st[r])
                      /\ batch[r] = Request(st[r]) /\ st[r] \in Rollout
  BY <1>2 DEF IInv, TypeOK, Lockstep, Batched
<1> HIDE DEF S
<1>4. \A r \in S : Promise!Open(r) /\ Promise!HasRoom(st[r])
  BY <1>3, SameRules DEF Promise!Open
<1>5. \A r \in S : Promise!Fits(st[r], g[r])
  <2>1. ASSUME NEW r \in S PROVE Fits(st[r], g[r])
    BY <1>1, <1>3, RequestOf DEF Request
  <2> QED BY <2>1, SameRules
<1>6. g \in [S -> Promise!Generation]
  BY <1>1, SameRules
<1>7. st' = [r \in Rollouts |-> IF r \in S THEN Promise!Ingest(st[r], g[r]) ELSE st[r]]
  BY <1>1, SameIngest
<1>8. Promise!TakeTurns(S)
  BY <1>2, <1>3, <1>4, <1>5, <1>6, <1>7 DEF Promise!TakeTurns
<1> QED BY <1>3, <1>8 DEF Promise!Next

LEMMA StepImplements == IInv /\ [Next]_vars => [Promise!Next]_Promise!vars
<1> SUFFICES ASSUME IInv, [Next]_vars PROVE [Promise!Next]_Promise!vars
  OBVIOUS
<1>1. CASE StartRound
  BY <1>1, StartRoundImplements
<1>2. CASE FinishBatch
  BY <1>2, FinishBatchImplements
<1>3. CASE CapReached
  BY <1>3, StutterOnTheBatch DEF CapReached, AbstractPhase
<1>4. CASE FinalizeUnfinished
  <2>1. /\ phase = "finalize" /\ phase' = "forcing"
        /\ st' = [r \in Rollouts |-> Promise!Finalize(st[r])]
    BY <1>4, SameRules DEF FinalizeUnfinished
  <2>2. \A r \in Rollouts : st[r].completed \/ st[r].turns = MaxTurns
    BY <2>1 DEF IInv
  <2>3. \A r \in Rollouts : ~Promise!Open(r)
    BY <2>2, ConstantsAreNat DEF Promise!Open
  <2>4. Promise!Close
    BY <2>1, <2>3 DEF Promise!Close
  <2> QED BY <2>4 DEF Promise!Next
<1>5. CASE ForceAnswers
  <2>1. PICK a \in [Rollouts -> Answer] :
          /\ \A r \in Rollouts : MaySample(st[r], a[r])
          /\ st' = [r \in Rollouts |-> Settled(st[r], a[r])]
    BY <1>5 DEF ForceAnswers
  <2>2. /\ a \in [Rollouts -> Promise!Answer]
        /\ \A r \in Rollouts : Promise!MaySample(st[r], a[r])
        /\ st' = [r \in Rollouts |-> Promise!Settled(st[r], a[r])]
    BY <2>1, SameForcing
  <2>3. phase = "forcing" /\ phase' = "done"
    BY <1>5 DEF ForceAnswers
  <2>4. Promise!ForceAnswers
    BY <2>2, <2>3 DEF Promise!ForceAnswers
  <2> QED BY <2>4 DEF Promise!Next
<1>6. CASE UNCHANGED vars
  BY <1>6, StutterOnTheBatch DEF vars, AbstractPhase
<1> QED BY <1>1, <1>2, <1>3, <1>4, <1>5, <1>6 DEF Next

\* run_rounds implements the batch: whatever HintRollout promises of its
\* rollouts (budgets, hints, flags, what a forced answer does), the round driver
\* keeps.
THEOREM RoundsImplement == Spec => ImplementsHintRollout
<1>1. Init => Promise!Init
  BY InitImplements
<1>2. IInv /\ [Next]_vars => [Promise!Next]_Promise!vars
  BY StepImplements
<1> QED BY <1>1, <1>2, Inductive, PTL DEF Spec, ImplementsHintRollout, Promise!Spec
=============================================================================
