------------------------- MODULE HintRolloutProofs --------------------------
(***************************************************************************)
(* Proofs about the hint rollout, for every value of the constants.        *)
(*                                                                         *)
(* A rollout keeps the same promises for as long as turns are taken        *)
(* (Turning, Judged), whatever the driver does; forcing happens once, at   *)
(* the end, and turns them into the promises of a settled rollout          *)
(* (Settling, Verdict).  What each rule does to a record is proved in      *)
(* TurnRulesProofs; the steps of the batch follow from that.               *)
(*                                                                         *)
(* At the end, the tag walks the rollout and its reward share (MCTagWalk). *)
(***************************************************************************)
EXTENDS ResponseTensor, MCTagWalk, TurnRulesProofs

-----------------------------------------------------------------------------
(***************************************************************************)
(* The batch.                                                              *)
(***************************************************************************)
\* The inductive invariant: the records' promises before and after forcing,
\* and that only the cap or a dropped request leaves one unfinished.
IInv ==
  /\ TypeOK
  /\ phase # "done" => \A r \in Rollouts : Turning(st[r])
  /\ phase = "done" => \A r \in Rollouts : Settling(st[r])
  /\ phase # "turns" => \A r \in Rollouts :
       ~st[r].completed => st[r].truncated /\ (r \in lost \/ st[r].turns = MaxTurns)

LEMMA InitIsInductive == Init => IInv
<1> SUFFICES ASSUME Init PROVE IInv
  OBVIOUS
<1>1. \A r \in Rollouts : \E p \in PromptLens, h \in HintCounts : st[r] = Fresh(p, h)
  BY DEF Init
<1>2. \A r \in Rollouts : Turning(st[r])
  BY <1>1, FreshIsTurning, BatchAssumption DEF BatchAssumption
<1>3. \A r \in Rollouts : st[r] \in Rollout
  BY <1>2 DEF Turning
<1>4. st \in [Rollouts -> Rollout]
  BY <1>3 DEF Init
<1> QED BY <1>2, <1>4 DEF Init, IInv, TypeOK

\* One step per action.
LEMMA NextIsInductive == IInv /\ [Next]_vars => IInv'
<1> SUFFICES ASSUME IInv, [Next]_vars PROVE IInv'
  OBVIOUS
<1>1. ASSUME NEW S \in SUBSET Rollouts, TakeTurns(S) PROVE IInv'
  <2>1. PICK g \in [S -> Generation] :
          /\ \A r \in S : Fits(st[r], g[r])
          /\ st' = [r \in Rollouts |-> IF r \in S THEN Ingest(st[r], g[r]) ELSE st[r]]
    BY <1>1 DEF TakeTurns
  <2>2. phase = "turns" /\ phase' = phase /\ lost' = lost
    BY <1>1 DEF TakeTurns
  <2>3. ASSUME NEW r \in Rollouts PROVE Turning(st'[r])
    <3>1. Turning(st[r])
      BY <2>2 DEF IInv
    <3>2. CASE r \in S
      <4>1. ~st[r].completed /\ st[r].turns < MaxTurns
        BY <1>1, <3>2 DEF TakeTurns, Open
      <4>2. g[r] \in Generation /\ Fits(st[r], g[r]) /\ st'[r] = Ingest(st[r], g[r])
        BY <2>1, <3>2
      <4> QED BY <3>1, <4>1, <4>2, IngestKeepsTurning
    <3>3. CASE r \notin S
      BY <2>1, <3>1, <3>3
    <3> QED BY <3>2, <3>3
  <2>4. st' \in [Rollouts -> Rollout]
    <3>1. \A r \in Rollouts : st'[r] \in Rollout
      BY <2>3 DEF Turning
    <3> QED BY <2>1, <3>1
  <2> QED BY <2>2, <2>3, <2>4 DEF IInv, TypeOK
<1>2. ASSUME NEW S \in SUBSET Rollouts, RunOut(S) PROVE IInv'
  <2>1. /\ st' = [r \in Rollouts |-> IF r \in S THEN CutShort(st[r]) ELSE st[r]]
        /\ phase = "turns" /\ phase' = phase /\ lost' = lost
    BY <1>2 DEF RunOut
  <2>2. ASSUME NEW r \in Rollouts PROVE Turning(st'[r])
    BY <2>1, CutShortKeepsTurning DEF IInv
  <2>3. st' \in [Rollouts -> Rollout]
    <3>1. \A r \in Rollouts : st'[r] \in Rollout
      BY <2>2 DEF Turning
    <3> QED BY <2>1, <3>1
  <2> QED BY <2>1, <2>2, <2>3 DEF IInv, TypeOK
<1>3. ASSUME NEW r \in Rollouts, Lose(r) PROVE IInv'
  BY <1>3 DEF Lose, IInv, TypeOK
<1>4. ASSUME Close PROVE IInv'
  <2>1. /\ \A r \in Rollouts : ~Open(r)
        /\ st' = [r \in Rollouts |-> Finalize(st[r])]
        /\ phase = "turns" /\ phase' = "forcing" /\ lost' = lost
    BY <1>4 DEF Close
  <2>2. ASSUME NEW r \in Rollouts
        PROVE  /\ Turning(st'[r])
               /\ ~st'[r].completed => st'[r].truncated /\ (r \in lost \/ st'[r].turns = MaxTurns)
    <3>1. Turning(st[r]) /\ st'[r] = Finalize(st[r])
      BY <2>1 DEF IInv
    <3>2. st[r].completed \/ r \in lost \/ st[r].turns = MaxTurns
      <4>1. st[r].turns \in Nat /\ MaxTurns \in Nat /\ st[r].turns <= MaxTurns
        BY <3>1, ConstantsAreNat DEF Turning, Rollout
      <4> QED BY <2>1, <4>1 DEF Open
    <3> QED BY <3>1, <3>2, FinalizeFacts
  <2>3. st' \in [Rollouts -> Rollout]
    <3>1. \A r \in Rollouts : st'[r] \in Rollout
      BY <2>2 DEF Turning
    <3> QED BY <2>1, <3>1
  <2> QED BY <2>1, <2>2, <2>3 DEF IInv, TypeOK
<1>5. ASSUME ForceAnswers PROVE IInv'
  <2>1. PICK a \in [Rollouts -> Answer] :
          /\ \A r \in Rollouts : MaySample(st[r], a[r])
          /\ st' = [r \in Rollouts |-> Settled(st[r], a[r])]
    BY <1>5 DEF ForceAnswers
  <2>2. phase = "forcing" /\ phase' = "done" /\ lost' = lost
    BY <1>5 DEF ForceAnswers
  <2>3. ASSUME NEW r \in Rollouts
        PROVE  /\ Settling(st'[r])
               /\ ~st'[r].completed => st'[r].truncated /\ (r \in lost \/ st'[r].turns = MaxTurns)
    <3>1. Turning(st[r]) /\ a[r] \in Answer /\ MaySample(st[r], a[r])
          /\ st'[r] = Settled(st[r], a[r])
      BY <2>1, <2>2 DEF IInv
    <3>2. ~st[r].completed => st[r].truncated /\ (r \in lost \/ st[r].turns = MaxTurns)
      BY <2>2 DEF IInv
    <3> QED BY <3>1, <3>2, SettledFacts
  <2>4. st' \in [Rollouts -> Rollout]
    <3>1. \A r \in Rollouts : st'[r] \in Rollout
      BY <2>3 DEF Settling
    <3> QED BY <2>1, <3>1
  <2> QED BY <2>2, <2>3, <2>4 DEF IInv, TypeOK
<1>6. CASE UNCHANGED vars
  BY <1>6 DEF vars, IInv, TypeOK
<1> QED BY <1>1, <1>2, <1>3, <1>4, <1>5, <1>6 DEF Next

LEMMA Inductive == Spec => []IInv
BY InitIsInductive, NextIsInductive, PTL DEF Spec

-----------------------------------------------------------------------------
\* Records, phases and lost rollouts stay what they are, through every turn
\* rule of hint_loop.py.
THEOREM TypeCorrect == Spec => []TypeOK
<1>1. IInv => TypeOK
  BY DEF IInv
<1> QED BY <1>1, Inductive, PTL

\* The policy's token budget, the turn cap and the context window are kept by
\* every rollout of every batch.
THEOREM BudgetsAreRespected == Spec => []BudgetsRespected
<1>1. IInv => BudgetsRespected
  <2> SUFFICES ASSUME IInv, NEW r \in Rollouts
               PROVE  /\ st[r].resp <= MaxResponseLen
                      /\ st[r].turns <= MaxTurns
                      /\ ~st[r].completed /\ ~st[r].forced /\ st[r].turns > 0
                           => st[r].total < MaxModelLen
                      /\ st[r].forced => st[r].total <=
                           IF st[r].thinkTruncated THEN MaxModelLen ELSE MaxModelLen + ClosingLen
    BY DEF BudgetsRespected
  <2>1. CASE phase # "done"
    BY <2>1 DEF IInv, Turning
  <2>2. CASE phase = "done"
    BY <2>2 DEF IInv, Settling
  <2> QED BY <2>1, <2>2
<1> QED BY <1>1, Inductive, PTL

\* However the turns of a batch interleave, a rollout is served its puzzle's
\* hints in order, each once, and no more than the cap allows.
THEOREM HintsAreServedInOrder == Spec => []HintsServedInOrder
<1>1. IInv => HintsServedInOrder
  BY DEF IInv, HintsServedInOrder, Turning, Settling
<1> QED BY <1>1, Inductive, PTL

\* The two truncation kinds of hint_loop.py:155-161 are exclusive, and between
\* them cover every truncated rollout.
THEOREM TruncationKindsExclusive == Spec => []TruncationKinds
<1>1. IInv => TruncationKinds
  BY DEF IInv, TruncationKinds, Turning, Settling
<1> QED BY <1>1, Inductive, PTL

\* However long its tape is, a rollout that force_answers gives an answer is
\* accepted by the reward's structure validator exactly when the policy put no
\* further tag into that answer.
THEOREM ForcedAnswersAreAccepted == Spec => []ForcedIsAccepted
<1>1. IInv => ForcedIsAccepted
  BY DEF IInv, ForcedIsAccepted, Turning, Settling
<1> QED BY <1>1, Inductive, PTL

\* The response of every rollout fits in the two budgets, the injected text and
\* what forcing puts around an answer: as wide a tensor loses none of it.
THEOREM TapeIsBounded == Spec => []TapeBounded
<1>1. IInv => TapeBounded
  <2> SUFFICES ASSUME IInv, NEW r \in Rollouts PROVE Bounded(st[r])
    BY DEF TapeBounded, Bounded
  <2>1. CASE phase # "done"
    BY <2>1, TurningIsBounded DEF IInv
  <2>2. CASE phase = "done"
    BY <2>2 DEF IInv, Settling
  <2> QED BY <2>1, <2>2
<1> QED BY <1>1, Inductive, PTL

\* finalize_unfinished finds only rollouts that spent their last turn on a
\* request, unless the engine dropped one.
THEOREM UnfinishedIsAtTurnCap == Spec => []UnfinishedOnlyAtTurnCap
<1>1. IInv => UnfinishedOnlyAtTurnCap
  <2> SUFFICES ASSUME IInv, NEW r \in Rollouts,
                      phase # "turns", ~st[r].completed, r \notin lost
               PROVE  /\ st[r].turns = MaxTurns /\ st[r].truncated
                      /\ MaxTurns > 0 => st[r].numHints = MaxTurns
    BY DEF UnfinishedOnlyAtTurnCap
  <2>1. st[r].turns = MaxTurns /\ st[r].truncated
    BY DEF IInv
  <2>2. st[r].numHints = st[r].turns
    BY DEF IInv, Turning, Settling
  <2> QED BY <2>1, <2>2
<1> QED BY <1>1, Inductive, PTL

-----------------------------------------------------------------------------
(***************************************************************************)
(* The batch's verdicts.                                                   *)
(***************************************************************************)
\* The inductive invariant, beside IInv.
VInv ==
  /\ phase = "turns" => \A r \in Rollouts : Judged(st[r]) /\ Unspoiled(st[r])
  /\ phase = "forcing" => \A r \in Rollouts : Judged(st[r])
  /\ phase = "done" => \A r \in Rollouts : Verdict(st[r])

LEMMA InitIsJudged == Init => VInv
<1> SUFFICES ASSUME Init, NEW r \in Rollouts PROVE Judged(st[r]) /\ Unspoiled(st[r])
  BY DEF Init, VInv
<1>1. PICK p \in PromptLens, h \in HintCounts : st[r] = Fresh(p, h)
  BY DEF Init
<1>2. st[r].tags = <<>> /\ ~st[r].malformed /\ ~st[r].truncated /\ st[r].numHints = 0
  BY <1>1 DEF Fresh
<1>3. ReplyCount(<<>>) = 0
  <2>1. ReplyTags(<<>>) = {}
    BY DEF ReplyTags
  <2> QED BY <2>1, FS_EmptySet DEF ReplyCount
<1> QED BY <1>2, <1>3 DEF Judged, Unspoiled

LEMMA NextIsJudged == IInv /\ VInv /\ [Next]_vars => VInv'
<1> SUFFICES ASSUME IInv, VInv, [Next]_vars PROVE VInv'
  OBVIOUS
<1>a. st \in [Rollouts -> Rollout]
  BY DEF IInv, TypeOK
<1>1. ASSUME NEW S \in SUBSET Rollouts, TakeTurns(S) PROVE VInv'
  <2>1. PICK g \in [S -> Generation] :
          st' = [r \in Rollouts |-> IF r \in S THEN Ingest(st[r], g[r]) ELSE st[r]]
    BY <1>1 DEF TakeTurns
  <2>2. phase = "turns" /\ phase' = phase
    BY <1>1 DEF TakeTurns
  <2>3. ASSUME NEW r \in Rollouts PROVE Judged(st'[r]) /\ Unspoiled(st'[r])
    <3>1. Judged(st[r]) /\ Unspoiled(st[r]) /\ st[r] \in Rollout
      BY <1>a, <2>2 DEF VInv
    <3>2. CASE r \in S
      <4>1. ~st[r].completed /\ g[r] \in Generation
        BY <1>1, <3>2 DEF TakeTurns, Open
      <4>2. st'[r] = Ingest(st[r], g[r])
        BY <2>1, <3>2
      <4> QED BY <3>1, <4>1, <4>2, IngestJudges
    <3>3. CASE r \notin S
      BY <2>1, <3>1, <3>3
    <3> QED BY <3>2, <3>3
  <2> QED BY <2>2, <2>3 DEF VInv
<1>2. ASSUME NEW S \in SUBSET Rollouts, RunOut(S) PROVE VInv'
  <2>1. /\ st' = [r \in Rollouts |-> IF r \in S THEN CutShort(st[r]) ELSE st[r]]
        /\ phase = "turns" /\ phase' = phase
    BY <1>2 DEF RunOut
  <2>2. ASSUME NEW r \in Rollouts PROVE Judged(st'[r]) /\ Unspoiled(st'[r])
    <3>1. Judged(st[r]) /\ Unspoiled(st[r]) /\ st[r] \in Rollout
      BY <1>a, <2>1 DEF VInv
    <3>2. r \in S => ~st[r].completed
      BY <1>2 DEF RunOut, Open
    <3> QED BY <2>1, <3>1, <3>2, CutShortJudges
  <2> QED BY <2>1, <2>2 DEF VInv
<1>3. ASSUME NEW r \in Rollouts, Lose(r) PROVE VInv'
  BY <1>3 DEF Lose, VInv
<1>4. ASSUME Close PROVE VInv'
  <2>1. /\ st' = [r \in Rollouts |-> Finalize(st[r])]
        /\ phase = "turns" /\ phase' = "forcing"
    BY <1>4 DEF Close
  <2>2. ASSUME NEW r \in Rollouts PROVE Judged(st'[r])
    BY <1>a, <2>1, FinalizeJudges DEF VInv
  <2> QED BY <2>1, <2>2 DEF VInv
<1>5. ASSUME ForceAnswers PROVE VInv'
  <2>1. PICK a \in [Rollouts -> Answer] :
          /\ \A r \in Rollouts : MaySample(st[r], a[r])
          /\ st' = [r \in Rollouts |-> Settled(st[r], a[r])]
    BY <1>5 DEF ForceAnswers
  <2>2. phase = "forcing" /\ phase' = "done"
    BY <1>5 DEF ForceAnswers
  <2>3. ASSUME NEW r \in Rollouts PROVE Verdict(st'[r])
    <3>1. Turning(st[r]) /\ Judged(st[r])
      BY <2>2 DEF IInv, VInv
    <3> QED BY <2>1, <3>1, SettledVerdict
  <2> QED BY <2>2, <2>3 DEF VInv
<1>6. CASE UNCHANGED vars
  BY <1>6 DEF vars, VInv
<1> QED BY <1>1, <1>2, <1>3, <1>4, <1>5, <1>6 DEF Next

LEMMA VerdictInductive == Spec => []VInv
<1>1. Init => VInv
  BY InitIsJudged
<1>2. IInv /\ VInv /\ [Next]_vars => VInv'
  BY NextIsJudged
<1> QED BY <1>1, <1>2, Inductive, PTL DEF Spec

-----------------------------------------------------------------------------
\* A rollout that ingest rejects for what the policy wrote (hint_loop.py:273)
\* is neither truncated, and so not forced, nor accepted by the validator.
THEOREM RejectedStaysRejected == Spec => []MalformedStaysMalformed
<1>1. VInv /\ IInv => MalformedStaysMalformed
  BY DEF VInv, IInv, TypeOK, Judged, Verdict, MalformedStaysMalformed
<1> QED BY <1>1, VerdictInductive, Inductive, PTL

\* get_num_hints counts on an accepted tape what num_hints counted while it
\* was written: no reply is lost to the reward, and none is made up.
THEOREM RewardCountsTheRequests == Spec => []RewardSeesTheHints
<1>1. \A s : Replies(s) = ReplyCount(s.tags)
  BY DEF Replies, ReplyCount, ReplyTags
<1>2. VInv /\ IInv => RewardSeesTheHints
  BY <1>1 DEF VInv, IInv, TypeOK, Judged, Verdict, RewardSeesTheHints
<1> QED BY <1>2, VerdictInductive, Inductive, PTL

-----------------------------------------------------------------------------
(***************************************************************************)
(* The tapes.  What a rollout's tape carries follows its record: as many   *)
(* tokens as the record counts, each with the mask of who wrote it, and an *)
(* end-of-sequence token only where the policy stopped for good.           *)
(***************************************************************************)
Written == Own \cup {"injected"}
Bit     == {0, 1}

IsTape(t) ==
  /\ t \in [text : Seq(Written), mask : Seq(Bit)]
  /\ Len(t.mask) = Len(t.text)
  /\ \A i \in 1..Len(t.text) : t.mask[i] = 1 <=> t.text[i] \in Own

Unended(s)   == \A i \in 1..Len(s) : s[i] # "eos"
EndedLast(s) == \A i \in 1..(Len(s) - 1) : s[i] # "eos"

\* The inductive invariant, beside IInv.
TapeInv ==
  /\ tape = [r \in Rollouts |-> tape[r]]
  /\ \A r \in Rollouts : IsTape(tape[r])
  /\ \A r \in Rollouts : ~st[r].forced =>
       /\ Len(tape[r].text) = st[r].total - st[r].prompt
       /\ EndedLast(tape[r].text)
  /\ phase = "turns" => \A r \in Rollouts : ~st[r].completed => Unended(tape[r].text)
  /\ Assembled => phase = "done" /\ out = Tensors

LEMMA CopiesFacts ==
  ASSUME NEW S, NEW c \in S, NEW n \in Int
  PROVE  /\ Copies(n, c) \in Seq(S)
         /\ Len(Copies(n, c)) = IF n >= 0 THEN n ELSE 0
         /\ \A i \in 1..Len(Copies(n, c)) : Copies(n, c)[i] = c
<1> DEFINE m == IF n >= 0 THEN n ELSE 0
<1>1. m \in Nat /\ 1..n = 1..m
  OBVIOUS
<1>2. Copies(n, c) = [i \in 1..m |-> c]
  BY <1>1 DEF Copies
<1> HIDE DEF m
<1>3. Copies(n, c) \in Seq(S)
  BY <1>1, <1>2, SeqDef
<1>4. Len(Copies(n, c)) = m /\ \A i \in 1..m : Copies(n, c)[i] = c
  BY <1>1, <1>2
<1> QED BY <1>3, <1>4 DEF m

LEMMA SampledFacts ==
  ASSUME NEW n \in Int, NEW stopped \in BOOLEAN, stopped => n > 0
  PROVE  /\ Sampled(n, stopped) \in Seq(Own)
         /\ Len(Sampled(n, stopped)) = IF n >= 0 THEN n ELSE 0
         /\ EndedLast(Sampled(n, stopped))
         /\ ~stopped => Unended(Sampled(n, stopped))
<1> DEFINE c(k) == Copies(k, "sampled")
<1>1. "sampled" \in Own /\ "eos" \in Own /\ "sampled" # "eos"
  BY DEF Own
<1>2. ASSUME NEW k \in Int
      PROVE  /\ c(k) \in Seq(Own) /\ Len(c(k)) = IF k >= 0 THEN k ELSE 0
             /\ \A i \in 1..Len(c(k)) : c(k)[i] = "sampled"
  BY <1>1, CopiesFacts
<1>3. Sampled(n, stopped) = IF stopped THEN Append(c(n - 1), "eos") ELSE c(n)
  BY DEF Sampled
<1> HIDE DEF c
<1>4. CASE stopped
  <2> DEFINE s == Append(c(n - 1), "eos")
  <2>1. n - 1 \in Int /\ c(n - 1) \in Seq(Own) /\ Len(c(n - 1)) = n - 1
        /\ \A i \in 1..(n - 1) : c(n - 1)[i] = "sampled"
    BY <1>2, <1>4
  <2>2. s \in Seq(Own) /\ Len(s) = n /\ \A i \in 1..(n - 1) : s[i] = c(n - 1)[i]
    BY <1>1, <2>1, AppendProperties
  <2> HIDE DEF s
  <2>3. EndedLast(s)
    BY <1>1, <2>1, <2>2 DEF EndedLast
  <2>4. Sampled(n, stopped) = s
    BY <1>3, <1>4 DEF s
  <2>5. Len(s) = IF n >= 0 THEN n ELSE 0
    BY <1>4, <2>2
  <2> QED BY <1>4, <2>2, <2>3, <2>4, <2>5, Zenon
<1>5. CASE ~stopped
  <2>1. Sampled(n, stopped) = c(n)
    BY <1>3, <1>5
  <2>2. c(n) \in Seq(Own) /\ Len(c(n)) = IF n >= 0 THEN n ELSE 0
    BY <1>2
  <2>3. EndedLast(c(n)) /\ Unended(c(n))
    BY <1>1, <1>2, <2>2 DEF EndedLast, Unended
  <2> QED BY <2>1, <2>2, <2>3, Zenon
<1> QED BY <1>4, <1>5

\* append keeps text and mask in step, if the segment is marked as what it is.
LEMMA AppendToFacts ==
  ASSUME NEW t, IsTape(t), NEW tokens \in Seq(Written), NEW trainable \in BOOLEAN,
         \A i \in 1..Len(tokens) : tokens[i] \in Own <=> trainable
  PROVE  LET u == AppendTo(t, tokens, trainable) IN
         /\ IsTape(u)
         /\ Len(u.text) = Len(t.text) + Len(tokens)
         /\ \A i \in 1..Len(u.text) :
              u.text[i] = IF i <= Len(t.text) THEN t.text[i] ELSE tokens[i - Len(t.text)]
<1> DEFINE u == AppendTo(t, tokens, trainable)
           bit == IF trainable THEN 1 ELSE 0
           bits == Copies(Len(tokens), bit)
           n == Len(t.text)
<1>1. t.text \in Seq(Written) /\ t.mask \in Seq(Bit) /\ Len(t.mask) = n
  BY DEF IsTape
<1>2. n \in Nat /\ Len(tokens) \in Nat
  BY <1>1
<1>3. bits \in Seq(Bit) /\ Len(bits) = Len(tokens) /\ \A i \in 1..Len(tokens) : bits[i] = bit
  <2>1. bit \in Bit
    BY DEF Bit
  <2> HIDE DEF bit
  <2> QED BY <1>2, <2>1, CopiesFacts
<1>4. u.text = t.text \o tokens /\ u.mask = t.mask \o bits
  BY DEF AppendTo
<1>5. u = [text |-> t.text \o tokens, mask |-> t.mask \o bits]
  BY DEF AppendTo
<1> HIDE DEF u, bits, bit, n
<1>6. /\ t.text \o tokens \in Seq(Written) /\ Len(t.text \o tokens) = n + Len(tokens)
      /\ \A i \in 1..(n + Len(tokens)) :
           (t.text \o tokens)[i] = IF i <= n THEN t.text[i] ELSE tokens[i - n]
  BY <1>1, ConcatProperties DEF n
<1>7. /\ t.mask \o bits \in Seq(Bit) /\ Len(t.mask \o bits) = n + Len(tokens)
      /\ \A i \in 1..(n + Len(tokens)) :
           (t.mask \o bits)[i] = IF i <= n THEN t.mask[i] ELSE bits[i - n]
  <2>1. /\ t.mask \o bits \in Seq(Bit) /\ Len(t.mask \o bits) = Len(t.mask) + Len(bits)
        /\ \A i \in 1..(Len(t.mask) + Len(bits)) :
             (t.mask \o bits)[i] = IF i <= Len(t.mask) THEN t.mask[i] ELSE bits[i - Len(t.mask)]
    <3> DEFINE mask == t.mask
    <3>1. mask \in Seq(Bit) /\ bits \in Seq(Bit)
      BY <1>1, <1>3
    <3> HIDE DEF mask
    <3>2. /\ mask \o bits \in Seq(Bit) /\ Len(mask \o bits) = Len(mask) + Len(bits)
          /\ \A i \in 1..(Len(mask) + Len(bits)) :
               (mask \o bits)[i] = IF i <= Len(mask) THEN mask[i] ELSE bits[i - Len(mask)]
      BY <3>1, ConcatProperties
    <3> QED BY <3>2, Zenon DEF mask
  <2>2. Len(t.mask) = n /\ Len(bits) = Len(tokens)
    BY <1>1, <1>3
  <2>3. Len(t.mask \o bits) = n + Len(tokens)
    BY <2>1, <2>2, Zenon
  <2>4. ASSUME NEW i \in 1..(n + Len(tokens))
        PROVE  (t.mask \o bits)[i] = IF i <= n THEN t.mask[i] ELSE bits[i - n]
    <3>1. i \in 1..(Len(t.mask) + Len(bits))
      BY <2>2, Zenon
    <3>2. (t.mask \o bits)[i] = IF i <= Len(t.mask) THEN t.mask[i] ELSE bits[i - Len(t.mask)]
      BY <2>1, <3>1, Zenon
    <3> QED BY <2>2, <3>2, Zenon
  <2> QED BY <2>1, <2>3, <2>4, Zenon
<1>8. ASSUME NEW i \in 1..(n + Len(tokens)) PROVE u.mask[i] = 1 <=> u.text[i] \in Own
  <2>1. CASE i <= n
    <3>1. i \in 1..n /\ u.mask[i] = t.mask[i] /\ u.text[i] = t.text[i]
      BY <1>2, <1>4, <1>6, <1>7, <2>1
    <3> QED BY <3>1 DEF IsTape, n
  <2>2. CASE ~(i <= n)
    <3>1. PICK j \in 1..Len(tokens) : j = i - n
      <4>1. i - n \in 1..Len(tokens)
        BY <1>2, <2>2
      <4> QED BY <4>1
    <3>2. u.mask[i] = bit /\ u.text[i] = tokens[j]
      BY <1>3, <1>4, <1>6, <1>7, <2>2, <3>1
    <3> QED BY <3>2 DEF bit
  <2> QED BY <2>1, <2>2
<1>9. IsTape(u)
  BY <1>4, <1>5, <1>6, <1>7, <1>8 DEF IsTape
<1> QED BY <1>4, <1>6, <1>9 DEF u, n

\* What a turn puts on a tape: what was sampled, and then the reply.
LEMMA TurnedFacts ==
  ASSUME NEW t, IsTape(t), Unended(t.text), NEW n \in Nat \ {0}, NEW m \in Nat,
         NEW stopped \in BOOLEAN, stopped => m = 0
  PROVE  LET u == AppendTo(AppendTo(t, Sampled(n, stopped), TRUE), Copies(m, "injected"), FALSE)
         IN  /\ IsTape(u)
             /\ Len(u.text) = Len(t.text) + n + m
             /\ EndedLast(u.text)
             /\ ~stopped => Unended(u.text)
<1> DEFINE s == Sampled(n, stopped)
           c == Copies(m, "injected")
           v == AppendTo(t, s, TRUE)
           u == AppendTo(v, c, FALSE)
<1>1. s \in Seq(Own) /\ Len(s) = n /\ EndedLast(s) /\ (~stopped => Unended(s))
  BY SampledFacts
<1>2. c \in Seq(Written) /\ Len(c) = m /\ \A i \in 1..m : c[i] = "injected"
  <2>1. "injected" \in Written
    BY DEF Written
  <2> QED BY <2>1, CopiesFacts
<1> HIDE DEF s, c
<1>3. s \in Seq(Written) /\ \A i \in 1..Len(s) : s[i] \in Own
  BY <1>1, SeqMonotonic, ElementOfSeq DEF Written
<1>4. "injected" \notin Own /\ "injected" # "eos"
  BY DEF Own
<1>5. /\ IsTape(v) /\ Len(v.text) = Len(t.text) + n
      /\ \A i \in 1..Len(v.text) :
           v.text[i] = IF i <= Len(t.text) THEN t.text[i] ELSE s[i - Len(t.text)]
  BY <1>1, <1>3, AppendToFacts
<1> HIDE DEF v
<1>6. /\ IsTape(u) /\ Len(u.text) = Len(v.text) + m
      /\ \A i \in 1..Len(u.text) :
           u.text[i] = IF i <= Len(v.text) THEN v.text[i] ELSE c[i - Len(v.text)]
  BY <1>2, <1>4, <1>5, AppendToFacts
<1> HIDE DEF u
<1>7. Len(t.text) \in Nat
  BY DEF IsTape
<1>8. ASSUME NEW i \in 1..Len(u.text), u.text[i] = "eos"
      PROVE  stopped /\ i = Len(u.text)
  <2>1. i <= Len(v.text)
    <3>1. CASE ~(i <= Len(v.text))
      <4>1. i - Len(v.text) \in 1..m
        BY <1>5, <1>6, <1>7, <3>1
      <4> QED BY <1>2, <1>4, <1>6, <1>8, <3>1, <4>1
    <3> QED BY <3>1
  <2>2. i \in 1..Len(v.text) /\ v.text[i] = "eos"
    BY <1>5, <1>6, <1>7, <1>8, <2>1
  <2>3. ~(i <= Len(t.text))
    <3>1. CASE i <= Len(t.text)
      <4>1. i \in 1..Len(t.text) /\ t.text[i] = "eos"
        BY <1>5, <1>7, <2>2, <3>1
      <4> QED BY <4>1 DEF Unended
    <3> QED BY <3>1
  <2>4. PICK j \in 1..n : j = i - Len(t.text)
    <3>1. i - Len(t.text) \in 1..n
      BY <1>5, <1>7, <2>2, <2>3
    <3> QED BY <3>1
  <2>5. s[j] = "eos"
    BY <1>5, <2>2, <2>3, <2>4
  <2>6. stopped
    BY <1>1, <2>5 DEF Unended
  <2>7. ~(j \in 1..(n - 1))
    BY <1>1, <2>5 DEF EndedLast
  <2> QED BY <1>5, <1>6, <1>7, <2>4, <2>6, <2>7
<1>9. EndedLast(u.text)
  <2>1. ASSUME NEW i \in 1..(Len(u.text) - 1) PROVE u.text[i] # "eos"
    <3>1. i \in 1..Len(u.text) /\ i # Len(u.text)
      BY <1>5, <1>6, <1>7
    <3> QED BY <1>8, <3>1
  <2> QED BY <2>1 DEF EndedLast
<1>10. ~stopped => Unended(u.text)
  BY <1>8 DEF Unended
<1>11. Len(u.text) = Len(t.text) + n + m
  BY <1>5, <1>6
<1> QED BY <1>6, <1>9, <1>10, <1>11, Zenon DEF s, c, v, u

LEMMA TapesBegin == TensorInit => TapeInv
<1> SUFFICES ASSUME TensorInit PROVE TapeInv
  OBVIOUS
<1>1. Init /\ tape = [r \in Rollouts |-> FreshTape] /\ out = NoTensors
  BY DEF TensorInit
<1>2. IsTape(FreshTape) /\ Len(FreshTape.text) = 0
  BY DEF IsTape, FreshTape
<1>3. ASSUME NEW r \in Rollouts PROVE st[r].total - st[r].prompt = 0
  <2>1. PICK p \in PromptLens, h \in HintCounts : st[r] = Fresh(p, h)
    BY <1>1 DEF Init
  <2> QED BY <2>1, BatchAssumption DEF Fresh, BatchAssumption
<1>4. EndedLast(FreshTape.text) /\ Unended(FreshTape.text)
  BY <1>2 DEF EndedLast, Unended
<1> QED BY <1>1, <1>2, <1>3, <1>4 DEF TapeInv, Assembled

\* An unforced answer leaves the tape as it was.
LEMMA UnforcedFacts ==
  ASSUME NEW s \in Rollout, NEW a, ~Settled(s, a).forced
  PROVE  Settled(s, a).total = s.total /\ Settled(s, a).prompt = s.prompt
<1>1. CASE CanForce(s)
  <2>1. Settled(s, a) = ForceAnswer(s, a)
    BY <1>1 DEF Settled
  <2>2. ForceAnswer(s, a).forced
    BY DEF ForceAnswer, Extended, Rollout
  <2> QED BY <2>1, <2>2
<1>2. CASE ~CanForce(s)
  BY <1>2 DEF Settled, Unforced, Rollout
<1> QED BY <1>1, <1>2

LEMMA TurnKeepsTapes ==
  ASSUME IInv, TapeInv, NEW r \in Rollouts, Turn(r)
  PROVE  TapeInv'
<1>1. PICK g \in [{r} -> Generation] :
        /\ Fits(st[r], g[r])
        /\ st' = [q \in Rollouts |-> IF q \in {r} THEN Ingest(st[q], g[q]) ELSE st[q]]
  BY DEF Turn, TakeTurns
<1>2. /\ phase = "turns" /\ phase' = "turns" /\ out' = out
      /\ ~st[r].completed /\ st[r].turns < MaxTurns
  BY DEF Turn, TakeTurns, Open
<1>3. PICK stopped \in BOOLEAN :
        /\ stopped => TurnMayStop(r)
        /\ tape' = [tape EXCEPT ![r] = Turned(r, stopped)]
  BY DEF Turn
<1>4. Turning(st[r]) /\ st[r] \in Rollout
  BY <1>2 DEF IInv, Turning
<1> DEFINE h == g[r]
<1>5. h \in Generation /\ st'[r] = Ingest(st[r], h) /\ h.len \in Nat \ {0}
  BY <1>1, ConstantsAreNat DEF Generation
<1> HIDE DEF h
<1>6. \A q \in Rollouts : q # r => st'[q] = st[q] /\ tape'[q] = tape[q]
  BY <1>1, <1>3 DEF TapeInv
<1>7. /\ Turning(st'[r]) /\ ~st'[r].forced
      /\ st'[r].resp = st[r].resp + h.len /\ st'[r].prompt = st[r].prompt
  <2>1. Fits(st[r], h)
    BY <1>1 DEF h
  <2>2. Turning(st'[r])
    BY <1>2, <1>4, <1>5, <2>1, IngestKeepsTurning
  <2> QED BY <1>4, <1>5, <2>2, IngestCountsTurn DEF Turning
<1>8. /\ TurnLen(r) = h.len
      /\ InjectedNow(r) = st'[r].total - st[r].total - h.len
  <2>1. st[r].resp \in Nat /\ h.len \in Nat
    BY <1>4, <1>5 DEF Rollout
  <2>2. TurnLen(r) = h.len
    BY <1>7, <2>1 DEF TurnLen
  <2> QED BY <2>2 DEF InjectedNow
<1>9. InjectedNow(r) \in Nat /\ (~st'[r].completed => InjectedNow(r) > 0)
  <2>1. Fits(st[r], h)
    BY <1>1 DEF h
  <2> QED BY <1>2, <1>4, <1>5, <1>8, <2>1, IngestMeasures
<1>10. stopped => InjectedNow(r) = 0 /\ st'[r].completed
  BY <1>3, <1>9 DEF TurnMayStop
<1> DEFINE n == TurnLen(r)
           m == InjectedNow(r)
           u == AppendTo(AppendTo(tape[r], Sampled(n, stopped), TRUE),
                         Copies(m, "injected"), FALSE)
<1>11. tape'[r] = u /\ tape' = [q \in Rollouts |-> tape'[q]]
  BY <1>3 DEF TapeInv, Turned
<1>12. /\ IsTape(tape[r]) /\ Unended(tape[r].text)
       /\ Len(tape[r].text) = st[r].total - st[r].prompt
  BY <1>2, <1>4 DEF TapeInv, Turning
<1>13. n \in Nat \ {0} /\ m \in Nat /\ (stopped => m = 0) /\ (stopped => st'[r].completed)
       /\ n = h.len /\ m = st'[r].total - st[r].total - h.len
  BY <1>5, <1>8, <1>9, <1>10
<1> HIDE DEF n, m
<1>14. /\ IsTape(u) /\ Len(u.text) = Len(tape[r].text) + n + m
       /\ EndedLast(u.text) /\ (~stopped => Unended(u.text))
  <2>1. IsTape(tape[r]) /\ Unended(tape[r].text)
    BY <1>12
  <2>2. n \in Nat \ {0} /\ m \in Nat /\ (stopped => m = 0)
    BY <1>13
  <2> QED BY <2>1, <2>2, TurnedFacts, Zenon
<1> HIDE DEF u
<1>15. Len(u.text) = st'[r].total - st'[r].prompt
  <2>1. st[r].total \in Nat /\ st[r].prompt \in Nat /\ h.len \in Nat
    BY <1>4, <1>5 DEF Rollout
  <2>2. st'[r].total \in Nat
    BY <1>7 DEF Turning, Rollout
  <2> DEFINE before == st[r].total
             after  == st'[r].total
             prompt == st[r].prompt
             own    == h.len
             length == Len(u.text)
  <2>3. /\ before \in Nat /\ prompt \in Nat /\ own \in Nat /\ after \in Nat
        /\ length = before - prompt + own + (after - before - own)
    BY <1>12, <1>13, <1>14, <2>1, <2>2, Zenon
  <2> HIDE DEF before, after, prompt, own, length
  <2>4. length = after - prompt
    BY <2>3
  <2> QED BY <1>7, <2>4, Zenon DEF length, after, prompt
<1>16. ~Assembled'
  BY <1>2 DEF TapeInv, Assembled
<1>17. ASSUME NEW q \in Rollouts
       PROVE  /\ IsTape(tape'[q])
              /\ ~st'[q].forced => Len(tape'[q].text) = st'[q].total - st'[q].prompt
                                   /\ EndedLast(tape'[q].text)
              /\ ~st'[q].completed => Unended(tape'[q].text)
  <2>1. CASE q = r
    BY <1>11, <1>13, <1>14, <1>15, <2>1
  <2>2. CASE q # r
    BY <1>2, <1>6, <2>2 DEF TapeInv
  <2> QED BY <2>1, <2>2
<1> QED BY <1>11, <1>16, <1>17 DEF TapeInv

LEMMA ScheduleKeepsTapes ==
  ASSUME IInv, TapeInv, Schedule
  PROVE  TapeInv'
<1>1. tape' = tape /\ out' = out /\ phase = "turns"
  BY DEF Schedule, RunOut, Lose, Close
<1>2. ~Assembled'
  BY <1>1 DEF TapeInv, Assembled
<1>3. ASSUME NEW q \in Rollouts
      PROVE  /\ st'[q].total = st[q].total /\ st'[q].prompt = st[q].prompt
             /\ st'[q].forced = st[q].forced
             /\ ~st'[q].completed => ~st[q].completed
  <2>1. st[q] \in Rollout
    BY DEF IInv, TypeOK
  <2>2. st'[q] \in {st[q], CutShort(st[q]), Finalize(st[q])}
    BY DEF Schedule, RunOut, Lose, Close
  <2> QED BY <2>1, <2>2 DEF CutShort, Finalize, Rollout
<1> QED BY <1>1, <1>2, <1>3 DEF TapeInv

LEMMA ForceKeepsTapes ==
  ASSUME IInv, TapeInv, ForceOnTapes
  PROVE  TapeInv'
<1>1. PICK a \in [Rollouts -> Answer] :
        st' = [r \in Rollouts |-> Settled(st[r], a[r])]
  BY DEF ForceOnTapes, ForceAnswers
<1>2. phase = "forcing" /\ phase' = "done" /\ out' = out
  BY DEF ForceOnTapes, ForceAnswers
<1>3. PICK stopped \in SUBSET Rollouts :
        /\ \A r \in stopped : AnswerMayStop(r)
        /\ tape' = [r \in Rollouts |->
                      IF st'[r].forced THEN Forced(r, r \in stopped) ELSE tape[r]]
  BY DEF ForceOnTapes
<1>4. ~Assembled'
  BY <1>2 DEF TapeInv, Assembled
<1>5. ASSUME NEW r \in Rollouts, st'[r].forced
      PROVE  IsTape(Forced(r, r \in stopped))
  <2> DEFINE k == AddedLen(st[r])
             n == AnswerLen(r)
             c == ClosingNow(r)
             b == r \in stopped
  <2>1. b \in BOOLEAN /\ (b => n > 0)
    BY <1>3 DEF AnswerMayStop
  <2>2. k \in Int /\ c \in Int
    BY ConstantsAreNat DEF AddedLen, ClosingNow
  <2>3. n \in Int
    <3>1. st[r] \in Rollout /\ st'[r] \in Rollout
      BY NextIsInductive DEF IInv, TypeOK, Next, ForceOnTapes
    <3>2. st[r].total \in Nat /\ st'[r].total \in Nat
      BY <3>1 DEF Rollout
    <3>3. n = st'[r].total - st[r].total - k - c
      BY DEF AnswerLen
    <3> HIDE DEF k, n, c
    <3> QED BY <2>2, <3>2, <3>3
  <2> DEFINE opened   == AppendTo(tape[r], Copies(k, "injected"), FALSE)
             answered == AppendTo(opened, Sampled(n, b), TRUE)
  <2>4. Forced(r, r \in stopped) = AppendTo(answered, Copies(c, "injected"), FALSE)
    BY DEF Forced
  <2> HIDE DEF k, n, c, b
  <2>5. "injected" \in Written /\ "injected" \notin Own
    BY DEF Written, Own
  <2>6. ASSUME NEW j \in Int
        PROVE  /\ Copies(j, "injected") \in Seq(Written)
               /\ \A i \in 1..Len(Copies(j, "injected")) : Copies(j, "injected")[i] \notin Own
    BY <2>5, CopiesFacts
  <2>7. IsTape(opened)
    BY <2>2, <2>6, AppendToFacts DEF TapeInv
  <2>8. Sampled(n, b) \in Seq(Own)
    BY <2>1, <2>3, SampledFacts
  <2>9. /\ Sampled(n, b) \in Seq(Written)
        /\ \A i \in 1..Len(Sampled(n, b)) : Sampled(n, b)[i] \in Own
    BY <2>8, SeqMonotonic, ElementOfSeq DEF Written
  <2> HIDE DEF opened
  <2>10. IsTape(answered)
    BY <2>7, <2>9, AppendToFacts
  <2> HIDE DEF answered
  <2>11. IsTape(AppendTo(answered, Copies(c, "injected"), FALSE))
    BY <2>2, <2>6, <2>10, AppendToFacts
  <2> QED BY <2>4, <2>11
<1>6. ASSUME NEW r \in Rollouts
      PROVE  /\ IsTape(tape'[r])
             /\ ~st'[r].forced => Len(tape'[r].text) = st'[r].total - st'[r].prompt
                                  /\ EndedLast(tape'[r].text)
  <2>1. CASE st'[r].forced
    BY <1>3, <1>5, <2>1
  <2>2. CASE ~st'[r].forced
    <3>1. tape'[r] = tape[r]
      BY <1>3, <2>2
    <3>2. st[r] \in Rollout /\ ~st[r].forced
      BY <1>2 DEF IInv, Turning
    <3>3. st'[r].total = st[r].total /\ st'[r].prompt = st[r].prompt
      BY <1>1, <2>2, <3>2, UnforcedFacts
    <3> QED BY <2>2, <3>1, <3>2, <3>3 DEF TapeInv
  <2> QED BY <2>1, <2>2
<1>7. tape' = [r \in Rollouts |-> tape'[r]]
  BY <1>3
<1> QED BY <1>2, <1>4, <1>6, <1>7 DEF TapeInv

\* Turns, scheduling and forcing are those of the hint rollout.
LEMMA TensorStepsAreRollouts == [TensorNext]_tensorVars => [Next]_vars
<1>1. ASSUME NEW r \in Rollouts, Turn(r) PROVE Next
  <2>1. {r} \in SUBSET Rollouts /\ TakeTurns({r})
    BY <1>1 DEF Turn
  <2> QED BY <2>1 DEF Next
<1>2. ASSUME Schedule PROVE Next
  <2>1. ASSUME NEW r \in Rollouts, RunOut({r}) PROVE Next
    <3>1. {r} \in SUBSET Rollouts
      OBVIOUS
    <3> QED BY <2>1, <3>1 DEF Next
  <2> QED BY <1>2, <2>1 DEF Schedule, Next
<1>3. ForceOnTapes => Next
  BY DEF ForceOnTapes, Next
<1>4. Assemble => UNCHANGED vars
  BY DEF Assemble, vars
<1>5. UNCHANGED tensorVars => UNCHANGED vars
  BY DEF tensorVars, vars
<1> QED BY <1>1, <1>2, <1>3, <1>4, <1>5 DEF TensorNext

LEMMA TensorIsInductive ==
  IInv /\ TapeInv /\ [TensorNext]_tensorVars => TapeInv'
<1> SUFFICES ASSUME IInv, TapeInv, [TensorNext]_tensorVars PROVE TapeInv'
  OBVIOUS
<1>1. CASE Assemble
  <2>1. /\ phase = "done" /\ out' = Tensors
        /\ st' = st /\ phase' = phase /\ tape' = tape
    BY <1>1 DEF Assemble
  <2>2. Tensors' = Tensors
    BY <2>1 DEF Tensors, Padded, Cut, ResponseMask, EndsSequence
  <2> QED BY <2>1, <2>2 DEF TapeInv
<1>2. CASE UNCHANGED tensorVars
  <2>1. UNCHANGED <<st, phase, tape, out>>
    BY <1>2 DEF tensorVars
  <2>2. Tensors' = Tensors
    BY <2>1 DEF Tensors, Padded, Cut, ResponseMask, EndsSequence
  <2> QED BY <2>1, <2>2 DEF TapeInv, Assembled
<1> QED BY <1>1, <1>2, TurnKeepsTapes, ScheduleKeepsTapes, ForceKeepsTapes DEF TensorNext

LEMMA TensorInductive == TensorSpec => [](IInv /\ TapeInv)
<1>1. TensorInit => IInv /\ TapeInv
  BY InitIsInductive, TapesBegin DEF TensorInit
<1>2. IInv /\ TapeInv /\ [TensorNext]_tensorVars => (IInv /\ TapeInv)'
  BY TensorStepsAreRollouts, TensorIsInductive, NextIsInductive
<1> QED BY <1>1, <1>2, PTL DEF TensorSpec

-----------------------------------------------------------------------------
(***************************************************************************)
(* The tensors.                                                            *)
(***************************************************************************)
LEMMA CutFacts ==
  ASSUME NEW S, NEW s \in Seq(S)
  PROVE  /\ Cut(s) \in Seq(S)
         /\ Len(Cut(s)) = Min2(Len(s), Width)
         /\ Len(Cut(s)) \in 0..Width /\ Len(Cut(s)) <= Len(s)
         /\ \A i \in 1..Len(Cut(s)) : Cut(s)[i] = s[i]
<1> DEFINE m == Min2(Len(s), Width)
<1>1. m \in Nat /\ m <= Len(s) /\ m <= Width /\ Width \in Nat /\ Len(s) \in Nat
  BY TensorAssumption DEF Min2
<1>2. Cut(s) = SubSeq(s, 1, m)
  BY DEF Cut
<1> HIDE DEF m
<1>3. \A i \in 1..m : s[i] \in S
  BY <1>1
<1>4. Cut(s) \in Seq(S) /\ Len(Cut(s)) = m /\ \A i \in 1..m : Cut(s)[i] = s[i]
  BY <1>1, <1>2, <1>3, SubSeqProperties
<1> QED BY <1>1, <1>4 DEF m

\* Padded rows are all as long as the longest.
Longest(rows) == Max({Len(rows[r]) : r \in Rollouts})

LEMMA PaddedFacts ==
  ASSUME NEW S, NEW rows \in [Rollouts -> Seq(S)], NEW pad \in S,
         \A r \in Rollouts : Len(rows[r]) \in 0..Width,
         NEW r \in Rollouts
  PROVE  /\ Padded(rows, pad)[r] \in Seq(S)
         /\ Len(Padded(rows, pad)[r]) = Longest(rows) /\ Len(rows[r]) <= Longest(rows)
         /\ \A i \in 1..Len(Padded(rows, pad)[r]) :
              Padded(rows, pad)[r][i] = IF i <= Len(rows[r]) THEN rows[r][i] ELSE pad
<1> DEFINE row == Padded(rows, pad)[r]
           lens == {Len(rows[q]) : q \in Rollouts}
           n == Len(rows[r])
           fill == Copies(Longest(rows) - n, pad)
<1>1. Longest(rows) \in Nat /\ n \in Nat /\ n <= Longest(rows)
  <2>1. lens \in SUBSET (0..Width) /\ n \in lens /\ Width \in Nat
    BY TensorAssumption
  <2>2. Max(lens) \in lens /\ \A y \in lens : Max(lens) >= y
    <3> HIDE DEF lens
    <3> QED BY <2>1, MaxIsGreatest
  <2>3. Longest(rows) = Max(lens)
    BY DEF Longest
  <2> HIDE DEF lens
  <2>4. n \in 0..Width /\ Max(lens) \in 0..Width
    BY <2>1, <2>2
  <2> HIDE DEF n
  <2> QED BY <2>1, <2>2, <2>3, <2>4
<1>2. fill \in Seq(S) /\ Len(fill) = Longest(rows) - n /\ \A i \in 1..Len(fill) : fill[i] = pad
  <2> DEFINE k == Longest(rows) - n
  <2>1. k \in Int /\ k >= 0
    BY <1>1
  <2> HIDE DEF k
  <2>2. /\ Copies(k, pad) \in Seq(S) /\ Len(Copies(k, pad)) = k
        /\ \A i \in 1..Len(Copies(k, pad)) : Copies(k, pad)[i] = pad
    BY <2>1, CopiesFacts
  <2> QED BY <2>2 DEF k
<1>3. row = rows[r] \o fill
  BY DEF Padded, Longest
<1> HIDE DEF row, fill
<1>4. rows[r] \in Seq(S)
  OBVIOUS
<1>5. /\ row \in Seq(S) /\ Len(row) = n + Len(fill)
      /\ \A i \in 1..(n + Len(fill)) : row[i] = IF i <= n THEN rows[r][i] ELSE fill[i - n]
  BY <1>2, <1>3, <1>4, ConcatProperties
<1>6. ASSUME NEW i \in 1..Len(row), ~(i <= n) PROVE row[i] = pad
  <2>1. i - n \in 1..Len(fill)
    BY <1>1, <1>2, <1>5, <1>6
  <2> QED BY <1>2, <1>5, <1>6, <2>1
<1>7. Len(row) = Longest(rows)
  BY <1>1, <1>2, <1>5
<1>8. \A i \in 1..Len(row) : row[i] = IF i <= n THEN rows[r][i] ELSE pad
  BY <1>5, <1>6
<1> HIDE DEF n
<1> QED BY <1>1, <1>5, <1>7, <1>8, Zenon DEF row, n

\* What the rows of a batch's tensors are made of.
LEMMA RowFacts ==
  ASSUME TapeInv, out = Tensors, NEW r \in Rollouts
  PROVE  LET text == Cut(tape[r].text)
             mask == Cut(tape[r].mask)
             row  == out.response[r]
             doc  == out.document[r]
         IN  /\ Len(mask) = Len(text)
             /\ row \in Seq(Token) /\ Len(text) <= Len(row) /\ Len(doc) = Len(row)
             /\ \A i \in 1..Len(row) :
                  /\ row[i] = IF i <= Len(text) THEN text[i] ELSE "pad"
                  /\ doc[i] = IF i <= Len(text) THEN mask[i] ELSE 0
             /\ out.attention[r] = ResponseMask(row)
<1> DEFINE texts == [q \in Rollouts |-> Cut(tape[q].text)]
           masks == [q \in Rollouts |-> Cut(tape[q].mask)]
<1>1. /\ out.response = Padded(texts, "pad")
      /\ out.document = Padded(masks, 0)
      /\ out.attention[r] = ResponseMask(out.response[r])
  BY DEF Tensors
<1>2. ASSUME NEW q \in Rollouts
      PROVE  /\ texts[q] \in Seq(Token) /\ masks[q] \in Seq(Bit)
             /\ Len(masks[q]) = Len(texts[q]) /\ Len(texts[q]) \in 0..Width
  <2>1. tape[q].text \in Seq(Written) /\ tape[q].mask \in Seq(Bit)
        /\ Len(tape[q].mask) = Len(tape[q].text)
    BY DEF TapeInv, IsTape
  <2>2. tape[q].text \in Seq(Token)
    BY <2>1, SeqMonotonic DEF Written, Token
  <2> QED BY <2>1, <2>2, CutFacts
<1>3. texts \in [Rollouts -> Seq(Token)] /\ masks \in [Rollouts -> Seq(Bit)]
  BY <1>2
<1>4. texts[r] = Cut(tape[r].text) /\ masks[r] = Cut(tape[r].mask)
  OBVIOUS
<1> HIDE DEF texts, masks
<1>5. Longest(masks) = Longest(texts)
  <2>1. {Len(masks[q]) : q \in Rollouts} = {Len(texts[q]) : q \in Rollouts}
    BY <1>2
  <2> QED BY <2>1 DEF Longest
<1>6. "pad" \in Token /\ 0 \in Bit
  BY DEF Token, Bit
<1> DEFINE row == out.response[r]
           doc == out.document[r]
<1>7. /\ row \in Seq(Token)
      /\ Len(row) = Longest(texts) /\ Len(texts[r]) <= Longest(texts)
      /\ \A i \in 1..Len(row) : row[i] = IF i <= Len(texts[r]) THEN texts[r][i] ELSE "pad"
  <2>1. \A q \in Rollouts : Len(texts[q]) \in 0..Width
    BY <1>2
  <2>2. texts \in [Rollouts -> Seq(Token)] /\ "pad" \in Token
    BY <1>3, <1>6
  <2>3. /\ Padded(texts, "pad")[r] \in Seq(Token)
        /\ Len(Padded(texts, "pad")[r]) = Longest(texts) /\ Len(texts[r]) <= Longest(texts)
        /\ \A i \in 1..Len(Padded(texts, "pad")[r]) :
             Padded(texts, "pad")[r][i] = IF i <= Len(texts[r]) THEN texts[r][i] ELSE "pad"
    BY <2>1, <2>2, PaddedFacts
  <2>4. row = Padded(texts, "pad")[r]
    BY <1>1
  <2> QED BY <2>3, <2>4
<1>8. /\ Len(doc) = Longest(masks)
      /\ \A i \in 1..Len(doc) : doc[i] = IF i <= Len(masks[r]) THEN masks[r][i] ELSE 0
  <2>1. \A q \in Rollouts : Len(masks[q]) \in 0..Width
    BY <1>2
  <2>2. masks \in [Rollouts -> Seq(Bit)] /\ 0 \in Bit
    BY <1>3, <1>6
  <2>3. /\ Len(Padded(masks, 0)[r]) = Longest(masks)
        /\ \A i \in 1..Len(Padded(masks, 0)[r]) :
             Padded(masks, 0)[r][i] = IF i <= Len(masks[r]) THEN masks[r][i] ELSE 0
    BY <2>1, <2>2, PaddedFacts
  <2>4. doc = Padded(masks, 0)[r]
    BY <1>1
  <2> QED BY <2>3, <2>4
<1> HIDE DEF row, doc
<1>9. Len(masks[r]) = Len(texts[r])
  BY <1>2
<1>10. ASSUME NEW i \in 1..Len(row)
       PROVE  /\ row[i] = IF i <= Len(texts[r]) THEN texts[r][i] ELSE "pad"
              /\ doc[i] = IF i <= Len(texts[r]) THEN masks[r][i] ELSE 0
  BY <1>5, <1>7, <1>8, <1>9
<1>11. Len(texts[r]) <= Len(row) /\ Len(doc) = Len(row) /\ row \in Seq(Token)
  BY <1>5, <1>7, <1>8
<1> QED BY <1>1, <1>4, <1>9, <1>10, <1>11 DEF row, doc

-----------------------------------------------------------------------------
\* The document mask that process_agentic_outputs returns marks, in every row
\* and wherever it was cut, exactly the tokens the policy sampled.
THEOREM TrainsOnTheSampled == TensorSpec => []TrainsOnWhatWasSampled
<1>1. TapeInv => TrainsOnWhatWasSampled
  <2> SUFFICES ASSUME TapeInv, Assembled, NEW r \in Rollouts
               PROVE  /\ Len(out.document[r]) = Len(out.response[r])
                      /\ \A i \in DOMAIN out.response[r] :
                           out.document[r][i] = 1 <=> out.response[r][i] \in Own
    BY DEF TrainsOnWhatWasSampled
  <2> DEFINE text == Cut(tape[r].text)
             mask == Cut(tape[r].mask)
             row  == out.response[r]
             doc  == out.document[r]
  <2>1. out = Tensors
    BY DEF TapeInv
  <2>2. /\ Len(mask) = Len(text)
        /\ row \in Seq(Token) /\ Len(doc) = Len(row)
        /\ \A i \in 1..Len(row) : /\ row[i] = IF i <= Len(text) THEN text[i] ELSE "pad"
                                  /\ doc[i] = IF i <= Len(text) THEN mask[i] ELSE 0
    BY <2>1, RowFacts
  <2>3. IsTape(tape[r])
    BY DEF TapeInv
  <2>4. /\ Len(text) \in Nat /\ Len(text) <= Len(tape[r].text)
        /\ \A i \in 1..Len(text) : text[i] = tape[r].text[i]
    BY <2>3, CutFacts DEF IsTape
  <2>5. \A i \in 1..Len(mask) : mask[i] = tape[r].mask[i]
    BY <2>3, CutFacts DEF IsTape
  <2> HIDE DEF text, mask, row, doc
  <2>6. "pad" \notin Own
    BY DEF Own
  <2>7. ASSUME NEW i \in 1..Len(row) PROVE doc[i] = 1 <=> row[i] \in Own
    <3>1. CASE i <= Len(text)
      <4>1. i \in 1..Len(text) /\ i \in 1..Len(tape[r].text)
        BY <2>3, <2>4, <3>1 DEF IsTape
      <4> QED BY <2>2, <2>3, <2>4, <2>5, <3>1, <4>1 DEF IsTape
    <3>2. CASE ~(i <= Len(text))
      BY <2>2, <2>6, <3>2
    <3> QED BY <3>1, <3>2
  <2>8. DOMAIN row = 1..Len(row)
    BY <2>2
  <2> QED BY <2>2, <2>7, <2>8 DEF row, doc
<1> QED BY <1>1, TensorInductive, PTL

\* A tensor as wide as documented has room for every tape not forced.
LEMMA TapeFits ==
  ASSUME IInv, TapeInv, phase = "done", WidthIsAsDocumented,
         NEW r \in Rollouts, ~st[r].forced
  PROVE  Cut(tape[r].text) = tape[r].text
<1>1. Settling(st[r]) /\ st[r] \in Rollout
  BY DEF IInv, TypeOK
<1>2. st[r].total = st[r].prompt + st[r].resp + InjectedLen(st[r])
      /\ st[r].resp <= MaxResponseLen
  BY <1>1 DEF Settling, Measured
<1>3. st[r].total \in Nat /\ st[r].prompt \in Nat /\ st[r].resp \in Nat
      /\ InjectedLen(st[r]) \in Nat
  BY <1>1, InjectedIsNat DEF Rollout
<1>4. MaxResponseLen + AnswerBudget + InjectedLen(st[r]) <= Width
  BY DEF WidthIsAsDocumented
<1>5. tape[r].text \in Seq(Written) /\ Len(tape[r].text) = st[r].total - st[r].prompt
  BY DEF TapeInv, IsTape
<1>6. Len(tape[r].text) <= Width /\ Width \in Nat
  BY <1>2, <1>3, <1>4, <1>5, ConstantsAreNat, TensorAssumption
<1>7. Min2(Len(tape[r].text), Width) = Len(tape[r].text)
  BY <1>6 DEF Min2
<1> QED BY <1>5, <1>7, SubSeqFull DEF Cut

\* What comes before the first end-of-sequence token is attended, and so is
\* that token: for a tape that stops at its end, all of it and some padding.
LEMMA AttendsTheTape ==
  ASSUME NEW text \in Seq(Written), EndedLast(text), NEW row \in Seq(Token),
         Len(text) <= Len(row),
         \A i \in 1..Len(row) : row[i] = IF i <= Len(text) THEN text[i] ELSE "pad"
  PROVE  \E v \in Len(text)..Len(row) :
           {i \in DOMAIN ResponseMask(row) : ResponseMask(row)[i] = 1} = 1..v
<1> DEFINE n == Len(text)
           m == Len(row)
           Seen(i) == ~\E j \in 1..(i - 1) : EndsSequence(row[j])
           attended == {i \in DOMAIN ResponseMask(row) : ResponseMask(row)[i] = 1}
<1>1. n \in Nat /\ m \in Nat /\ n <= m /\ DOMAIN row = 1..m
  BY LenProperties
<1>2. attended = {i \in 1..m : Seen(i)}
  BY <1>1 DEF ResponseMask
<1> HIDE DEF attended
<1>3. \A j \in 1..m : EndsSequence(row[j]) => j = n \/ (PadIsEos /\ j > n)
  <2>1. ASSUME NEW j \in 1..m, EndsSequence(row[j]), j < n PROVE FALSE
    <3>1. j \in 1..(n - 1) /\ j \in 1..n /\ row[j] = text[j]
      BY <1>1, <2>1
    <3>2. text[j] # "eos" /\ text[j] # "pad"
      <4>1. text[j] \in Written
        BY <3>1
      <4> QED BY <3>1, <4>1 DEF EndedLast, Written, Own
    <3> QED BY <2>1, <3>1, <3>2 DEF EndsSequence
  <2>2. ASSUME NEW j \in 1..m, EndsSequence(row[j]), j = n PROVE j = n
    BY <2>2
  <2>3. ASSUME NEW j \in 1..m, EndsSequence(row[j]), j > n PROVE PadIsEos
    BY <1>1, <2>3 DEF EndsSequence
  <2> QED BY <1>1, <2>1, <2>2, <2>3
<1>4. CASE n > 0 /\ EndsSequence(row[n])
  <2>1. \A i \in 1..m : Seen(i) <=> i <= n
    <3>1. ASSUME NEW i \in 1..m, i <= n PROVE Seen(i)
      BY <1>1, <1>3, <3>1
    <3>2. ASSUME NEW i \in 1..m, ~(i <= n) PROVE ~Seen(i)
      <4>1. n \in 1..(i - 1)
        BY <1>1, <1>4, <3>2
      <4> QED BY <1>4, <4>1
    <3> QED BY <3>1, <3>2
  <2>2. attended = 1..n
    BY <1>1, <1>2, <2>1
  <2> QED BY <1>1, <2>2 DEF attended
<1>5. CASE ~(n > 0 /\ EndsSequence(row[n])) /\ PadIsEos /\ n < m
  <2>1. \A i \in 1..m : Seen(i) <=> i <= n + 1
    <3>1. ASSUME NEW i \in 1..m, i <= n + 1 PROVE Seen(i)
      BY <1>1, <1>3, <1>5, <3>1
    <3>2. ASSUME NEW i \in 1..m, ~(i <= n + 1) PROVE ~Seen(i)
      <4>1. n + 1 \in 1..(i - 1) /\ n + 1 \in 1..m /\ ~(n + 1 <= n)
        BY <1>1, <1>5, <3>2
      <4>2. row[n + 1] = "pad"
        BY <4>1
      <4> QED BY <1>5, <4>1, <4>2 DEF EndsSequence
    <3> QED BY <3>1, <3>2
  <2>2. attended = 1..(n + 1)
    BY <1>1, <1>2, <1>5, <2>1
  <2>3. n + 1 \in n..m
    BY <1>1, <1>5
  <2> QED BY <2>2, <2>3 DEF attended
<1>6. CASE ~(n > 0 /\ EndsSequence(row[n])) /\ ~(PadIsEos /\ n < m)
  <2>1. \A i \in 1..m : Seen(i)
    BY <1>1, <1>3, <1>6
  <2>2. attended = 1..m
    BY <1>2, <2>1
  <2> QED BY <1>1, <2>2 DEF attended
<1> QED BY <1>4, <1>5, <1>6

\* Padding and end-of-sequence tokens are not part of the decoded text.
LEMMA PaddingIsNotDecoded ==
  ASSUME NEW text \in Seq(Token), NEW row \in Seq(Token), Len(text) <= Len(row),
         \A i \in 1..Len(row) : row[i] = IF i <= Len(text) THEN text[i] ELSE "pad"
  PROVE  Words(row) = Words(text)
<1> DEFINE kept(s) == {i \in DOMAIN s : s[i] \notin {"eos", "pad"}}
<1>1. DOMAIN text = 1..Len(text) /\ DOMAIN row = 1..Len(row)
      /\ Len(text) \in Nat /\ Len(row) \in Nat
  BY LenProperties
<1>2. \A i \in 1..Len(text) : i \in 1..Len(row) /\ row[i] = text[i]
  BY <1>1
<1>3. kept(row) = kept(text)
  BY <1>1, <1>2
<1>4. \A i \in kept(text) : row[i] = text[i]
  BY <1>1, <1>2
<1>5. Words(row) = {<<Cardinality({j \in kept(row) : j <= i}), row[i]>> : i \in kept(row)}
      /\ Words(text) = {<<Cardinality({j \in kept(text) : j <= i}), text[i]>> : i \in kept(text)}
  BY DEF Words
<1> HIDE DEF kept
<1> QED BY <1>3, <1>4, <1>5

\* With a response tensor as wide as ppo_trainer.yaml:398-399 asks for, the
\* reward reads every unforced tape to its last token, and no token that is
\* trained on is left out of the attention mask.
THEOREM WholeTapeIsGraded == TensorSpec => []GradesTheWholeTape
<1>1. IInv /\ TapeInv => GradesTheWholeTape
  <2> SUFFICES ASSUME IInv, TapeInv, Assembled, WidthIsAsDocumented,
                      NEW r \in Rollouts, ~st[r].forced
               PROVE  /\ Graded(r) = Words(tape[r].text)
                      /\ \A i \in DOMAIN out.response[r] :
                           out.document[r][i] = 1 => out.attention[r][i] = 1
    BY DEF GradesTheWholeTape
  <2> DEFINE text == tape[r].text
             row  == out.response[r]
             doc  == out.document[r]
             mask == Cut(tape[r].mask)
             seen == ResponseMask(row)
  <2>1. out = Tensors /\ phase = "done"
    BY DEF TapeInv
  <2>2. Cut(tape[r].text) = text
    BY <2>1, TapeFits
  <2>3. /\ row \in Seq(Token) /\ Len(text) <= Len(row)
        /\ \A i \in 1..Len(row) : /\ row[i] = IF i <= Len(text) THEN text[i] ELSE "pad"
                                  /\ doc[i] = IF i <= Len(text) THEN mask[i] ELSE 0
        /\ out.attention[r] = seen
    BY <2>1, <2>2, RowFacts
  <2>4. text \in Seq(Written) /\ EndedLast(text)
    BY DEF TapeInv, IsTape
  <2>5. text \in Seq(Token) /\ Len(text) \in Nat /\ Len(row) \in Nat
    BY <2>3, <2>4, SeqMonotonic DEF Written, Token
  <2> HIDE DEF text, row, doc, mask
  <2>6. PICK v \in Len(text)..Len(row) :
          {i \in DOMAIN seen : seen[i] = 1} = 1..v
    BY <2>3, <2>4, AttendsTheTape
  <2>7. v \in Nat /\ Len(text) <= v /\ v <= Len(row)
    BY <2>5, <2>6
  <2>8. ValidLen(r) = v
    <3>1. ValidLen(r) = Cardinality(1..v)
      BY <2>3, <2>6 DEF ValidLen
    <3>2. Cardinality(1..v) = v
      BY <2>7, FS_Interval
    <3> QED BY <3>1, <3>2
  <2>9. Graded(r) = Words(text)
    <3> DEFINE head == SubSeq(row, 1, v)
    <3>1. \A i \in 1..v : row[i] \in Token
      BY <2>3, <2>7
    <3>2. head \in Seq(Token) /\ Len(head) = v /\ \A i \in 1..v : head[i] = row[i]
      BY <2>7, <3>1, SubSeqProperties
    <3>3. Graded(r) = Words(head)
      BY <2>8 DEF Graded, row
    <3> HIDE DEF head
    <3>4. \A i \in 1..Len(head) : head[i] = IF i <= Len(text) THEN text[i] ELSE "pad"
      BY <2>3, <2>7, <3>2
    <3>5. Words(head) = Words(text)
      BY <2>5, <2>7, <3>2, <3>4, PaddingIsNotDecoded
    <3> QED BY <3>3, <3>5
  <2>10. ASSUME NEW i \in DOMAIN row, doc[i] = 1 PROVE seen[i] = 1
    <3>1. i \in 1..Len(row)
      BY <2>3
    <3>2. i <= Len(text)
      BY <2>3, <2>10, <3>1
    <3>3. i \in 1..v
      BY <2>5, <2>7, <3>1, <3>2
    <3> QED BY <2>6, <3>3
  <2> QED BY <2>3, <2>9, <2>10 DEF text, row, doc
<1> QED BY <1>1, TensorInductive, PTL

-----------------------------------------------------------------------------
(***************************************************************************)
(* The tag walks, which decide what a forced answer opens on and what the  *)
(* reward accepts: TurnRulesProofs' theorems, for both grammars at once.   *)
(***************************************************************************)
OutsideProofs == INSTANCE TurnRulesProofs WITH Nested <- FALSE
InlineProofs  == INSTANCE TurnRulesProofs WITH Nested <- TRUE

\* The assumptions on the constants speak of tags, and both grammars have the same.
LEMMA SameTags ==
  /\ OutsideProofs!Tag = Tag /\ OutsideProofs!StopTag = StopTag
  /\ InlineProofs!Tag = Tag /\ InlineProofs!StopTag = StopTag
  /\ Outside!Tag = Tag
BY DEF Tag, Loose, StopTag, Outside!Tag, Outside!Loose,
       OutsideProofs!Tag, OutsideProofs!Loose, OutsideProofs!StopTag,
       InlineProofs!Tag, InlineProofs!Loose, InlineProofs!StopTag

LEMMA SameAssumptions ==
  /\ OutsideProofs!RulesAssumption /\ OutsideProofs!AnswersAssumption
  /\ InlineProofs!RulesAssumption /\ InlineProofs!AnswersAssumption
<1>1. RulesAssumption /\ AnswersAssumption
  BY RulesAssumption, AnswersAssumption
<1> QED BY <1>1, SameTags, Zenon
        DEF RulesAssumption, OutsideProofs!RulesAssumption, InlineProofs!RulesAssumption,
            AnswersAssumption, OutsideProofs!AnswersAssumption, InlineProofs!AnswersAssumption

\* Requests outside the think block.  The definitions MCTagWalk compares are those
\* of the theorems, under the name of another instance.
LEMMA OutsideWalks ==
  ASSUME NEW s \in Seq(Tag)
  PROVE  /\ Outside!ValidatorIsGrammar(s) /\ Outside!ScaffoldIsGrammar(s)
         /\ Outside!LandsInValidator(s) /\ Outside!IsLeftAlone(s)
<1>1. /\ OutsideProofs!ValidatorIsGrammar(s) /\ OutsideProofs!ScaffoldIsGrammar(s)
      /\ OutsideProofs!LandsInValidator(s) /\ OutsideProofs!IsLeftAlone(s)
  <2>1. s \in Seq(OutsideProofs!Tag) /\ OutsideProofs!NestedAssumption
    BY SameTags, Zenon DEF OutsideProofs!NestedAssumption
  <2> QED BY <2>1, SameAssumptions, Zenon,
             OutsideProofs!WalksGoOverTheGrammar, OutsideProofs!ScaffoldsLand
<1> QED
  BY <1>1, Zenon DEF
      Outside!ValidatorIsGrammar, OutsideProofs!ValidatorIsGrammar,
      Outside!ScaffoldIsGrammar, OutsideProofs!ScaffoldIsGrammar,
      Outside!LandsInValidator, OutsideProofs!LandsInValidator,
      Outside!IsLeftAlone, OutsideProofs!IsLeftAlone, Outside!Malformed,
      OutsideProofs!Malformed, Outside!FlatMalformed,
      OutsideProofs!FlatMalformed, Outside!NestedMalformed,
      OutsideProofs!NestedMalformed, Outside!Scaffold, OutsideProofs!Scaffold,
      Outside!FlatScaffold, OutsideProofs!FlatScaffold, Outside!NestedScaffold,
      OutsideProofs!NestedScaffold, Outside!Terminal, OutsideProofs!Terminal,
      Outside!NoScaffold, OutsideProofs!NoScaffold, Outside!Matched,
      OutsideProofs!Matched, Outside!FlatCycle, OutsideProofs!FlatCycle,
      Outside!NestedCycle, OutsideProofs!NestedCycle,
      Outside!LongestCommonPrefix, OutsideProofs!LongestCommonPrefix,
      Outside!CommonPrefixes, OutsideProofs!CommonPrefixes, Outside!Prefixes,
      OutsideProofs!Prefixes, Outside!IsPrefix, OutsideProofs!IsPrefix,
      Outside!WellFormed, OutsideProofs!WellFormed, Outside!Rescuable,
      OutsideProofs!Rescuable, Outside!AnswerScaffold,
      OutsideProofs!AnswerScaffold, Outside!CutAt, OutsideProofs!CutAt,
      Outside!Rescue, OutsideProofs!Rescue, Outside!Tight, OutsideProofs!Tight,
      Outside!Loose, OutsideProofs!Loose, Outside!Exchanges,
      OutsideProofs!Exchanges, Outside!After, OutsideProofs!After,
      Outside!Ending, OutsideProofs!Ending, Outside!Exchange,
      OutsideProofs!Exchange, Outside!Ask, OutsideProofs!Ask, Outside!Reply,
      OutsideProofs!Reply

\* Requests inside it.
LEMMA InlineWalks ==
  ASSUME NEW s \in Seq(Tag)
  PROVE  /\ Inline!ValidatorIsGrammar(s) /\ Inline!ScaffoldIsGrammar(s)
         /\ Inline!LandsInValidator(s) /\ Inline!IsLeftAlone(s)
<1>1. /\ InlineProofs!ValidatorIsGrammar(s) /\ InlineProofs!ScaffoldIsGrammar(s)
      /\ InlineProofs!LandsInValidator(s) /\ InlineProofs!IsLeftAlone(s)
  <2>1. s \in Seq(InlineProofs!Tag) /\ InlineProofs!NestedAssumption
    BY SameTags, Zenon DEF InlineProofs!NestedAssumption
  <2> QED BY <2>1, SameAssumptions, Zenon,
             InlineProofs!WalksGoOverTheGrammar, InlineProofs!ScaffoldsLand
<1> QED
  BY <1>1, Zenon DEF
      Inline!ValidatorIsGrammar, InlineProofs!ValidatorIsGrammar,
      Inline!ScaffoldIsGrammar, InlineProofs!ScaffoldIsGrammar,
      Inline!LandsInValidator, InlineProofs!LandsInValidator,
      Inline!IsLeftAlone, InlineProofs!IsLeftAlone, Inline!Malformed,
      InlineProofs!Malformed, Inline!FlatMalformed, InlineProofs!FlatMalformed,
      Inline!NestedMalformed, InlineProofs!NestedMalformed, Inline!Scaffold,
      InlineProofs!Scaffold, Inline!FlatScaffold, InlineProofs!FlatScaffold,
      Inline!NestedScaffold, InlineProofs!NestedScaffold, Inline!Terminal,
      InlineProofs!Terminal, Inline!NoScaffold, InlineProofs!NoScaffold,
      Inline!Matched, InlineProofs!Matched, Inline!FlatCycle,
      InlineProofs!FlatCycle, Inline!NestedCycle, InlineProofs!NestedCycle,
      Inline!LongestCommonPrefix, InlineProofs!LongestCommonPrefix,
      Inline!CommonPrefixes, InlineProofs!CommonPrefixes, Inline!Prefixes,
      InlineProofs!Prefixes, Inline!IsPrefix, InlineProofs!IsPrefix,
      Inline!WellFormed, InlineProofs!WellFormed, Inline!Rescuable,
      InlineProofs!Rescuable, Inline!AnswerScaffold,
      InlineProofs!AnswerScaffold, Inline!CutAt, InlineProofs!CutAt,
      Inline!Rescue, InlineProofs!Rescue, Inline!Tight, InlineProofs!Tight,
      Inline!Loose, InlineProofs!Loose, Inline!Exchanges,
      InlineProofs!Exchanges, Inline!After, InlineProofs!After, Inline!Ending,
      InlineProofs!Ending, Inline!Exchange, InlineProofs!Exchange, Inline!Ask,
      InlineProofs!Ask, Inline!Reply, InlineProofs!Reply

\* The single-turn scaffold, with requests outside the think block in the loop it is compared with.
LEMMA OutsideAgrees ==
  ASSUME NEW s \in Seq(Tag)
  PROVE  Outside!ScaffoldsAgreeOn(s)
<1>1. OutsideProofs!ScaffoldsAgreeOn(s)
  <2>1. s \in Seq(OutsideProofs!Tag) /\ OutsideProofs!NestedAssumption
    BY SameTags, Zenon DEF OutsideProofs!NestedAssumption
  <2> QED BY <2>1, SameAssumptions, Zenon, OutsideProofs!TheScaffoldsAgree
<1> QED
  BY <1>1, Zenon DEF
      Outside!ScaffoldsAgreeOn, OutsideProofs!ScaffoldsAgreeOn,
      Outside!PlainScaffold, OutsideProofs!PlainScaffold, Outside!PlainTags,
      OutsideProofs!PlainTags, Outside!PlainTag, OutsideProofs!PlainTag,
      Outside!HintTag, OutsideProofs!HintTag, Outside!ToSet,
      OutsideProofs!ToSet, Outside!Scaffold, OutsideProofs!Scaffold,
      Outside!FlatScaffold, OutsideProofs!FlatScaffold, Outside!NestedScaffold,
      OutsideProofs!NestedScaffold, Outside!Terminal, OutsideProofs!Terminal,
      Outside!NoScaffold, OutsideProofs!NoScaffold, Outside!Matched,
      OutsideProofs!Matched, Outside!FlatCycle, OutsideProofs!FlatCycle,
      Outside!NestedCycle, OutsideProofs!NestedCycle,
      Outside!LongestCommonPrefix, OutsideProofs!LongestCommonPrefix,
      Outside!CommonPrefixes, OutsideProofs!CommonPrefixes, Outside!Prefixes,
      OutsideProofs!Prefixes, Outside!IsPrefix, OutsideProofs!IsPrefix,
      Outside!Tight, OutsideProofs!Tight, Outside!Loose, OutsideProofs!Loose

\* The single-turn scaffold, with requests inside it in the loop it is compared with.
LEMMA InlineAgrees ==
  ASSUME NEW s \in Seq(Tag)
  PROVE  Inline!ScaffoldsAgreeOn(s)
<1>1. InlineProofs!ScaffoldsAgreeOn(s)
  <2>1. s \in Seq(InlineProofs!Tag) /\ InlineProofs!NestedAssumption
    BY SameTags, Zenon DEF InlineProofs!NestedAssumption
  <2> QED BY <2>1, SameAssumptions, Zenon, InlineProofs!TheScaffoldsAgree
<1> QED
  BY <1>1, Zenon DEF
      Inline!ScaffoldsAgreeOn, InlineProofs!ScaffoldsAgreeOn,
      Inline!PlainScaffold, InlineProofs!PlainScaffold, Inline!PlainTags,
      InlineProofs!PlainTags, Inline!PlainTag, InlineProofs!PlainTag,
      Inline!HintTag, InlineProofs!HintTag, Inline!ToSet, InlineProofs!ToSet,
      Inline!Scaffold, InlineProofs!Scaffold, Inline!FlatScaffold,
      InlineProofs!FlatScaffold, Inline!NestedScaffold,
      InlineProofs!NestedScaffold, Inline!Terminal, InlineProofs!Terminal,
      Inline!NoScaffold, InlineProofs!NoScaffold, Inline!Matched,
      InlineProofs!Matched, Inline!FlatCycle, InlineProofs!FlatCycle,
      Inline!NestedCycle, InlineProofs!NestedCycle, Inline!LongestCommonPrefix,
      InlineProofs!LongestCommonPrefix, Inline!CommonPrefixes,
      InlineProofs!CommonPrefixes, Inline!Prefixes, InlineProofs!Prefixes,
      Inline!IsPrefix, InlineProofs!IsPrefix, Inline!Tight, InlineProofs!Tight,
      Inline!Loose, InlineProofs!Loose

\* All that is used of the growing response is that it holds tags.
HoldsTags == response \in Seq(Tag)

LEMMA ResponseHoldsTags ==
  WalkSpec => []HoldsTags
<1>1. WalkInit => HoldsTags
  BY DEF WalkInit, HoldsTags
<1>2. HoldsTags /\ [WalkNext]_<<response, dead>> => HoldsTags'
  <2> SUFFICES ASSUME HoldsTags, [WalkNext]_<<response, dead>> PROVE HoldsTags'
    OBVIOUS
  <2>1. CASE WalkNext
    <3>1. PICK t \in Tag : response' = Append(response, t)
      BY <2>1, SameTags DEF WalkNext, Extend
    <3> QED BY <3>1 DEF HoldsTags
  <2>2. CASE UNCHANGED <<response, dead>>
    BY <2>2 DEF HoldsTags
  <2> QED BY <2>1, <2>2
<1> QED BY <1>1, <1>2, PTL DEF WalkSpec

\* On a response of any length, requests outside the think block or inside it:
\* the validator's walk accepts what the grammar generates, and the scaffold's
\* walk rescues the cuts of that grammar with the tags listed for them.
THEOREM WalksAreTheGrammar ==
  WalkSpec => []WalksMatchGrammar
<1>1. HoldsTags => WalksMatchGrammar
  BY OutsideWalks, InlineWalks, Zenon DEF HoldsTags, WalksMatchGrammar
<1> QED BY <1>1, ResponseHoldsTags, PTL

\* Whatever the scaffold's walk opens an answer on, the validator's walk accepts
\* once the answer is closed; what it accepts already, no scaffold reopens.
THEOREM WalksLandWhereTheyShould ==
  WalkSpec => []ScaffoldLandsInValidator
<1>1. HoldsTags => ScaffoldLandsInValidator
  BY OutsideWalks, InlineWalks, Zenon DEF HoldsTags, ScaffoldLandsInValidator
<1> QED BY <1>1, ResponseHoldsTags, PTL

\* On a response without hint tags and without <abstain>, the single-turn
\* generator appends what the loop's scaffold would, in either grammar.
THEOREM TheGeneratorsAgree ==
  WalkSpec => []ScaffoldsAgree
<1>1. HoldsTags => ScaffoldsAgree
  BY OutsideAgrees, InlineAgrees, Zenon DEF HoldsTags, ScaffoldsAgree
<1> QED BY <1>1, ResponseHoldsTags, PTL
=============================================================================
