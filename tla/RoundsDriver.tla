---------------------------- MODULE RoundsDriver ----------------------------
(***************************************************************************)
(* run_rounds: a barrier per turn.  Everyone who has room generates in one *)
(* batch, everyone waits for it, then the replies go in.                   *)
(***************************************************************************)
EXTENDS TurnRules, FiniteSets

CONSTANTS
  Rollouts,      \* the rollouts of one batch
  PromptLens,    \* prompt lengths they start from
  HintCounts     \* numbers of hints their puzzles have

ASSUME RoundsAssumption == PromptLens \subseteq Nat /\ HintCounts \subseteq Nat

VARIABLES
  st,            \* the rollouts' records
  phase,         \* where the worker is: "round", "batch", "finalize", "forcing", "done"
  round,         \* batches finished so far
  batch          \* the requests of the running batch, by rollout

vars == <<st, phase, round, batch>>

NoBatch == <<>>

Init ==
  /\ st \in [Rollouts -> {Fresh(p, h) : p \in PromptLens, h \in HintCounts}]
  /\ phase = "round"
  /\ round = 0
  /\ batch = NoBatch

\* can_generate is asked of every unfinished rollout, and marks those it refuses.
Live == {r \in Rollouts : ~st[r].completed /\ HasRoom(st[r])}

\* Mutant: rollouts without room are skipped and not marked.
StartRoundUnmarked ==
  /\ phase = "round" /\ round < MaxTurns
  /\ batch' = [r \in Live |-> Request(st[r])]
  /\ phase' = IF Live = {} THEN "finalize" ELSE "batch"
  /\ UNCHANGED <<st, round>>

\* Mutant: the loop is not left when nobody is live.
StartRoundNoBreak ==
  /\ phase = "round" /\ round < MaxTurns
  /\ st' = [r \in Rollouts |-> IF st[r].completed \/ HasRoom(st[r]) THEN st[r]
                                                                  ELSE CutShort(st[r])]
  /\ batch' = [r \in Live |-> Request(st[r])]
  /\ phase' = IF Live = {} THEN "round" ELSE "batch"
  /\ UNCHANGED round

StartRound ==
  /\ phase = "round" /\ round < MaxTurns
  /\ st' = [r \in Rollouts |-> IF st[r].completed \/ HasRoom(st[r]) THEN st[r]
                                                                  ELSE CutShort(st[r])]
  /\ batch' = [r \in Live |-> Request(st[r])]
  /\ phase' = IF Live = {} THEN "finalize" ELSE "batch"
  /\ UNCHANGED round

FinishBatch ==
  /\ phase = "batch"
  /\ \E g \in [DOMAIN batch -> Generation] :
        /\ \A r \in DOMAIN batch : Serves(batch[r], g[r])
        /\ st' = [r \in Rollouts |-> IF r \in DOMAIN batch THEN Ingest(st[r], g[r])
                                                           ELSE st[r]]
  /\ round' = round + 1
  /\ batch' = NoBatch
  /\ phase' = "round"

\* Mutant: only leaving the loop early finalizes.
CapReachedUnfinalized ==
  /\ phase = "round" /\ round = MaxTurns
  /\ phase' = "forcing"
  /\ UNCHANGED <<st, round, batch>>

CapReached ==
  /\ phase = "round" /\ round = MaxTurns
  /\ phase' = "finalize"
  /\ UNCHANGED <<st, round, batch>>

FinalizeUnfinished ==
  /\ phase = "finalize"
  /\ st' = [r \in Rollouts |-> Finalize(st[r])]
  /\ phase' = "forcing"
  /\ UNCHANGED <<round, batch>>

ForceAnswers ==
  /\ phase = "forcing"
  /\ \E a \in [Rollouts -> Answer] :
        /\ \A r \in Rollouts : MaySample(st[r], a[r])
        /\ st' = [r \in Rollouts |-> Settled(st[r], a[r])]
  /\ phase' = "done"
  /\ UNCHANGED <<round, batch>>

Next == StartRound \/ FinishBatch \/ CapReached \/ FinalizeUnfinished \/ ForceAnswers

\* One thread, and an engine that finishes every batch it is given.
Fairness == WF_vars(Next)

Spec == Init /\ [][Next]_vars /\ Fairness

-----------------------------------------------------------------------------
TypeOK ==
  /\ st \in [Rollouts -> Rollout]
  /\ phase \in {"round", "batch", "finalize", "forcing", "done"}
  /\ round \in 0..MaxTurns
  /\ DOMAIN batch \subseteq Rollouts
  /\ \A r \in DOMAIN batch : batch[r] = Request(st[r])

\* "Capped at max_turns, matching one generation per rollout per round"
\* (hint_loop.py:164-165): an unfinished rollout was in every batch the others
\* waited for, never left out and forgotten, and no finished one ran ahead.
Lockstep ==
  \A r \in Rollouts :
    /\ st[r].turns <= round
    /\ ~st[r].completed => st[r].turns = round

\* The driver implements the batch's promise, losing no rollout.
Promise == INSTANCE HintRollout WITH
  Lossy <- FALSE,
  phase <- IF phase \in {"forcing", "done"} THEN phase ELSE "turns",
  lost  <- {}

ImplementsHintRollout == Promise!Spec

\* Every batch comes to an end.
Terminates == <>(phase = "done")
=============================================================================
