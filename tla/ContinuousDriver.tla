-------------------------- MODULE ContinuousDriver --------------------------
(***************************************************************************)
(* run_continuous, and the engine adapter below it.  No barrier: a rollout *)
(* is submitted again the moment its hint is in, while the engine is still *)
(* generating for the others and finishes them in any order.               *)
(*                                                                         *)
(* The engine itself is external: each step finishes some of the requests  *)
(* it holds, and it may drop one without ever finishing it.                *)
(***************************************************************************)
EXTENDS TurnRules, FiniteSets

CONSTANTS
  NumRollouts,   \* rollouts of one batch, numbered in batch order
  PromptLens,    \* prompt lengths they start from
  HintCounts,    \* numbers of hints their puzzles have
  Lossy          \* TRUE: the engine may drop a request and never answer it

Rollouts == 1..NumRollouts

ASSUME ContinuousAssumption ==
  /\ NumRollouts \in Nat
  /\ PromptLens \subseteq Nat /\ HintCounts \subseteq Nat
  /\ Lossy \in BOOLEAN

VARIABLES
  st,            \* the rollouts' records
  phase,         \* "start", "loop", "submit", "finalize", "forcing" or "done"
  pending,       \* request id -> rollout
  nextId,        \* next_request_id
  again,         \* the rollout about to be submitted again, in phase "submit"
  engine,        \* requests the engine is working on
  arrived        \* finished requests of the last step, not yet taken

vars == <<st, phase, pending, nextId, again, engine, arrived>>

\* Mutant: every request is given the whole response budget.
SentWholeBudget(id, r) == [id |-> id, prompt |-> st[r].total, budget |-> MaxResponseLen]

Sent(id, r) == [id |-> id, prompt |-> st[r].total, budget |-> MaxResponseLen - st[r].resp]

Init ==
  /\ st \in [Rollouts -> {Fresh(p, h) : p \in PromptLens, h \in HintCounts}]
  /\ phase = "start"
  /\ pending = <<>>
  /\ nextId = 0
  /\ again = 0
  /\ engine = {}
  /\ arrived = <<>>

-----------------------------------------------------------------------------
MayGoOn(r) == ~st[r].completed /\ st[r].turns < MaxTurns

\* Who is submitted first, and under which id: in batch order.
Live == {r \in Rollouts : MayGoOn(r) /\ HasRoom(st[r])}
FirstId(r) == Cardinality({q \in Live : q < r})

\* The first submissions.  can_generate marks those it refuses.
SubmitAll ==
  /\ phase = "start"
  /\ pending' = [i \in 0..(Cardinality(Live) - 1) |-> CHOOSE r \in Live : FirstId(r) = i]
  /\ engine' = {Sent(FirstId(r), r) : r \in Live}
  /\ nextId' = Cardinality(Live)
  /\ st' = [r \in Rollouts |-> IF MayGoOn(r) /\ r \notin Live THEN CutShort(st[r])
                                                             ELSE st[r]]
  /\ phase' = "loop"
  /\ UNCHANGED <<again, arrived>>

\* Control is at the head of the loop.
AtLoopHead == phase = "loop" /\ arrived = <<>>

\* One engine step that finishes at least one request; the others are stutters.
EngineStep ==
  /\ AtLoopHead /\ DOMAIN pending # {}
  /\ \E order \in UNION {SetToSeqs(S) : S \in (SUBSET engine) \ {{}}} :
        /\ arrived' = order
        /\ engine' = engine \ ToSet(order)
  /\ UNCHANGED <<st, phase, pending, nextId, again>>

EngineDrop ==
  /\ Lossy /\ AtLoopHead
  /\ \E q \in engine : engine' = engine \ {q}
  /\ UNCHANGED <<st, phase, pending, nextId, again, arrived>>

\* Take the next finished request and ingest it.
TakeResult ==
  /\ phase = "loop" /\ arrived # <<>>
  /\ LET q == Head(arrived)
         r == pending[q.id]
     IN  \E g \in Generation :
           /\ Serves(q, g)
           /\ st' = [st EXCEPT ![r] = Ingest(st[r], g)]
           /\ IF st'[r].completed THEN phase' = "loop" /\ again' = 0
                                  ELSE phase' = "submit" /\ again' = r
           /\ pending' = [i \in DOMAIN pending \ {q.id} |-> pending[i]]
  /\ arrived' = Tail(arrived)
  /\ UNCHANGED <<nextId, engine>>

Put(id, r) == [i \in DOMAIN pending \cup {id} |-> IF i = id THEN r ELSE pending[i]]

\* Mutant: a rollout that has had all its hints is not submitted again.
ResubmitWithHintsLeft ==
  /\ phase = "submit"
  /\ IF MayGoOn(again) /\ HasRoom(st[again]) /\ st[again].numHints < MaxHints
     THEN /\ pending' = Put(nextId, again)
          /\ engine' = engine \cup {Sent(nextId, again)}
          /\ nextId' = nextId + 1
          /\ UNCHANGED st
     ELSE /\ st' = [st EXCEPT ![again] = IF MayGoOn(again) /\ ~HasRoom(st[again]) THEN CutShort(@) ELSE @]
          /\ UNCHANGED <<pending, engine, nextId>>
  /\ again' = 0
  /\ phase' = "loop"
  /\ UNCHANGED arrived

\* submit, for a rollout whose reply is in.
Resubmit ==
  /\ phase = "submit"
  /\ IF MayGoOn(again) /\ HasRoom(st[again])
     THEN /\ pending' = Put(nextId, again)
          /\ engine' = engine \cup {Sent(nextId, again)}
          /\ nextId' = nextId + 1
          /\ UNCHANGED st
     ELSE /\ st' = [st EXCEPT ![again] = IF MayGoOn(again) THEN CutShort(@) ELSE @]
          /\ UNCHANGED <<pending, engine, nextId>>
  /\ again' = 0
  /\ phase' = "loop"
  /\ UNCHANGED arrived

\* Mutant: the loop waits for every pending request.
LeaveLoopDrained ==
  /\ AtLoopHead /\ DOMAIN pending = {}
  /\ phase' = "finalize"
  /\ UNCHANGED <<st, pending, nextId, again, engine, arrived>>

\* Mutant: the loop is left on the first drop, with the engine still busy.
LeaveLoopOnDrop ==
  /\ AtLoopHead /\ Cardinality(DOMAIN pending) # Cardinality(engine)
  /\ phase' = "finalize"
  /\ UNCHANGED <<st, pending, nextId, again, engine, arrived>>

\* Nothing is pending, or something is but the engine is idle: it dropped it.
LeaveLoop ==
  /\ AtLoopHead /\ (DOMAIN pending = {} \/ engine = {})
  /\ phase' = "finalize"
  /\ UNCHANGED <<st, pending, nextId, again, engine, arrived>>

\* Mutant: rollouts still pending are left as they are.
FinalizeAnswered ==
  /\ phase = "finalize"
  /\ st' = [r \in Rollouts |-> IF \E i \in DOMAIN pending : pending[i] = r
                               THEN st[r] ELSE Finalize(st[r])]
  /\ phase' = "forcing"
  /\ UNCHANGED <<pending, nextId, again, engine, arrived>>

FinalizeUnfinished ==
  /\ phase = "finalize"
  /\ st' = [r \in Rollouts |-> Finalize(st[r])]
  /\ phase' = "forcing"
  /\ UNCHANGED <<pending, nextId, again, engine, arrived>>

ForceAnswers ==
  /\ phase = "forcing"
  /\ \E a \in [Rollouts -> Answer] :
        /\ \A r \in Rollouts : MaySample(st[r], a[r])
        /\ st' = [r \in Rollouts |-> Settled(st[r], a[r])]
  /\ phase' = "done"
  /\ UNCHANGED <<pending, nextId, again, engine, arrived>>

Driver == SubmitAll \/ TakeResult \/ Resubmit \/ LeaveLoop
          \/ FinalizeUnfinished \/ ForceAnswers

Next == Driver \/ EngineStep \/ EngineDrop

\* One driver thread, and an engine that goes on finishing what it still holds.
Fairness == WF_vars(Driver) /\ WF_vars(EngineStep)

Spec == Init /\ [][Next]_vars /\ Fairness

-----------------------------------------------------------------------------
InHand == engine \cup ToSet(arrived)

\* Rollouts whose request is neither at the engine nor among its results.
Lost == {pending[i] : i \in DOMAIN pending \ {q.id : q \in InHand}}

\* Types; every request in hand has the headroom below which "a generation is
\* not worth launching" and would be "an error in vLLM" (hint_loop.py:61-62).
TypeOK ==
  /\ st \in [Rollouts -> Rollout]
  /\ phase \in {"start", "loop", "submit", "finalize", "forcing", "done"}
  /\ nextId \in Nat
  /\ \A i \in DOMAIN pending : i \in 0..(nextId - 1) /\ pending[i] \in Rollouts
  /\ again \in Rollouts \cup {0}
  /\ InHand \subseteq [id : Nat, prompt : 0..(MaxModelLen - MinBuffer),
                       budget : MinBuffer..MaxResponseLen]

\* Every request in hand was made from its rollout's present tape and budget,
\* so the generation it returns extends the tape it was sampled from.
UpToDate(q) ==
  /\ q.id \in DOMAIN pending
  /\ q.prompt = st[pending[q.id]].total
  /\ q.budget = MaxResponseLen - st[pending[q.id]].resp

\* A rollout has at most one request out, and ids are never used twice.
OneRequestEach ==
  /\ \A i, j \in DOMAIN pending : pending[i] = pending[j] => i = j
  /\ \A p, q \in InHand : p.id = q.id => p = q
  /\ IsInjective(arrived) /\ engine \cap ToSet(arrived) = {}

\* Results arrive in any order and while other rollouts move on; still what is
\* in hand is one request for each rollout waited for, and it is not stale.
InFlightFresh == OneRequestEach /\ \A q \in InHand : UpToDate(q)

\* "Every rollout that still has work is in the running batch"
\* (hint_loop.py:367-368): at the loop's head no rollout waits for another.
KeepsEngineFull ==
  AtLoopHead =>
    {r \in Rollouts : MayGoOn(r)} \ Lost = {pending[q.id] : q \in engine}

\* Forcing blocks on every request the engine still holds
\* (vllm_rollout_spmd.py:127-128): the loop leaves it none.
ForcingFindsEngineIdle == phase \in {"finalize", "forcing", "done"} => InHand = {}

\* The driver implements the batch's promise.
Promise == INSTANCE HintRollout WITH
  phase <- IF phase \in {"forcing", "done"} THEN phase ELSE "turns",
  lost  <- Lost

ImplementsHintRollout == Promise!Spec

\* The loop never blocks: every batch comes to an end, dropped requests or not.
Terminates == <>(phase = "done")
=============================================================================
