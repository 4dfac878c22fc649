---------------------------- MODULE HintRollout -----------------------------
(***************************************************************************)
(* What a hint rollout batch promises, whoever schedules it.  Each rollout *)
(* plays the turn rules on its own: any set of rollouts that want a turn   *)
(* may take one, a rollout without room is cut short, the batch is closed  *)
(* when no rollout has a turn left, and truncated rollouts are then given  *)
(* a forced answer.                                                        *)
(*                                                                         *)
(* RoundsDriver and ContinuousDriver implement this specification.         *)
(***************************************************************************)
EXTENDS TurnRules, FiniteSets

CONSTANTS
  Rollouts,      \* the rollouts of one batch
  PromptLens,    \* prompt lengths they start from
  HintCounts,    \* numbers of hints their puzzles have
  Lossy          \* TRUE: the engine may drop a request and never answer it

ASSUME BatchAssumption ==
  /\ PromptLens \subseteq Nat
  /\ HintCounts \subseteq Nat
  /\ Lossy \in BOOLEAN

VARIABLES
  st,            \* the rollouts' records
  phase,         \* "turns", "forcing" or "done"
  lost           \* rollouts whose request the engine dropped

vars == <<st, phase, lost>>

-----------------------------------------------------------------------------
\* A rollout that may still be given a turn.
Open(r) == ~st[r].completed /\ st[r].turns < MaxTurns /\ r \notin lost

Init ==
  /\ st \in [Rollouts -> {Fresh(p, h) : p \in PromptLens, h \in HintCounts}]
  /\ phase = "turns"
  /\ lost = {}

\* The rollouts of S take one turn each.
TakeTurns(S) ==
  /\ phase = "turns" /\ S # {}
  /\ \A r \in S : Open(r) /\ HasRoom(st[r])
  /\ \E g \in [S -> Generation] :
        /\ \A r \in S : Fits(st[r], g[r])
        /\ st' = [r \in Rollouts |-> IF r \in S THEN Ingest(st[r], g[r]) ELSE st[r]]
  /\ UNCHANGED <<phase, lost>>

\* can_generate refuses the rollouts of S.
RunOut(S) ==
  /\ phase = "turns" /\ S # {}
  /\ \A r \in S : Open(r) /\ ~HasRoom(st[r])
  /\ st' = [r \in Rollouts |-> IF r \in S THEN CutShort(st[r]) ELSE st[r]]
  /\ UNCHANGED <<phase, lost>>

Lose(r) ==
  /\ Lossy /\ phase = "turns"
  /\ Open(r) /\ HasRoom(st[r])
  /\ lost' = lost \cup {r}
  /\ UNCHANGED <<st, phase>>

\* The batch is closed only when no rollout has a turn left to take.
Close ==
  /\ phase = "turns"
  /\ \A r \in Rollouts : ~Open(r)
  /\ st' = [r \in Rollouts |-> Finalize(st[r])]
  /\ phase' = "forcing"
  /\ UNCHANGED lost

ForceAnswers ==
  /\ phase = "forcing"
  /\ \E a \in [Rollouts -> Answer] :
        /\ \A r \in Rollouts : MaySample(st[r], a[r])
        /\ st' = [r \in Rollouts |-> Settled(st[r], a[r])]
  /\ phase' = "done"
  /\ UNCHANGED lost

Next ==
  \/ \E S \in SUBSET Rollouts : TakeTurns(S) \/ RunOut(S)
  \/ \E r \in Rollouts : Lose(r)
  \/ Close
  \/ ForceAnswers

Spec == Init /\ [][Next]_vars

-----------------------------------------------------------------------------
TypeOK ==
  /\ st \in [Rollouts -> Rollout]
  /\ phase \in {"turns", "forcing", "done"}
  /\ lost \in SUBSET Rollouts

\* The policy never samples past its own budget and never takes more turns
\* than the cap.  Only injected text carries a tape over the window: a reply,
\* which then ends the rollout, or the closing tag of a forced answer.
BudgetsRespected ==
  \A r \in Rollouts :
    /\ st[r].resp <= MaxResponseLen
    /\ st[r].turns <= MaxTurns
    /\ ~st[r].completed /\ ~st[r].forced /\ st[r].turns > 0 => st[r].total < MaxModelLen
    /\ st[r].forced =>
         st[r].total <= IF st[r].thinkTruncated THEN MaxModelLen ELSE MaxModelLen + ClosingLen

\* Hints are served in order, each once: how many were given follows from how
\* many were asked for, the cap, and how many the puzzle has.
HintsServedInOrder ==
  \A r \in Rollouts :
    st[r].given = Min2(Min2(st[r].numHints, MaxHints), st[r].hints)

\* The two truncation kinds (hint_loop.py:155-161): in the end exactly one of
\* them holds of a truncated rollout, and neither of any other.
TruncationKinds ==
  \A r \in Rollouts :
    /\ st[r].truncated /\ phase = "done" =>
          (st[r].thinkTruncated <=> ~st[r].answerTruncated)
    /\ st[r].thinkTruncated => st[r].forced
    /\ st[r].thinkTruncated \/ st[r].answerTruncated \/ st[r].forced =>
          st[r].truncated /\ phase = "done"

\* A forced completion lands in the validator (hint_loop.py:67-69) exactly when
\* the policy put no further tag into the answer: nothing the loop cuts at,
\* opens the answer with or closes it with is what has_malformed_structure
\* rejects, and nothing the loop does saves an answer with tags in it.
ForcedIsAccepted ==
  \A r \in Rollouts :
    st[r].forced => (WellFormed(st[r].tags) <=> PlainAnswer(st[r].tags))

\* A rollout rejected for what the policy itself wrote is never rescued.
MalformedStaysMalformed ==
  \A r \in Rollouts :
    st[r].malformed => ~st[r].truncated /\ ~WellFormed(st[r].tags)

\* What the reward reads off the tape agrees with what the loop counted
\* (get_num_hints against num_hints), for every accepted tape not forced.
Replies(s) == Cardinality({i \in 1..Len(s.tags) : s.tags[i] = "</response>"})
RewardSeesTheHints ==
  \A r \in Rollouts :
    ~st[r].forced /\ WellFormed(st[r].tags) => Replies(st[r]) = st[r].numHints

\* How wide the response tensor must be to carry a whole tape, so that
\* process_agentic_outputs cuts nothing off it: both budgets, the injected
\* text, and what forcing adds around the answer.
TapeBounded ==
  \A r \in Rollouts :
    st[r].total - st[r].prompt <=
      MaxResponseLen + AnswerBudget + InjectedLen(st[r]) + ScaffoldLen + ClosingLen

\* With an engine that answers every request, only the turn cap leaves a
\* rollout unfinished, and its last turn was spent on a request.
UnfinishedOnlyAtTurnCap ==
  \A r \in Rollouts :
    phase # "turns" /\ ~st[r].completed /\ r \notin lost =>
      /\ st[r].turns = MaxTurns /\ st[r].truncated
      /\ MaxTurns > 0 => st[r].numHints = MaxTurns
=============================================================================
