----------------------------- MODULE TurnRules ------------------------------
(***************************************************************************)
(* The turn rules of the hint rollout: what one generation, one injected   *)
(* reply, the turn cap and a forced answer do to one rollout.  Every       *)
(* operator maps a rollout record to a rollout record; which rollout takes *)
(* its turn when is the drivers' business.                                 *)
(*                                                                         *)
(* A tape is kept as its length and its structural tags: the rules look at *)
(* nothing else.  Lengths are in tokens, or in any unit of them.           *)
(***************************************************************************)
EXTENDS TagGrammar, SequencesExt

CONSTANTS
  MaxHints,        \* config.max_hints
  MaxTurns,        \* config.max_turns
  MaxModelLen,     \* config.max_model_len, the context window
  MaxResponseLen,  \* config.max_response_len, the policy's own token budget
  AnswerBudget,    \* config.answer_budget, 0 switches forcing off
  MinBuffer,       \* MIN_GENERATION_BUFFER
  HintLen,         \* tokens of an injected hint, tags included
  RefusalLen,      \* tokens of NO_MORE_HINTS
  ScaffoldLen,     \* tokens of a nonempty answer scaffold
  ClosingLen,      \* tokens of </answer>
  Texts,           \* tag sequences a turn generation may consist of
  AnswerTexts      \* tag sequences a forced answer may consist of

\* A generation ends with its first stop string.
StopTag == {"</answer>", "</request>", "</response>", "<abstain>"}

ASSUME RulesAssumption ==
  /\ {MaxHints, MaxTurns, MaxModelLen, MaxResponseLen, AnswerBudget} \subseteq Nat
  /\ {MinBuffer, HintLen, RefusalLen, ScaffoldLen, ClosingLen} \subseteq Nat \ {0}
  /\ Texts \subseteq Seq(Tag)
  /\ \A t \in Texts : \A i \in 1..(Len(t) - 1) : t[i] \notin StopTag

\* A forced answer stops at </answer> and at nothing else: the policy may write
\* any other tag before it, or none.
ASSUME AnswersAssumption ==
  /\ <<>> \in AnswerTexts /\ AnswerTexts \subseteq Seq(Tag)
  /\ \A t \in AnswerTexts : \A i \in 1..(Len(t) - 1) : t[i] # "</answer>"

Rollout == [
  prompt          : Nat,        \* tokens of partials[0]
  hints           : Nat,        \* how many hints the puzzle has
  tags            : Seq(Tag),   \* structural tags of partials[1:]
  total           : Nat,        \* total_len()
  resp            : Nat,        \* response_len
  turns           : Nat,
  numHints        : Nat,
  given           : Nat,        \* last_given + 1
  malformed       : BOOLEAN,
  completed       : BOOLEAN,
  truncated       : BOOLEAN,
  forced          : BOOLEAN,
  thinkTruncated  : BOOLEAN,
  answerTruncated : BOOLEAN]

Fresh(p, h) == [
  prompt |-> p, hints |-> h, tags |-> <<>>, total |-> p, resp |-> 0, turns |-> 0,
  numHints |-> 0, given |-> 0, malformed |-> FALSE, completed |-> FALSE,
  truncated |-> FALSE, forced |-> FALSE, thinkTruncated |-> FALSE,
  answerTruncated |-> FALSE]

-----------------------------------------------------------------------------
Completed(s) == [s EXCEPT !.completed = TRUE]
CutShort(s)  == [s EXCEPT !.completed = TRUE, !.truncated = TRUE]

\* can_generate, without the marks it leaves on a rollout it refuses.
HasRoom(s) ==
  /\ s.total <= MaxModelLen - MinBuffer
  /\ MaxResponseLen - s.resp >= MinBuffer

\* What the engine may return for a turn: no more than the budget the driver
\* asks for, and never past the context window.
Generation == [tags : Texts, len : 1..MaxResponseLen]
Fits(s, g) ==
  /\ s.resp + g.len <= MaxResponseLen
  /\ s.total + g.len <= MaxModelLen

\* What a driver sends to the engine, and what the engine may answer it with:
\* it knows the prompt and the budget it was given, not the rollout.
Request(s) == [prompt |-> s.total, budget |-> MaxResponseLen - s.resp]
Serves(q, g) == g.len <= q.budget /\ q.prompt + g.len <= MaxModelLen

Extended(s, ts, n) == [s EXCEPT !.tags = @ \o ts, !.total = @ + n]

\* Mutant: the window is not looked at after an injection.
EnvironmentTurnUnchecked(s, ts, n) == Extended(s, ts, n)

\* Injected text is not charged to resp, only to the context window.
EnvironmentTurn(s, ts, n) ==
  LET t == Extended(s, ts, n)
  IN  IF t.total >= MaxModelLen \/ t.resp >= MaxResponseLen THEN CutShort(t) ELSE t

\* The next hint while there is one, the refusal text in its place after that.
InjectHint(s) ==
  EnvironmentTurn([s EXCEPT !.given = IF @ < s.hints THEN @ + 1 ELSE @], Reply, HintLen)

\* NO_MORE_HINTS reopens no <think>, whatever the grammar.
Refuse(s) == EnvironmentTurn(s, <<"<response>", "</response>">>, RefusalLen)

\* Mutant: the cap takes effect one request early.
AnswerRequestCapEarly(s) ==
  LET t == [s EXCEPT !.numHints = @ + 1]
  IN  IF t.numHints >= MaxHints THEN Refuse(t) ELSE InjectHint(t)

\* Mutant: only hints delivered are counted.
AnswerRequestDelivered(s) ==
  LET t == [s EXCEPT !.numHints = @ + 1]
  IN  IF t.numHints > MaxHints THEN Refuse(s)
      ELSE IF s.given = s.hints THEN InjectHint(s) ELSE InjectHint(t)

AnswerRequest(s) ==
  LET t == [s EXCEPT !.numHints = @ + 1]
  IN  IF t.numHints > MaxHints THEN Refuse(t) ELSE InjectHint(t)

\* Mutant: a malformed rollout is put with the truncated ones.
IngestMalformedCut(s, g) ==
  LET t == [Extended(s, g.tags, g.len) EXCEPT !.turns = @ + 1, !.resp = @ + g.len]
      malformed == \/ Contains(g.tags, "</response>")
                   \/ Contains(g.tags, "</request>") /\ ~Contains(g.tags, "<request>")
  IN  IF t.resp >= MaxResponseLen THEN CutShort(t)
      ELSE IF malformed THEN [CutShort(t) EXCEPT !.malformed = TRUE]
      ELSE IF Contains(g.tags, "</request>") THEN AnswerRequest(t)
      ELSE Completed(t)

\* Mutant: a text with neither request nor answer leaves the rollout open.
IngestLeavesOpen(s, g) ==
  LET t == [Extended(s, g.tags, g.len) EXCEPT !.turns = @ + 1, !.resp = @ + g.len]
      malformed == \/ Contains(g.tags, "</response>")
                   \/ Contains(g.tags, "</request>") /\ ~Contains(g.tags, "<request>")
  IN  IF t.resp >= MaxResponseLen THEN CutShort(t)
      ELSE IF malformed THEN [t EXCEPT !.malformed = TRUE, !.completed = TRUE]
      ELSE IF Contains(g.tags, "</request>") THEN AnswerRequest(t)
      ELSE IF Contains(g.tags, "</answer>") THEN Completed(t) ELSE t

\* ingest: the budget is looked at before the text is.  An answer and a text
\* that is neither request nor answer both just end the rollout.
Ingest(s, g) ==
  LET t == [Extended(s, g.tags, g.len) EXCEPT !.turns = @ + 1, !.resp = @ + g.len]
      malformed == \/ Contains(g.tags, "</response>")
                   \/ Contains(g.tags, "</request>") /\ ~Contains(g.tags, "<request>")
  IN  IF t.resp >= MaxResponseLen THEN CutShort(t)
      ELSE IF malformed THEN [t EXCEPT !.malformed = TRUE, !.completed = TRUE]
      ELSE IF Contains(g.tags, "</request>") THEN AnswerRequest(t)
      ELSE Completed(t)

\* finalize_unfinished
Finalize(s) == IF s.completed THEN s ELSE [s EXCEPT !.truncated = TRUE]

-----------------------------------------------------------------------------
(***************************************************************************)
(* Forced answers.                                                         *)
(***************************************************************************)
AddedLen(s) == IF AnswerScaffold(s.tags) = <<>> THEN 0 ELSE ScaffoldLen

CanForce(s) ==
  /\ AnswerBudget > 0
  /\ s.truncated /\ s.turns > 0
  /\ Rescuable(s.tags)
  /\ s.total + AddedLen(s) < MaxModelLen

Answer == {g \in [tags : AnswerTexts, len : 0..AnswerBudget] : g.len = 0 => g.tags = <<>>}
AnswerFits(s, g) == s.total + AddedLen(s) + g.len <= MaxModelLen

\* Mutant: the closing tag is appended whatever the answer ends with.
ForceAnswerClosesTwice(s, g) ==
  LET t == Extended(Extended(s, AnswerScaffold(s.tags), AddedLen(s)), g.tags, g.len)
  IN  [Extended(t, <<"</answer>">>, ClosingLen)
         EXCEPT !.forced = TRUE, !.answerTruncated = TRUE]

\* Scaffold, sampled answer, and the closing tag unless the answer brought it.
ForceAnswer(s, g) ==
  LET t == Extended(Extended(s, AnswerScaffold(s.tags), AddedLen(s)), g.tags, g.len)
      closed == IsSuffix(<<"</answer>">>, g.tags)
  IN  IF closed
      THEN [t EXCEPT !.forced = TRUE, !.thinkTruncated = TRUE]
      ELSE [Extended(t, <<"</answer>">>, ClosingLen)
              EXCEPT !.forced = TRUE, !.answerTruncated = TRUE]

Unforced(s) == IF s.truncated THEN [s EXCEPT !.answerTruncated = TRUE] ELSE s

\* Mutant: the sweep after forcing does not skip the rollouts just forced.
SettledSweepsAll(s, g) == Unforced(IF CanForce(s) THEN ForceAnswer(s, g) ELSE s)

\* force_answers, for one rollout; g is looked at only if it was sampled.
Settled(s, g) == IF CanForce(s) THEN ForceAnswer(s, g) ELSE Unforced(s)
MaySample(s, g) == CanForce(s) => AnswerFits(s, g)

-----------------------------------------------------------------------------
Min2(a, b) == IF a <= b THEN a ELSE b

\* The text injected into a rollout, as its request count tells it.
InjectedLen(s) == Min2(s.numHints, MaxHints) * HintLen
                  + (s.numHints - Min2(s.numHints, MaxHints)) * RefusalLen
=============================================================================
