---------------------------- MODULE EvalRollout ----------------------------
(***************************************************************************)
(* The multi-turn loops of the pipeline's own generator, for one prompt:   *)
(* the token-spliced loop that evaluation uses, and the two text-based     *)
(* loops that force hints into the samples of an SFT dataset.  Prompts of  *)
(* a batch share nothing but, in the synchronous text loop, how many       *)
(* tokens a turn may take, which is any number here.                       *)
(*                                                                         *)
(* Beside the spliced loop runs the record that the training loop would    *)
(* keep of the same generations (train).                                   *)
(***************************************************************************)
EXTENDS TurnRules

CONSTANTS
  Loops,           \* loops to look at: "spliced", "async text", "sync text"
  PromptLens,      \* prompt lengths
  HintCounts,      \* numbers of hints a puzzle may have
  Forces,          \* numbers of hints that may be forced on a sample
  HintTransition,  \* config.hint_transition
  MarkupLen        \* tokens of the loop's own tags that the text loops charge

ASSUME EvalAssumption ==
  /\ Loops \subseteq {"spliced", "async text", "sync text"}
  /\ PromptLens \subseteq Nat /\ HintCounts \subseteq Nat /\ Forces \subseteq Nat
  /\ HintTransition \in BOOLEAN /\ MarkupLen \in Nat \ {0}

VARIABLES
  loop,            \* the loop that runs
  e,               \* what it keeps of the prompt
  train            \* ghost: the training loop's record of the same generations

vars == <<loop, e, train>>

Sample == [
  hints    : Nat,                            \* how many hints the puzzle has
  force    : Nat,                            \* force_hints of this prompt
  tags     : Seq(Tag),                       \* tags of accumulated_text
  tokens   : Nat,                            \* tokens charged to the model
  turns    : Nat,
  given    : Nat,                            \* last_given_index + 1
  numHints : Nat,
  closed   : Nat,                            \* ghost: texts the loop itself closed
  finish   : {"open", "stop", "length"}]     \* finish_reason, once completed

Init ==
  /\ loop \in Loops
  /\ \E h \in HintCounts, f \in IF loop = "spliced" THEN {0} ELSE Forces :
       e = [hints |-> h, force |-> f, tags |-> <<>>, tokens |-> 0, turns |-> 0,
            given |-> 0, numHints |-> 0, closed |-> 0, finish |-> "open"]
  /\ \E p \in IF loop = "spliced" THEN PromptLens ELSE {0} : train = Fresh(p, e.hints)

-----------------------------------------------------------------------------
(***************************************************************************)
(* One turn's generation.                                                  *)
(***************************************************************************)
Remaining(s) == MaxResponseLen - s.tokens

NeedsForcing(s) == s.numHints < s.force /\ s.given < s.hints

StopsAt(s) == {"</request>", IF NeedsForcing(s) THEN "</think>" ELSE "</answer>"}

FirstOf(ts, tags) == SelectInSeq(ts, LAMBDA t : t \in tags)

\* text up to the first of the stop strings.
Stopped(text, stops) ==
  IF FirstOf(text, stops) = 0 THEN text ELSE SubSeq(text, 1, FirstOf(text, stops))

\* The least number of tokens a turn can be cut at: all that remain, unless it
\* is to be forced, which caps it, or the synchronous text loop runs, where the
\* batch shares the smallest budget in it.
MayBeCut(s, n) == NeedsForcing(s) \/ loop = "sync text" \/ n = Remaining(s)

\* An end of sequence alone is a token, and to the text loops no text.
EvalTurn(s) ==
  {g \in [tags : {Stopped(t, StopsAt(s)) : t \in Texts}, len : 0..Remaining(s),
          reason : {"stop", "length"}] :
     /\ g.len = 0 => loop # "spliced" /\ g.tags = <<>> /\ g.reason = "stop"
     /\ g.reason = "length" => /\ MayBeCut(s, g.len)
                               /\ \A i \in DOMAIN g.tags : g.tags[i] \notin StopsAt(s)}

Taken(s, g) == [s EXCEPT !.tags = @ \o g.tags, !.tokens = @ + g.len, !.turns = @ + 1]

-----------------------------------------------------------------------------
(***************************************************************************)
(* What follows a generation.                                              *)
(***************************************************************************)
\* A text loop takes for the model's own whatever stands outside a <response>.
Markup == IF loop = "spliced" THEN 0 ELSE MarkupLen

\* Mutant: a request beyond the last hint is not counted.
ServeDelivered(s) ==
  LET n == IF s.given < s.hints THEN 1 ELSE 0
  IN  [s EXCEPT !.tags = @ \o Reply, !.tokens = @ + Markup,
                !.numHints = @ + n, !.given = @ + n]

\* Mutant: the index is not compared with the hints.
ServeUnchecked(s) ==
  [s EXCEPT !.tags = @ \o Reply, !.tokens = @ + Markup, !.numHints = @ + 1, !.given = @ + 1]

\* The next hint or, in the same tags, the news that there is none.
Serve(s) ==
  [s EXCEPT !.tags = @ \o Reply, !.tokens = @ + Markup, !.numHints = @ + 1,
            !.given = IF @ < s.hints THEN @ + 1 ELSE @]

\* An end of sequence without an answer closes the block, and the loop goes on.
Close(s) ==
  [s EXCEPT !.tags = Append(@, "</think>"), !.tokens = @ + Markup, !.closed = @ + 1]

\* Request, end of sequence, or a generation that was cut.
NoAnswer(s, g) ==
  IF Contains(g.tags, "</request>") THEN Serve(s)
  ELSE IF g.reason = "stop" THEN Close(s)
  ELSE [s EXCEPT !.finish = "length"]

\* The token-spliced loop.  An answer anywhere in the text ends it.
Spliced(s, g) ==
  LET t == Taken(s, g)
  IN  IF Contains(t.tags, "</answer>") THEN [t EXCEPT !.finish = "stop"]
                                       ELSE NoAnswer(t, g)

LastOf(ts, tag) == SelectLastInSeq(ts, LAMBDA t : t = tag)
UpTo(ts, tag) == IF LastOf(ts, tag) = 0 THEN ts ELSE SubSeq(ts, 1, LastOf(ts, tag) - 1)

\* Mutant: the turn is taken to begin with the sample.
TurnBeginSample(ts) == 0

\* The last tag of the committed transcript: all up to the last reply, and
\* outside the block the <think> that the reply reopened.
TurnBegin(ts) ==
  LET reply  == LastOf(ts, "</response>")
      reopen == FirstOf(SubSeq(ts, reply + 1, Len(ts)), {"<think>"})
  IN  IF Nested \/ reopen = 0 THEN reply ELSE reply + reopen

\* Mutant: the block the model closed is left closed.
ClosedForRequestTwice(ts) ==
  LET head == SubSeq(ts, 1, TurnBegin(ts))
      kept == UpTo(SubSeq(ts, TurnBegin(ts) + 1, Len(ts)), "<answer>")
  IN  {head \o kept \o IF Nested THEN <<>> ELSE <<"</think>">>}

\* _close_think_for_request, its possible results.  Reasoning that is trimmed
\* back to a sentence boundary may lose tags that stand behind it.
ClosedForRequest(ts) ==
  LET head  == SubSeq(ts, 1, TurnBegin(ts))
      tail  == SubSeq(ts, TurnBegin(ts) + 1, Len(ts))
      kept  == UpTo(UpTo(tail, "<answer>"), "</think>")
      trims == Nested \/ ~Contains(tail, "</think>") \/ ~HintTransition
  IN  {head \o k \o IF Nested THEN <<>> ELSE <<"</think>">> :
         k \in IF trims THEN Prefixes(kept) ELSE {kept}}

\* A forced request and its hint in place of how the turn ended.  How many of
\* the tokens are left depends on the text that was cut.
ForcedAfter(s, ts, n) ==
  [s EXCEPT !.tags = ts \o <<"<request>", "</request>">> \o Reply,
            !.tokens = n + Markup, !.given = @ + 1, !.numHints = @ + 1]

Forced(s) == {ForcedAfter(s, ts, n) : ts \in ClosedForRequest(s.tags), n \in 0..s.tokens}

\* Mutant: a turn cut by its cap is not given its forced hint.
ForcesHereUncut(s, g) ==
  NeedsForcing(s) /\ (\/ Contains(s.tags, "</answer>")
                      \/ Contains(g.tags, "</think>") /\ ~Contains(g.tags, "</request>"))

ForcesHere(s, g) ==
  NeedsForcing(s) /\ (\/ Contains(s.tags, "</answer>")
                      \/ Contains(g.tags, "</think>") /\ ~Contains(g.tags, "</request>")
                      \/ g.reason = "length")

\* The asynchronous text loop.
AsyncText(s, g) ==
  LET t == Taken(s, g)
  IN  IF ForcesHere(t, g) THEN Forced(t) ELSE {Spliced(s, g)}

\* The synchronous one cuts before it closes: an answer at its opening tag; a
\* capped turn at the last sentence boundary of the whole text.
SyncText(s, g) ==
  LET t    == Taken(s, g)
      cuts == IF Contains(t.tags, "</answer>") THEN {UpTo(t.tags, "<answer>")}
              ELSE IF Contains(g.tags, "</think>") THEN {t.tags}
              ELSE {Append(p, "</think>") : p \in Prefixes(t.tags)}
  IN  IF ForcesHere(t, g)
      THEN UNION {Forced([t EXCEPT !.tags = c]) : c \in cuts}
      ELSE {Spliced(s, g)}

-----------------------------------------------------------------------------
Open(s) == s.finish = "open"
Goes(s) == Open(s) /\ s.tokens < MaxResponseLen

\* Mutant: the budget may be exceeded by one token before it is noticed.
OutOfBudgetLate ==
  /\ Open(e) /\ e.tokens > MaxResponseLen
  /\ e' = [e EXCEPT !.finish = "length"]
  /\ UNCHANGED <<loop, train>>

OutOfBudget ==
  /\ Open(e) /\ e.tokens >= MaxResponseLen
  /\ e' = [e EXCEPT !.finish = "length"]
  /\ UNCHANGED <<loop, train>>

\* The training loop, on the same generation and for as long as it goes on.
TrainOn(g) ==
  train' = IF train.completed \/ train.turns = MaxTurns THEN train
           ELSE IF ~HasRoom(train) \/ ~Fits(train, g) THEN CutShort(train)
           ELSE Ingest(train, g)

SplicedTurn ==
  /\ loop = "spliced" /\ Goes(e)
  /\ \E g \in EvalTurn(e) : e' = Spliced(e, g) /\ TrainOn(g)
  /\ UNCHANGED loop

AsyncTurn ==
  /\ loop = "async text" /\ Goes(e)
  /\ \E g \in EvalTurn(e) : e' \in AsyncText(e, g)
  /\ UNCHANGED <<loop, train>>

SyncTurn ==
  /\ loop = "sync text" /\ Goes(e)
  /\ \E g \in EvalTurn(e) : e' \in SyncText(e, g)
  /\ UNCHANGED <<loop, train>>

Next == OutOfBudget \/ SplicedTurn \/ AsyncTurn \/ SyncTurn

\* The loop is never left waiting: every generation comes back.
Spec == Init /\ [][Next]_vars /\ WF_vars(Next)

-----------------------------------------------------------------------------
TypeOK ==
  /\ loop \in Loops
  /\ e \in Sample /\ e.given <= e.hints /\ e.given <= e.numHints
  /\ train \in Rollout

\* "Token-spliced multi-turn generation matching RL rollout behavior"
\* (generator.py:398): as long as the training loop neither refuses a hint nor
\* finds the turn malformed, is not at a limit of its own, and no text ended
\* without request or answer, both loops have the same tape, hints and budget,
\* and are done at the same turn.
Comparable(s) ==
  /\ s.turns = e.turns
  /\ ~s.truncated /\ ~s.malformed /\ s.numHints <= MaxHints /\ e.closed = 0

AgreesWithTraining ==
  loop = "spliced" /\ Comparable(train) =>
    /\ train.tags = e.tags /\ train.resp = e.tokens
    /\ train.numHints = e.numHints /\ train.given = e.given
    /\ train.completed <=> ~Open(e)

\* "Everything up to the last injected <response> is committed transcript:
\* rewriting into it would delete earlier hint exchanges" (generator.py:50-52).
Committed(s) == SubSeq(s.tags, 1, LastOf(s.tags, "</response>"))
TranscriptIsCommitted == [][IsPrefix(Committed(e), e'.tags)]_vars

\* The loops that cut only the turn being generated keep to it.
TurnsAreCutAlone == [][loop # "sync text" => IsPrefix(Committed(e), e'.tags)]_vars

\* From a policy that writes tidy turns, a sample that stops on an answer is one
\* has_malformed_structure accepts, forced hints and all, unless the loop closed
\* a text for it or, in the synchronous text loop, cut into the transcript.
StoppedIsWellFormed ==
  e.finish = "stop" /\ e.closed = 0 /\ loop # "sync text" => WellFormed(e.tags)

\* A sample reported as cut ("length") spent its own budget: neither the cap of
\* a forced turn nor that of another prompt ended it.  --retry-truncated throws
\* such a sample away.  The synchronous text loop shares one budget in a batch.
CutSpentItsBudget ==
  e.finish = "length" /\ loop # "sync text" => e.tokens >= MaxResponseLen

\* The loop's while True ends: the prompt's future is never waited for in vain.
Terminates == <>(e.finish # "open")
=============================================================================
