--------------------------- MODULE ResponseTensor ---------------------------
(***************************************************************************)
(* From tapes to training data.  A batch of rollouts plays the hint loop   *)
(* (HintRollout); beside each record its tape is kept token by token, with *)
(* the mask append() writes.  The worker then cuts the tapes to the        *)
(* tensor's width and pads them, derives an attention mask from the first  *)
(* end-of-sequence token, and the reward manager decodes what that mask    *)
(* leaves.                                                                 *)
(*                                                                         *)
(* HintRollout is extended with the tapes and the tensors; its variables   *)
(* change only by its own actions.  A token is kept as where it comes      *)
(* from.  Rollouts share nothing before the tensor, so they take their     *)
(* turns one at a time.                                                    *)
(***************************************************************************)
EXTENDS HintRollout, FiniteSetsExt

CONSTANTS
  Width,        \* config.response_length
  PadIsEos      \* TRUE: the padding token is one of meta_info's eos_token_id

ASSUME TensorAssumption == Width \in Nat \ {0} /\ PadIsEos \in BOOLEAN

VARIABLES
  tape,         \* partials and masks of each rollout
  out           \* the tensors the worker returns, one row a rollout

tensorVars == <<st, phase, lost, tape, out>>

Own   == {"sampled", "eos"}               \* what the policy wrote
Token == Own \cup {"injected", "pad"}

NoTensors == [response |-> <<>>, document |-> <<>>, attention |-> <<>>]

-----------------------------------------------------------------------------
(***************************************************************************)
(* The tape, behind the prompt.  Its segments are only ever read one after *)
(* the other, and are kept joined.                                         *)
(***************************************************************************)
Copies(n, t) == [i \in 1..n |-> t]

FreshTape == [text |-> <<>>, mask |-> <<>>]

\* RolloutState.append
AppendTo(t, tokens, trainable) == [
  text |-> t.text \o tokens,
  mask |-> t.mask \o Copies(Len(tokens), IF trainable THEN 1 ELSE 0)]

\* n sampled tokens; a generation the policy stopped itself ends with an
\* end-of-sequence token, one that ran into a stop string or its limit does not.
Sampled(n, stopped) ==
  IF stopped THEN Append(Copies(n - 1, "sampled"), "eos") ELSE Copies(n, "sampled")

\* What a step of the loop added to the record of r.
NewTags(r)     == SubSeq(st'[r].tags, Len(st[r].tags) + 1, Len(st'[r].tags))
TurnLen(r)     == st'[r].resp - st[r].resp
InjectedNow(r) == st'[r].total - st[r].total - TurnLen(r)
ClosingNow(r)  == IF st'[r].thinkTruncated THEN 0 ELSE ClosingLen
AnswerLen(r)   == st'[r].total - st[r].total - AddedLen(st[r]) - ClosingNow(r)

\* Only a turn that ended on no stop string can have ended on an eos token.
TurnMayStop(r) ==
  /\ InjectedNow(r) = 0
  /\ \A t \in StopTag : ~IsSuffix(<<t>>, NewTags(r))

AnswerMayStop(r) ==
  st'[r].forced /\ AnswerLen(r) > 0 /\ ~st'[r].thinkTruncated

\* ingest: what was sampled, then the environment's reply if there is one.
Turned(r, stopped) ==
  AppendTo(AppendTo(tape[r], Sampled(TurnLen(r), stopped), TRUE),
           Copies(InjectedNow(r), "injected"), FALSE)

\* Mutant: everything a forced answer adds is trained on.
ForcedTrained(r, stopped) ==
  LET opened   == AppendTo(tape[r], Copies(AddedLen(st[r]), "injected"), TRUE)
      answered == AppendTo(opened, Sampled(AnswerLen(r), stopped), TRUE)
  IN  AppendTo(answered, Copies(ClosingNow(r), "injected"), TRUE)

\* _force_answers: scaffold, sampled answer, closing tag.
Forced(r, stopped) ==
  LET opened   == AppendTo(tape[r], Copies(AddedLen(st[r]), "injected"), FALSE)
      answered == AppendTo(opened, Sampled(AnswerLen(r), stopped), TRUE)
  IN  AppendTo(answered, Copies(ClosingNow(r), "injected"), FALSE)

-----------------------------------------------------------------------------
(***************************************************************************)
(* The tensors.                                                            *)
(***************************************************************************)
Cut(s) == SubSeq(s, 1, Min2(Len(s), Width))

\* pad_2d_list_to_length, without a length of its own: to the longest row.
Padded(rows, pad) ==
  LET longest == Max({Len(rows[r]) : r \in Rollouts})
  IN  [r \in Rollouts |-> rows[r] \o Copies(longest - Len(rows[r]), pad)]

\* get_response_mask: everything up to the first end-of-sequence token of the
\* row, that one included.
EndsSequence(t) == t = "eos" \/ (PadIsEos /\ t = "pad")
ResponseMask(row) ==
  [i \in DOMAIN row |-> IF \E j \in 1..(i - 1) : EndsSequence(row[j]) THEN 0 ELSE 1]

Tensors ==
  LET response == Padded([r \in Rollouts |-> Cut(tape[r].text)], "pad")
  IN  [response  |-> response,
       document  |-> Padded([r \in Rollouts |-> Cut(tape[r].mask)], 0),
       attention |-> [r \in Rollouts |-> ResponseMask(response[r])]]

\* BatchRewardManager.verify: the row as far as it is attended, decoded with
\* skip_special_tokens.  The decoded text is the set of its tokens, each with
\* its place among those that are kept.
Words(s) ==
  LET kept == {i \in DOMAIN s : s[i] \notin {"eos", "pad"}}
  IN  {<<Cardinality({j \in kept : j <= i}), s[i]>> : i \in kept}
ValidLen(r) == Cardinality({i \in DOMAIN out.attention[r] : out.attention[r][i] = 1})
Graded(r) == Words(SubSeq(out.response[r], 1, ValidLen(r)))

-----------------------------------------------------------------------------
TensorInit ==
  /\ Init
  /\ tape = [r \in Rollouts |-> FreshTape]
  /\ out = NoTensors

Turn(r) ==
  /\ TakeTurns({r})
  /\ \E stopped \in BOOLEAN :
        /\ stopped => TurnMayStop(r)
        /\ tape' = [tape EXCEPT ![r] = Turned(r, stopped)]
  /\ UNCHANGED out

\* The steps of the loop that append nothing.
Schedule ==
  /\ (\E r \in Rollouts : RunOut({r}) \/ Lose(r)) \/ Close
  /\ UNCHANGED <<tape, out>>

ForceOnTapes ==
  /\ ForceAnswers
  /\ \E stopped \in SUBSET Rollouts :
        /\ \A r \in stopped : AnswerMayStop(r)
        /\ tape' = [r \in Rollouts |->
                      IF st'[r].forced THEN Forced(r, r \in stopped) ELSE tape[r]]
  /\ UNCHANGED out

\* process_agentic_outputs, and the masks agentic_generate_sequences adds.
Assemble ==
  /\ phase = "done" /\ out = NoTensors
  /\ out' = Tensors
  /\ UNCHANGED <<st, phase, lost, tape>>

TensorNext ==
  \/ \E r \in Rollouts : Turn(r)
  \/ Schedule
  \/ ForceOnTapes
  \/ Assemble

TensorSpec == TensorInit /\ [][TensorNext]_tensorVars

-----------------------------------------------------------------------------
Assembled == out # NoTensors

\* "The response tensor is trained on directly" (hint_loop.py:95-97), where
\* document_mask is 1 (compute_response_mask): on every token the policy
\* sampled, forced answers included, and on no hint, scaffold or padding.
TrainsOnWhatWasSampled ==
  Assembled => \A r \in Rollouts :
    /\ Len(out.document[r]) = Len(out.response[r])
    /\ \A i \in DOMAIN out.response[r] :
          out.document[r][i] = 1 <=> out.response[r][i] \in Own

\* ppo_trainer.yaml:398-399: "response_length must cover think_budget +
\* answer_budget + hint text".
WidthIsAsDocumented ==
  \A r \in Rollouts : MaxResponseLen + AnswerBudget + InjectedLen(st[r]) <= Width

\* When it does, the reward is computed from the whole of every tape that no
\* answer was forced onto, and no trained token is taken for padding.
GradesTheWholeTape ==
  Assembled /\ WidthIsAsDocumented => \A r \in Rollouts : ~st[r].forced =>
    /\ Graded(r) = Words(tape[r].text)
    /\ \A i \in DOMAIN out.response[r] :
          out.document[r][i] = 1 => out.attention[r][i] = 1

\* "A forced completion is only worth anything if it lands somewhere that
\* accepts" (hint_loop.py:67-69): the reward, too, must see its closing tag.
GradesForcedAnswers ==
  Assembled /\ WidthIsAsDocumented => \A r \in Rollouts :
    st[r].forced => Graded(r) = Words(tape[r].text)
=============================================================================
