--------------------------- MODULE MCHintRollout ----------------------------
(***************************************************************************)
(* Constants for checking the hint rollout.  Lengths are in units of 32    *)
(* tokens, so MIN_GENERATION_BUFFER is 2 units and every tag sequence fits *)
(* into one unit.                                                          *)
(***************************************************************************)
EXTENDS HintRollout

\* The texts a policy may stop on or be cut at, for either grammar: reasoning
\* only, a request, a request with content, an answer, an abstention, a closed
\* block, an open answer, an answer without its closing tag's block, and a
\* reply the policy made up.
FlatTexts == {
  <<>>,
  <<"</think>", "<request>", "</request>">>,
  <<"</think>", Loose, "</request>">>,
  <<"</think>", "<answer>", "</answer>">>,
  <<"</think>", "<abstain>">>,
  <<"</think>">>,
  <<"</think>", "<answer>">>,
  <<"<think>", "</think>", "<answer>", "</answer>">>,
  <<"<response>", "</response>">>}

NestedTexts == {
  <<>>,
  <<"<request>", "</request>">>,
  <<Loose, "</request>">>,
  <<"</think>", "<answer>", "</answer>">>,
  <<"</think>", "<abstain>">>,
  <<"</think>">>,
  <<"</think>", "<answer>">>,
  <<"</think>", "<request>", "</request>">>,
  <<"<response>", "</response>">>}

MCTexts == IF Nested THEN NestedTexts ELSE FlatTexts
\* What a forced answer may be: plain text, its closing tag, and tags that do
\* not stop it, with and without a closing tag behind them.
MCAnswerTexts == {
  <<>>,
  <<"</answer>">>,
  <<"<think>">>,
  <<"<answer>", "</answer>">>,
  <<"</think>", "<abstain>">>,
  <<"<request>", "</request>", "</answer>">>,
  <<"<response>", "</response>">>,
  <<Loose, "</answer>">>}

Symmetry == Permutations(Rollouts)
=============================================================================
