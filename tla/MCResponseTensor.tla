-------------------------- MODULE MCResponseTensor --------------------------
(***************************************************************************)
(* Constants for checking what becomes of the tapes.  Two rollouts, so     *)
(* that one row is padded to the length of another.                        *)
(***************************************************************************)
EXTENDS ResponseTensor

\* Reasoning only, a request, an answer, and an answer left open.
MCTexts == {
  <<>>,
  <<"</think>", "<request>", "</request>">>,
  <<"</think>", "<answer>", "</answer>">>,
  <<"</think>", "<answer>">>}
MCAnswerTexts == {<<>>, <<"</answer>">>, <<"<request>", "</request>">>, <<"<think>", "</answer>">>}

\* Width as documented for at most MaxTurns replies.
MCWidth == MaxResponseLen + AnswerBudget + MaxTurns * HintLen

Symmetry == Permutations(Rollouts)
=============================================================================
