--------------------------- MODULE MCRoundsDriver ---------------------------
(***************************************************************************)
(* Constants for checking the round driver on two rollouts.                *)
(***************************************************************************)
EXTENDS RoundsDriver

MCTexts == {<<>>, Ask, <<"</think>", "<answer>", "</answer>">>, <<"</think>">>}
MCAnswerTexts == {<<>>, <<"</answer>">>, <<"<request>", "</request>">>, <<"<think>", "</answer>">>}

Symmetry == Permutations(Rollouts)
=============================================================================
