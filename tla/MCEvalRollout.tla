--------------------------- MODULE MCEvalRollout ---------------------------
(***************************************************************************)
(* Constants for checking the evaluation loops, on a policy that writes    *)
(* tidy turns: reasoning, a request, an answer, an abstention, a closed    *)
(* block.                                                                  *)
(***************************************************************************)
EXTENDS EvalRollout

MCTexts == {<<>>, Ask, <<"</think>", "<answer>", "</answer>">>,
            <<"</think>", "<abstain>">>, <<"</think>">>}
MCAnswerTexts == {<<>>}
=============================================================================
