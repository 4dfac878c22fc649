------------------------- MODULE MCContinuousDriver -------------------------
(***************************************************************************)
(* Constants for checking the continuous driver.                           *)
(***************************************************************************)
EXTENDS ContinuousDriver

MCTexts == {<<>>, Ask, <<"</think>", "<answer>", "</answer>">>}
MCAnswerTexts == {<<>>, <<"</answer>">>, <<"<request>", "</request>">>, <<"<think>", "</answer>">>}
=============================================================================
