---------------------------- MODULE MCHintWriter ----------------------------
(***************************************************************************)
(* The hint writer on a few problems.                                      *)
(***************************************************************************)
EXTENDS HintWriter
=============================================================================
