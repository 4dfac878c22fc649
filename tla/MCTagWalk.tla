----------------------------- MODULE MCTagWalk ------------------------------
(***************************************************************************)
(* The tag walks compared, for requests outside the think block (Outside)  *)
(* and inside it (Inline).  The state is a response that grows one tag at  *)
(* a time, so the reachable states are the responses compared.             *)
(***************************************************************************)
EXTENDS Naturals, Sequences

CONSTANTS MaxTags,     \* bound: longest response compared
          MaxDead      \* bound: tags added once no answer can be opened any more

ASSUME WalkAssumption == MaxTags \in Nat /\ MaxDead \in Nat

VARIABLES response,    \* the structural tags of the response so far
          dead         \* how many tags came after the last rescuable prefix

Outside == INSTANCE TagWalk WITH Nested <- FALSE
Inline  == INSTANCE TagWalk WITH Nested <- TRUE

WalkInit == response = <<>> /\ dead = 0

Extend(t) ==
  /\ Len(response) < MaxTags
  /\ response' = Append(response, t)
  /\ dead' = IF Outside!Rescuable(response') \/ Inline!Rescuable(response') THEN 0 ELSE dead + 1
  /\ dead' <= MaxDead

WalkNext == \E t \in Outside!Tag : Extend(t)

WalkSpec == WalkInit /\ [][WalkNext]_<<response, dead>>

-----------------------------------------------------------------------------
\* has_malformed_structure and its nested twin accept exactly the sequences of
\* the grammar their docstrings give, and answer_scaffold, flat and nested,
\* rescues exactly the cuts of that grammar: the walks, kept in step by hand, go
\* over one language.
WalksMatchGrammar ==
  /\ Outside!ValidatorIsGrammar(response) /\ Inline!ValidatorIsGrammar(response)
  /\ Outside!ScaffoldIsGrammar(response) /\ Inline!ScaffoldIsGrammar(response)

\* "A forced completion is only worth anything if it lands somewhere that
\* accepts" (hint_loop.py:67-69): whatever answer_scaffold opens an answer on,
\* the validator of the same grammar accepts once the answer is closed; and a
\* response it accepts as it is, is never reopened.
ScaffoldLandsInValidator ==
  /\ Outside!LandsInValidator(response) /\ Inline!LandsInValidator(response)
  /\ Outside!IsLeftAlone(response) /\ Inline!IsLeftAlone(response)

\* generator.py:133-134: the two scaffolds "must agree on what a rescuable
\* truncation looks like".  They do on responses without hint tags, which the
\* single-turn prompts do not have, and without <abstain>, which only the
\* rollout loop's walk sees.
ScaffoldsAgree ==
  Outside!ScaffoldsAgreeOn(response) /\ Inline!ScaffoldsAgreeOn(response)
=============================================================================
