----------------------------- MODULE TagGrammar -----------------------------
(***************************************************************************)
(* The tag structure of a response, as the reward validators accept it and *)
(* as the rollout loop repairs it.                                         *)
(*                                                                         *)
(* A response is the sequence of its structural tags; the text between     *)
(* tags is left out, because neither the validators nor the scaffold look  *)
(* at it.  The one exception is a <request> that is not closed at once:    *)
(* both sides reject it before they parse anything, so it is a tag of its  *)
(* own here (Loose).                                                       *)
(*                                                                         *)
(* The assistant prefix has opened <think> before the response begins.     *)
(***************************************************************************)
EXTENDS Integers, Sequences

CONSTANT Nested        \* config.nested_request: requests stay inside <think>

ASSUME NestedAssumption == Nested \in BOOLEAN

Loose == "<request>.."   \* an opening request tag with anything after it

Tag == {"</think>", "<think>", "<request>", "</request>", "<response>",
        "</response>", "<answer>", "</answer>", "<abstain>", Loose}

-----------------------------------------------------------------------------
(***************************************************************************)
(* One hint exchange: what the policy writes to ask, and what the          *)
(* environment writes back.  Outside the block the policy closes <think>   *)
(* to ask and the reply reopens it; an inline request never leaves it.     *)
(***************************************************************************)
Ask   == IF Nested THEN <<"<request>", "</request>">>
                   ELSE <<"</think>", "<request>", "</request>">>
Reply == IF Nested THEN <<"<response>", "</response>">>
                   ELSE <<"<response>", "</response>", "<think>">>

Exchange == Ask \o Reply

Ending == {<<"</think>", "<answer>", "</answer>">>, <<"</think>", "<abstain>">>}

\* The first k * Len(Exchange) tags of s are k whole exchanges.
Exchanges(s, k) ==
  /\ k * Len(Exchange) <= Len(s)
  /\ \A i \in 1..(k * Len(Exchange)) :
        s[i] = Exchange[((i - 1) % Len(Exchange)) + 1]

After(s, k) == SubSeq(s, k * Len(Exchange) + 1, Len(s))

Tight(s) == \A i \in 1..Len(s) : s[i] # Loose

\* not has_malformed_structure(s): whole exchanges, then one ending, and
\* nothing behind it.
WellFormed(s) ==
  /\ Tight(s)
  /\ \E k \in 0..Len(s) : Exchanges(s, k) /\ After(s, k) \in Ending

\* An answer, once opened, holds no tag but the one that closes it.
PlainAnswer(s) ==
  \A i, j \in 1..Len(s) : i < j /\ s[i] = "<answer>" => s[j] = "</answer>"

-----------------------------------------------------------------------------
(***************************************************************************)
(* Where a response may be cut and still be given an answer, and the tags  *)
(* that are then appended to open one.                                     *)
(***************************************************************************)
Rescue == {
  [cut |-> <<>>,                       add |-> <<"</think>", "<answer>">>],
  [cut |-> <<"</think>">>,             add |-> <<"<answer>">>],
  [cut |-> <<"</think>", "<answer>">>, add |-> <<>>],
  [cut |-> Ask,                        add |-> Reply \o <<"</think>", "<answer>">>]}

CutAt(s, c) == \E k \in 0..Len(s) : Exchanges(s, k) /\ After(s, k) = c.cut

Rescuable(s) == Tight(s) /\ \E c \in Rescue : CutAt(s, c)

\* answer_scaffold(s), for a response that has one.
AnswerScaffold(s) == (CHOOSE c \in Rescue : CutAt(s, c)).add
=============================================================================
