------------------------------ MODULE TagWalk -------------------------------
(***************************************************************************)
(* The tag walks as the code writes them, one index moving right over the  *)
(* tags, next to the grammar of TagGrammar that says what they compute.    *)
(* MCTagWalk compares them on every response within its bounds.            *)
(***************************************************************************)
EXTENDS TagGrammar, SequencesExt

NoScaffold == <<"None">>
FlatCycle == <<"<request>", "</request>", "<response>", "</response>", "<think>">>
NestedCycle == <<"<request>", "</request>", "<response>", "</response>">>

\* The walks' inner loop: how many tags of cycle follow in s from position i.
Matched(s, i, cycle) ==
  Len(LongestCommonPrefix({SubSeq(s, i, Len(s)), cycle}))

\* has_malformed_structure
FlatMalformed(s) ==
  LET n == Len(s)
      bad[i \in 1..(n + 6)] ==
        IF i + 1 > n \/ s[i] # "</think>" THEN TRUE
        ELSE IF s[i + 1] = "<request>"
             THEN IF Matched(s, i + 1, FlatCycle) < 5 THEN TRUE ELSE bad[i + 6]
        ELSE IF s[i + 1] = "<answer>"
             THEN i + 2 > n \/ s[i + 2] # "</answer>" \/ i + 2 # n
        ELSE s[i + 1] # "<abstain>" \/ i + 1 # n
  IN  ~Tight(s) \/ bad[1]

\* Mutant: the walk goes on after an exchange cut before its reply.
NestedMalformedUnanswered(s) ==
  LET n == Len(s)
      bad[i \in 1..(n + 5)] ==
        IF i <= n /\ s[i] = "<request>"
        THEN IF Matched(s, i, NestedCycle) < 2 THEN TRUE
             ELSE bad[i + Matched(s, i, NestedCycle)]
        ELSE IF i + 1 > n \/ s[i] # "</think>" THEN TRUE
        ELSE IF s[i + 1] = "<answer>"
             THEN i + 2 > n \/ s[i + 2] # "</answer>" \/ i + 2 # n
        ELSE s[i + 1] # "<abstain>" \/ i + 1 # n
  IN  ~Tight(s) \/ bad[1]

\* has_malformed_structure_nested
NestedMalformed(s) ==
  LET n == Len(s)
      bad[i \in 1..(n + 5)] ==
        IF i <= n /\ s[i] = "<request>"
        THEN IF Matched(s, i, NestedCycle) < 4 THEN TRUE ELSE bad[i + 4]
        ELSE IF i + 1 > n \/ s[i] # "</think>" THEN TRUE
        ELSE IF s[i + 1] = "<answer>"
             THEN i + 2 > n \/ s[i + 2] # "</answer>" \/ i + 2 # n
        ELSE s[i + 1] # "<abstain>" \/ i + 1 # n
  IN  ~Tight(s) \/ bad[1]

\* The tail both scaffolds end with: the think block closed, no branch taken
\* yet, or an answer in progress.
Terminal(s, i) ==
  CASE i = Len(s) + 1 -> <<"</think>", "<answer>">>
    [] i = Len(s) /\ s[i] = "</think>" -> <<"<answer>">>
    [] i + 1 = Len(s) /\ s[i] = "</think>" /\ s[i + 1] = "<answer>" -> <<>>
    [] OTHER -> NoScaffold

\* answer_scaffold, requests outside the think block
FlatScaffold(s) ==
  LET n == Len(s)
      at[i \in 1..(n + 6)] ==
        IF i + 1 > n \/ s[i] # "</think>" \/ s[i + 1] # "<request>" THEN Terminal(s, i)
        ELSE LET j == Matched(s, i + 1, FlatCycle) IN
             IF j = 5 THEN at[i + 6]
             ELSE IF j = 2 /\ i + 2 = n
             THEN <<"<response>", "</response>", "<think>", "</think>", "<answer>">>
             ELSE NoScaffold
  IN  IF Tight(s) THEN at[1] ELSE NoScaffold

\* Mutant: the reply's think block is reopened, as outside the block.
NestedScaffoldReopens(s) ==
  LET n == Len(s)
      at[i \in 1..(n + 5)] ==
        IF i > n \/ s[i] # "<request>" THEN Terminal(s, i)
        ELSE LET j == Matched(s, i, NestedCycle) IN
             IF j = 4 THEN at[i + 4]
             ELSE IF j = 2 /\ i + 1 = n
             THEN <<"<response>", "</response>", "<think>", "</think>", "<answer>">>
             ELSE NoScaffold
  IN  IF Tight(s) THEN at[1] ELSE NoScaffold

\* _answer_scaffold_nested
NestedScaffold(s) ==
  LET n == Len(s)
      at[i \in 1..(n + 5)] ==
        IF i > n \/ s[i] # "<request>" THEN Terminal(s, i)
        ELSE LET j == Matched(s, i, NestedCycle) IN
             IF j = 4 THEN at[i + 4]
             ELSE IF j = 2 /\ i + 1 = n
             THEN <<"<response>", "</response>", "</think>", "<answer>">>
             ELSE NoScaffold
  IN  IF Tight(s) THEN at[1] ELSE NoScaffold

\* _answer_scaffold of the single-turn generator: it sees four tags only.
PlainTag == {"</think>", "<think>", "<answer>", "</answer>"}

\* re.findall with their pattern.
PlainTags(s) ==
  LET kept[i \in 0..Len(s)] ==
        IF i = 0 THEN <<>>
        ELSE IF s[i] \in PlainTag THEN Append(kept[i - 1], s[i])
        ELSE kept[i - 1]
  IN  kept[Len(s)]

\* Mutant: a closed think block is closed again.
PlainScaffoldCloses(s) ==
  IF Contains(s, "<answer>") THEN Terminal(PlainTags(s), 1) ELSE <<"</think>", "<answer>">>

PlainScaffold(s) == Terminal(PlainTags(s), 1)

Malformed(s) == IF Nested THEN NestedMalformed(s) ELSE FlatMalformed(s)
Scaffold(s)  == IF Nested THEN NestedScaffold(s) ELSE FlatScaffold(s)

-----------------------------------------------------------------------------
\* Each of these is stated of one response.

\* The validator's walk accepts exactly the sequences of its documented grammar.
ValidatorIsGrammar(s) == Malformed(s) <=> ~WellFormed(s)

\* The scaffold's walk rescues exactly the cuts listed in Rescue, with the tags
\* listed there.
ScaffoldIsGrammar(s) ==
  Scaffold(s) = IF Rescuable(s) THEN AnswerScaffold(s) ELSE NoScaffold

\* What the loop opens an answer on, the validator accepts once it is closed.
LandsInValidator(s) ==
  Scaffold(s) # NoScaffold => ~Malformed(s \o Scaffold(s) \o <<"</answer>">>)

\* A complete answer or abstention is given no scaffold.
IsLeftAlone(s) == ~Malformed(s) => Scaffold(s) = NoScaffold

\* Single-turn generation and the rollout loop append the same tags.
HintTag == {"<request>", "</request>", "<response>", "</response>", Loose}
ScaffoldsAgreeOn(s) ==
  ToSet(s) \cap (HintTag \cup {"<abstain>"}) = {} => PlainScaffold(s) = Scaffold(s)
=============================================================================
