-------------------------- MODULE TurnRulesProofs ---------------------------
(***************************************************************************)
(* What the tag grammar and each turn rule do to a rollout's record, for   *)
(* every value of the constants.  Whatever the loop opens an answer on,    *)
(* the validator accepts once the answer is closed.  Whoever schedules the *)
(* turns, a rollout keeps the promises of Turning, Judged and Unspoiled;   *)
(* forcing turns them into those of Settling and Verdict.  The batch and   *)
(* the two drivers build on these lemmas.                                  *)
(*                                                                         *)
(* The last part is about the tag walks: each is a recursive function over *)
(* positions that goes on behind a whole exchange (Walk), so its value at  *)
(* the first position is what its other branches say behind the last of    *)
(* the exchanges a response begins with (Behind).                          *)
(***************************************************************************)
EXTENDS TurnRules, TagWalk, SequenceTheorems, FiniteSetTheorems, TLAPS

-----------------------------------------------------------------------------
(***************************************************************************)
(* Sets of numbers.                                                        *)
(***************************************************************************)
\* A nonempty bounded set of numbers has a greatest one.  (Above(x) shrinks as
\* x grows, and strict inclusion is well founded on the subsets of a finite set.)
LEMMA HasGreatest ==
  ASSUME NEW n \in Nat, NEW S \in SUBSET (0..n), S # {}
  PROVE  \E x \in S : \A y \in S : x >= y
<1> DEFINE Above(x) == {y \in S : y > x}
           Tails == {Above(x) : x \in S}
           R == StrictSubsetOrdering(S)
<1>1. IsFiniteSet(S)
  <2>1. IsFiniteSet(0..n)
    BY FS_Interval
  <2> QED BY <2>1, FS_Subset
<1>2. IsWellFoundedOn(R, SUBSET S)
  BY <1>1, FS_FiniteSubsetsOfFinite, FS_StrictSubsetOrderingWellFounded
<1>3. Tails \subseteq SUBSET S /\ Tails # {}
  OBVIOUS
<1>4. PICK a \in Tails : \A b \in Tails : ~(<<b, a>> \in R)
  <2> HIDE DEF R, Tails
  <2> QED BY <1>2, <1>3, WFMin
<1>5. PICK x \in S : a = Above(x)
  BY <1>4
<1>6. ASSUME NEW y \in S, ~(x >= y) PROVE FALSE
  <2>1. S \subseteq Int
    OBVIOUS
  <2>2. y > x
    BY <1>6, <2>1
  <2>3. Above(y) \subseteq Above(x)
    <3>1. ASSUME NEW z \in S, z > y PROVE z > x
      BY <2>1, <2>2, <3>1
    <3> QED BY <3>1
  <2>4. y \in Above(x) /\ y \notin Above(y)
    BY <2>1, <2>2
  <2>5. <<Above(y), Above(x)>> \in R
    BY <2>3, <2>4 DEF StrictSubsetOrdering
  <2> QED BY <1>4, <1>5, <2>5
<1> QED BY <1>6

LEMMA MaxIsGreatest ==
  ASSUME NEW n \in Nat, NEW S \in SUBSET (0..n), S # {}
  PROVE  Max(S) \in S /\ \A y \in S : Max(S) >= y
BY HasGreatest DEF Max

-----------------------------------------------------------------------------
(***************************************************************************)
(* The tag grammar, for responses of any length.                           *)
(***************************************************************************)
\* Both exchanges, tag by tag.
LEMMA ExchangeTags ==
  /\ Ask \in Seq(Tag) /\ Reply \in Seq(Tag) /\ Exchange \in Seq(Tag)
  /\ Len(Exchange) = Len(Ask) + Len(Reply)
  /\ Len(Exchange) \in {4, 6}
  /\ \A i \in 1..Len(Exchange) :
       Exchange[i] = IF i <= Len(Ask) THEN Ask[i] ELSE Reply[i - Len(Ask)]
  /\ Tight(Reply)
<1>1. {"</think>", "<think>", "<request>", "</request>", "<response>", "</response>"}
        \subseteq Tag
  BY DEF Tag
<1>2. Ask \in Seq(Tag)
  <2>1. <<"<request>", "</request>">> \in Seq(Tag)
    BY <1>1
  <2>2. <<"</think>", "<request>", "</request>">> \in Seq(Tag)
    BY <1>1
  <2> QED BY <2>1, <2>2 DEF Ask
<1>3. Reply \in Seq(Tag)
  <2>1. <<"<response>", "</response>">> \in Seq(Tag)
    BY <1>1
  <2>2. <<"<response>", "</response>", "<think>">> \in Seq(Tag)
    BY <1>1
  <2> QED BY <2>1, <2>2 DEF Reply
<1>4. /\ Exchange \in Seq(Tag)
      /\ Len(Exchange) = Len(Ask) + Len(Reply)
      /\ \A i \in 1..(Len(Ask) + Len(Reply)) :
           Exchange[i] = IF i <= Len(Ask) THEN Ask[i] ELSE Reply[i - Len(Ask)]
  BY <1>2, <1>3, ConcatProperties DEF Exchange
<1>5. Len(Ask) + Len(Reply) \in {4, 6}
  BY DEF Ask, Reply
<1>6. Tight(Reply)
  BY DEF Tight, Reply, Loose
<1> QED BY <1>2, <1>3, <1>4, <1>5, <1>6

\* Appending leaves the exchanges of a response where they are, and adds to
\* what comes after them.
LEMMA AppendAfter ==
  ASSUME NEW s \in Seq(Tag), NEW u \in Seq(Tag), NEW k \in 0..Len(s), Exchanges(s, k)
  PROVE  /\ Exchanges(s \o u, k)
         /\ After(s \o u, k) = After(s, k) \o u
         /\ k \in 0..Len(s \o u)
<1> DEFINE m == k * Len(Exchange)
<1>1. m \in Nat /\ m <= Len(s)
  BY ExchangeTags DEF Exchanges
<1>2. /\ s \o u \in Seq(Tag)
      /\ Len(s \o u) = Len(s) + Len(u)
      /\ \A i \in 1..(Len(s) + Len(u)) :
           (s \o u)[i] = IF i <= Len(s) THEN s[i] ELSE u[i - Len(s)]
  BY ConcatProperties
<1>3. Exchanges(s, k) = (m <= Len(s) /\ \A i \in 1..m :
                           s[i] = Exchange[((i - 1) % Len(Exchange)) + 1])
  BY DEF Exchanges
<1>4. Exchanges(s \o u, k) = (m <= Len(s \o u) /\ \A i \in 1..m :
                                (s \o u)[i] = Exchange[((i - 1) % Len(Exchange)) + 1])
  BY DEF Exchanges
<1>5. After(s, k) = SubSeq(s, m + 1, Len(s))
      /\ After(s \o u, k) = SubSeq(s \o u, m + 1, Len(s \o u))
  BY DEF After
<1> HIDE DEF m
<1>6. Exchanges(s \o u, k)
  <2>1. \A i \in 1..m : (s \o u)[i] = s[i]
    BY <1>1, <1>2
  <2> QED BY <1>1, <1>2, <1>3, <1>4, <2>1
<1>7. After(s \o u, k) = After(s, k) \o u
  <2> DEFINE p == SubSeq(s, m + 1, Len(s))
             q == SubSeq(s \o u, m + 1, Len(s \o u))
  <2>1. /\ p \in Seq(Tag) /\ Len(p) = Len(s) - m
        /\ \A i \in 1..(Len(s) - m) : p[i] = s[m + i]
    BY <1>1
  <2>2. /\ q \in Seq(Tag) /\ Len(q) = Len(s) + Len(u) - m
        /\ \A i \in 1..(Len(s) + Len(u) - m) : q[i] = (s \o u)[m + i]
    BY <1>1, <1>2
  <2> HIDE DEF p, q
  <2>3. /\ p \o u \in Seq(Tag) /\ Len(p \o u) = Len(p) + Len(u)
        /\ \A i \in 1..(Len(p) + Len(u)) :
             (p \o u)[i] = IF i <= Len(p) THEN p[i] ELSE u[i - Len(p)]
    BY <2>1, ConcatProperties
  <2>4. Len(q) = Len(p \o u)
    BY <1>1, <2>1, <2>2, <2>3
  <2>5. ASSUME NEW i \in 1..Len(q) PROVE q[i] = (p \o u)[i]
    <3>1. i \in 1..(Len(s) + Len(u) - m) /\ i \in 1..(Len(p) + Len(u))
      BY <1>1, <2>1, <2>2
    <3>2. q[i] = (s \o u)[m + i] /\ m + i \in 1..(Len(s) + Len(u))
      BY <1>1, <2>2, <3>1
    <3>3. CASE i <= Len(s) - m
      BY <1>1, <1>2, <2>1, <2>3, <3>1, <3>2, <3>3
    <3>4. CASE ~(i <= Len(s) - m)
      <4>1. m + i - Len(s) = i - Len(p)
        BY <1>1, <2>1
      <4> QED BY <1>1, <1>2, <2>1, <2>3, <3>1, <3>2, <3>4, <4>1
    <3> QED BY <3>3, <3>4
  <2>6. q = p \o u
    BY <2>2, <2>3, <2>4, <2>5, SeqEqual
  <2> QED BY <1>5, <2>6 DEF p, q
<1> QED BY <1>2, <1>6, <1>7

LEMMA AppendTight ==
  ASSUME NEW s \in Seq(Tag), NEW u \in Seq(Tag), Tight(s), Tight(u)
  PROVE  Tight(s \o u)
BY ConcatProperties DEF Tight

\* A response whose whole exchanges are followed by an ending is accepted.
LEMMA EndingAccepted ==
  ASSUME NEW s \in Seq(Tag), Tight(s), NEW k \in 0..Len(s), Exchanges(s, k),
         NEW u \in Seq(Tag), Tight(u), After(s, k) \o u \in Ending
  PROVE  WellFormed(s \o u)
BY AppendAfter, AppendTight DEF WellFormed
LEMMA PlaceInFour ==
  ASSUME NEW k \in Nat, NEW i \in (4 * k + 1)..(4 * k + 4)
  PROVE  (i - 1) % 4 = i - 1 - 4 * k
OBVIOUS

LEMMA PlaceInSix ==
  ASSUME NEW k \in Nat, NEW i \in (6 * k + 1)..(6 * k + 6)
  PROVE  (i - 1) % 6 = i - 1 - 6 * k
OBVIOUS

\* An exchange at the head of the rest is one exchange more.
LEMMA OneMoreExchange ==
  ASSUME NEW s \in Seq(Tag), NEW v \in Seq(Tag), NEW k \in 0..Len(s), Exchanges(s, k),
         After(s, k) = Exchange \o v
  PROVE  k + 1 \in 0..Len(s) /\ Exchanges(s, k + 1) /\ After(s, k + 1) = v
<1> DEFINE L == Len(Exchange)
           m == k * L
<1>1. L \in {4, 6} /\ k \in Nat /\ m \in Nat /\ m <= Len(s) /\ Len(s) \in Nat
  BY ExchangeTags DEF Exchanges
<1>2. (k + 1) * L = m + L
  BY <1>1
<1>3. /\ Exchange \o v \in Seq(Tag) /\ Len(Exchange \o v) = L + Len(v)
      /\ \A i \in 1..(L + Len(v)) :
           (Exchange \o v)[i] = IF i <= L THEN Exchange[i] ELSE v[i - L]
  BY ExchangeTags, ConcatProperties
<1>4. ASSUME NEW i \in (m + 1)..(m + L) PROVE ((i - 1) % L) + 1 = i - m
  <2>1. CASE L = 4
    <3>1. i \in (4 * k + 1)..(4 * k + 4) /\ m = 4 * k
      BY <1>1, <2>1
    <3> HIDE DEF L, m
    <3>2. (i - 1) % 4 = i - 1 - 4 * k
      BY <1>1, <3>1, PlaceInFour
    <3> QED BY <1>1, <2>1, <3>1, <3>2
  <2>2. CASE L = 6
    <3>1. i \in (6 * k + 1)..(6 * k + 6) /\ m = 6 * k
      BY <1>1, <2>2
    <3> HIDE DEF L, m
    <3>2. (i - 1) % 6 = i - 1 - 6 * k
      BY <1>1, <3>1, PlaceInSix
    <3> QED BY <1>1, <2>2, <3>1, <3>2
  <2> QED BY <1>1, <2>1, <2>2
<1>5. \A i \in 1..m : s[i] = Exchange[((i - 1) % L) + 1]
  BY DEF Exchanges
<1>6. Exchanges(s, k + 1) = ((k + 1) * L <= Len(s) /\ \A i \in 1..((k + 1) * L) :
                               s[i] = Exchange[((i - 1) % L) + 1])
  BY DEF Exchanges
<1>7. After(s, k) = SubSeq(s, m + 1, Len(s))
      /\ After(s, k + 1) = SubSeq(s, (k + 1) * L + 1, Len(s))
  BY DEF After
<1> HIDE DEF L, m
<1>8. Len(s) - m = L + Len(v)
  BY <1>1, <1>3, <1>7
<1>9. \A i \in 1..(L + Len(v)) : s[m + i] = (Exchange \o v)[i]
  BY <1>1, <1>7, <1>8
<1>10. k + 1 \in 0..Len(s)
  BY <1>1, <1>2, <1>8
<1>11. Exchanges(s, k + 1)
  <2>1. (k + 1) * L <= Len(s)
    BY <1>1, <1>2, <1>8
  <2>2. ASSUME NEW i \in 1..((k + 1) * L) PROVE s[i] = Exchange[((i - 1) % L) + 1]
    <3>1. CASE i <= m
      BY <1>1, <1>2, <1>5, <3>1
    <3>2. CASE ~(i <= m)
      <4>1. i \in (m + 1)..(m + L) /\ i - m \in 1..L /\ i - m \in 1..(L + Len(v))
        BY <1>1, <1>2, <3>2
      <4>2. PICK j \in 1..L : j = i - m /\ m + j = i
        BY <1>1, <4>1
      <4>3. s[i] = (Exchange \o v)[j] /\ (Exchange \o v)[j] = Exchange[j]
        BY <1>3, <1>9, <4>1, <4>2
      <4> QED BY <1>4, <4>1, <4>2, <4>3
    <3> QED BY <3>1, <3>2
  <2> QED BY <1>6, <2>1, <2>2
<1>12. After(s, k + 1) = v
  <2> DEFINE q == SubSeq(s, m + L + 1, Len(s))
  <2>1. q \in Seq(Tag) /\ Len(q) = Len(v)
        /\ \A i \in 1..Len(v) : q[i] = s[m + L + i]
    BY <1>1, <1>8
  <2>2. ASSUME NEW i \in 1..Len(q) PROVE q[i] = v[i]
    <3>1. L + i \in 1..(L + Len(v)) /\ ~(L + i <= L) /\ (L + i) - L = i
          /\ m + (L + i) = m + L + i
      <4>1. Len(v) \in Nat /\ i \in 1..Len(v)
        BY <2>1
      <4> QED BY <1>1, <4>1
    <3>2. q[i] = (Exchange \o v)[L + i]
      BY <1>9, <2>1, <3>1
    <3> QED BY <1>3, <3>1, <3>2
  <2> HIDE DEF q
  <2>3. q = v
    BY <2>1, <2>2, SeqEqual
  <2> QED BY <1>2, <1>7, <2>3 DEF q
<1> QED BY <1>10, <1>11, <1>12

LEMMA OneAndOne ==
  ASSUME NEW a \in Tag, NEW b \in Tag
  PROVE  <<a>> \o <<b>> = <<a, b>>
<1> DEFINE p == <<a>> \o <<b>>
<1>1. <<a>> \in Seq(Tag) /\ <<b>> \in Seq(Tag) /\ <<a, b>> \in Seq(Tag)
  OBVIOUS
<1>2. p \in Seq(Tag) /\ Len(p) = 2 /\ p[1] = a /\ p[2] = b
  BY <1>1
<1> HIDE DEF p
<1>3. Len(<<a, b>>) = 2 /\ \A i \in 1..2 : p[i] = <<a, b>>[i]
  BY <1>2
<1>4. p = <<a, b>>
  BY <1>1, <1>2, <1>3, SeqEqual
<1> QED BY <1>4 DEF p

LEMMA TwoAndOne ==
  ASSUME NEW a \in Tag, NEW b \in Tag, NEW c \in Tag
  PROVE  <<a, b>> \o <<c>> = <<a, b, c>>
<1> DEFINE p == <<a, b>> \o <<c>>
<1>1. <<a, b>> \in Seq(Tag) /\ <<c>> \in Seq(Tag) /\ <<a, b, c>> \in Seq(Tag)
  OBVIOUS
<1>2. p \in Seq(Tag) /\ Len(p) = 3 /\ p[1] = a /\ p[2] = b /\ p[3] = c
  BY <1>1
<1> HIDE DEF p
<1>3. Len(<<a, b, c>>) = 3 /\ \A i \in 1..3 : p[i] = <<a, b, c>>[i]
  BY <1>2
<1>4. p = <<a, b, c>>
  BY <1>1, <1>2, <1>3, SeqEqual
<1> QED BY <1>4 DEF p

LEMMA OneAndTwo ==
  ASSUME NEW a \in Tag, NEW b \in Tag, NEW c \in Tag
  PROVE  <<a>> \o <<b, c>> = <<a, b, c>>
<1>1. <<b, c>> = <<b>> \o <<c>> /\ <<a, b>> = <<a>> \o <<b>>
  BY OneAndOne
<1>2. <<a>> \in Seq(Tag) /\ <<b>> \in Seq(Tag) /\ <<c>> \in Seq(Tag)
  OBVIOUS
<1>3. (<<a>> \o <<b>>) \o <<c>> = <<a>> \o (<<b>> \o <<c>>)
  BY <1>2, ConcatAssociative
<1>4. <<a, b>> \o <<c>> = <<a, b, c>>
  BY TwoAndOne
<1> QED BY <1>1, <1>3, <1>4

LEMMA EndingsAreTags ==
  ASSUME NEW v \in Ending
  PROVE  v \in Seq(Tag) /\ Tight(v)
<1>1. {"</think>", "<answer>", "</answer>", "<abstain>"} \subseteq Tag
  BY DEF Tag
<1>2. <<"</think>", "<answer>", "</answer>">> \in Seq(Tag)
      /\ <<"</think>", "<abstain>">> \in Seq(Tag)
  BY <1>1
<1>3. v = <<"</think>", "<answer>", "</answer>">> \/ v = <<"</think>", "<abstain>">>
  BY DEF Ending
<1>4. Tight(<<"</think>", "<answer>", "</answer>">>)
  BY DEF Tight, Loose
<1>5. Tight(<<"</think>", "<abstain>">>)
  BY DEF Tight, Loose
<1> QED BY <1>2, <1>3, <1>4, <1>5

\* A response cut between asking and being answered is accepted once the
\* exchange is closed and an ending follows.
LEMMA ReplyThenEndingAccepted ==
  ASSUME NEW s \in Seq(Tag), Tight(s), NEW k \in 0..Len(s), Exchanges(s, k),
         After(s, k) = Ask, NEW v \in Ending
  PROVE  WellFormed(s \o (Reply \o v))
<1> DEFINE u == Reply \o v
           t == s \o u
<1>1. v \in Seq(Tag) /\ Tight(v)
  BY EndingsAreTags
<1>2. Ask \in Seq(Tag) /\ Reply \in Seq(Tag) /\ Tight(Reply)
  BY ExchangeTags
<1>3. u \in Seq(Tag) /\ Tight(u)
  BY <1>1, <1>2, AppendTight
<1>4. t \in Seq(Tag) /\ Tight(t)
  <2> HIDE DEF u
  <2>1. t \in Seq(Tag)
    BY <1>3, ConcatProperties
  <2>2. Tight(t)
    BY <1>3, AppendTight
  <2> QED BY <2>1, <2>2
<1>5. k \in 0..Len(t) /\ Exchanges(t, k) /\ After(t, k) = Ask \o u
  BY <1>3, AppendAfter
<1>6. Ask \o u = Exchange \o v
  BY <1>1, <1>2, ConcatAssociative DEF Exchange
<1> HIDE DEF u, t
<1>7. k + 1 \in 0..Len(t) /\ Exchanges(t, k + 1) /\ After(t, k + 1) = v
  <2>1. After(t, k) = Exchange \o v
    BY <1>5, <1>6
  <2>2. t \in Seq(Tag) /\ v \in Seq(Tag) /\ k \in 0..Len(t) /\ Exchanges(t, k)
    BY <1>1, <1>4, <1>5
  <2> QED BY <2>1, <2>2, OneMoreExchange
<1>8. WellFormed(t)
  BY <1>4, <1>7 DEF WellFormed
<1> QED BY <1>8 DEF t, u

-----------------------------------------------------------------------------
\* "A forced completion is only worth anything if it lands somewhere that
\* accepts" (hint_loop.py:67-69): a response of any length that answer_scaffold
\* rescues is accepted by has_malformed_structure once the answer is closed.
THEOREM ScaffoldAccepted ==
  ASSUME NEW s \in Seq(Tag), Rescuable(s)
  PROVE  /\ AnswerScaffold(s) \in Seq(Tag)
         /\ WellFormed((s \o AnswerScaffold(s)) \o <<"</answer>">>)
<1> DEFINE c   == CHOOSE x \in Rescue : CutAt(s, x)
           add == c.add
           cut == c.cut
<1>1. c \in Rescue /\ CutAt(s, c) /\ Tight(s)
  BY DEF Rescuable
<1>2. AnswerScaffold(s) = add
  BY DEF AnswerScaffold
<1>3. PICK k \in 0..Len(s) : Exchanges(s, k) /\ After(s, k) = cut
  BY <1>1 DEF CutAt
<1> DEFINE closing == <<"</answer>">>
           open    == <<"</think>", "<answer>">>
           ending  == <<"</think>", "<answer>", "</answer>">>
<1> HIDE DEF c
<1>4. \/ cut = <<>> /\ add = open
      \/ cut = <<"</think>">> /\ add = <<"<answer>">>
      \/ cut = open /\ add = <<>>
      \/ cut = Ask /\ add = Reply \o open
  BY <1>1 DEF Rescue
<1> HIDE DEF add, cut
<1>5. ending \in Ending
  BY DEF Ending
<1>6. {"</think>", "<answer>", "</answer>"} \subseteq Tag
  BY DEF Tag
<1>7. closing \in Seq(Tag) /\ open \in Seq(Tag) /\ ending \in Seq(Tag)
      /\ <<"<answer>">> \in Seq(Tag) /\ <<>> \in Seq(Tag)
  BY <1>6
<1>8. /\ <<>> \o ending = ending
      /\ <<>> \o closing = closing
      /\ open \o closing = ending
      /\ <<"<answer>">> \o closing = <<"<answer>", "</answer>">>
      /\ <<"</think>">> \o <<"<answer>", "</answer>">> = ending
  <2>1. <<>> \o ending = ending
    OBVIOUS
  <2>2. <<>> \o closing = closing
    OBVIOUS
  <2>3. "</think>" \in Tag /\ "<answer>" \in Tag /\ "</answer>" \in Tag
    BY <1>6
  <2>4. open \o closing = ending
    BY <2>3, TwoAndOne
  <2>5. <<"<answer>">> \o closing = <<"<answer>", "</answer>">>
    BY <2>3, OneAndOne
  <2>6. <<"</think>">> \o <<"<answer>", "</answer>">> = ending
    BY <2>3, OneAndTwo
  <2> QED BY <2>1, <2>2, <2>4, <2>5, <2>6
<1>9. Tight(ending) /\ Tight(closing) /\ Tight(<<"<answer>", "</answer>">>)
  BY DEF Tight, Loose
<1>10. add \in Seq(Tag)
  <2>1. Reply \o open \in Seq(Tag)
    BY <1>7, ExchangeTags
  <2> QED BY <1>7, <1>4, <2>1
<1>11. (s \o add) \o closing = s \o (add \o closing)
  <2> HIDE DEF closing
  <2> QED BY <1>7, <1>10, ConcatAssociative
<1>12. WellFormed(s \o (add \o closing))
  <2>1. CASE cut = <<>> /\ add = open
    <3>1. After(s, k) \o (add \o closing) = ending
      BY <1>3, <1>8, <2>1
    <3>2. add \o closing = ending
      BY <1>8, <2>1
    <3> QED BY <1>1, <1>3, <1>5, <1>7, <1>9, <3>1, <3>2, EndingAccepted
  <2>2. CASE cut = <<"</think>">> /\ add = <<"<answer>">>
    <3>1. After(s, k) \o (add \o closing) = ending
      BY <1>3, <1>8, <2>2
    <3>2. add \o closing = <<"<answer>", "</answer>">>
      BY <1>8, <2>2
    <3>3. add \o closing \in Seq(Tag)
      BY <1>7, <1>10
    <3> QED BY <1>1, <1>3, <1>5, <1>9, <3>1, <3>2, <3>3, EndingAccepted
  <2>3. CASE cut = open /\ add = <<>>
    <3>1. After(s, k) \o (add \o closing) = ending
      BY <1>3, <1>8, <2>3
    <3>2. add \o closing = closing
      BY <1>8, <2>3
    <3> QED BY <1>1, <1>3, <1>5, <1>7, <1>9, <3>1, <3>2, EndingAccepted
  <2>4. CASE cut = Ask /\ add = Reply \o open
    <3>1. add \o closing = Reply \o (open \o closing)
      BY <1>7, <2>4, ExchangeTags, ConcatAssociative
    <3>2. add \o closing = Reply \o ending
      BY <1>8, <3>1
    <3> QED BY <1>1, <1>3, <1>5, <2>4, <3>2, ReplyThenEndingAccepted
  <2> QED BY <1>4, <2>1, <2>2, <2>3, <2>4
<1> QED BY <1>2, <1>10, <1>11, <1>12

-----------------------------------------------------------------------------
(***************************************************************************)
(* What holds of a rollout while turns are taken.                          *)
(***************************************************************************)
\* A tape is the prompt, what the policy sampled, and what was injected.
Measured(s) == s.total = s.prompt + s.resp + InjectedLen(s)

\* What holds of a rollout before force_answers has run.
Turning(s) ==
  /\ s \in Rollout
  /\ ~s.forced /\ ~s.thinkTruncated /\ ~s.answerTruncated
  /\ s.resp <= MaxResponseLen
  /\ s.turns <= MaxTurns
  /\ ~s.completed => s.numHints = s.turns /\ (s.turns > 0 => s.total < MaxModelLen)
  /\ Measured(s)
  /\ s.given = Min2(Min2(s.numHints, MaxHints), s.hints)

-----------------------------------------------------------------------------
\* Injected text consists of tags.
LEMMA RepliesAreTags ==
  Reply \in Seq(Tag) /\ <<"<response>", "</response>">> \in Seq(Tag)
<1>1. {"<response>", "</response>"} \subseteq Tag
  BY DEF Tag
<1>2. <<"<response>", "</response>">> \in Seq(Tag)
  BY <1>1
<1> QED BY <1>2, ExchangeTags

LEMMA ConstantsAreNat ==
  /\ MaxHints \in Nat /\ MaxTurns \in Nat /\ MaxModelLen \in Nat
  /\ MaxResponseLen \in Nat /\ AnswerBudget \in Nat
  /\ HintLen \in Nat /\ RefusalLen \in Nat /\ ScaffoldLen \in Nat /\ ClosingLen \in Nat
BY RulesAssumption DEF RulesAssumption

-----------------------------------------------------------------------------
(***************************************************************************)
(* What each rule does to a record.                                        *)
(***************************************************************************)
\* The fields that injected text and the truncation marks leave alone.
SameCounts(s, t) ==
  /\ t.prompt = s.prompt
  /\ t.resp = s.resp /\ t.turns = s.turns /\ t.hints = s.hints
  /\ t.numHints = s.numHints /\ t.given = s.given
  /\ t.forced = s.forced
  /\ t.thinkTruncated = s.thinkTruncated /\ t.answerTruncated = s.answerTruncated

LEMMA SameIsMeasured ==
  ASSUME NEW s, NEW t, SameCounts(s, t), t.total = s.total, Measured(s)
  PROVE  Measured(t)
<1>1. InjectedLen(t) = InjectedLen(s)
  BY DEF SameCounts, InjectedLen
<1> QED BY <1>1 DEF SameCounts, Measured

LEMMA ExtendedFacts ==
  ASSUME NEW s \in Rollout, NEW ts \in Seq(Tag), NEW n \in Nat
  PROVE  /\ Extended(s, ts, n) \in Rollout
         /\ SameCounts(s, Extended(s, ts, n))
         /\ Extended(s, ts, n).completed = s.completed
         /\ Extended(s, ts, n).truncated = s.truncated
         /\ Extended(s, ts, n).tags = s.tags \o ts
         /\ Extended(s, ts, n).total = s.total + n
<1>1. s.tags \o ts \in Seq(Tag)
  BY DEF Rollout
<1>2. s.total + n \in Nat
  BY DEF Rollout
<1>3. ASSUME NEW q \in Seq(Tag), NEW m \in Nat
      PROVE  [s EXCEPT !.tags = q, !.total = m] \in Rollout
  BY DEF Rollout
<1>4. [s EXCEPT !.tags = s.tags \o ts, !.total = s.total + n] \in Rollout
  BY <1>1, <1>2, <1>3
<1>5. Extended(s, ts, n) \in Rollout
  BY <1>4 DEF Extended
<1> QED BY <1>5 DEF Extended, Rollout, SameCounts

LEMMA CutShortFacts ==
  ASSUME NEW s \in Rollout
  PROVE  /\ CutShort(s) \in Rollout
         /\ SameCounts(s, CutShort(s))
         /\ CutShort(s).completed /\ CutShort(s).truncated
         /\ CutShort(s).total = s.total
         /\ CutShort(s).tags = s.tags
BY DEF CutShort, Rollout, SameCounts

\* Injected text counts against the window only: it ends a rollout or leaves
\* it inside the window.
LEMMA EnvironmentTurnFacts ==
  ASSUME NEW s \in Rollout, NEW ts \in Seq(Tag), NEW n \in Nat
  PROVE  /\ EnvironmentTurn(s, ts, n) \in Rollout
         /\ SameCounts(s, EnvironmentTurn(s, ts, n))
         /\ EnvironmentTurn(s, ts, n).total = s.total + n
         /\ ~EnvironmentTurn(s, ts, n).completed =>
               EnvironmentTurn(s, ts, n).total < MaxModelLen
<1> DEFINE t == Extended(s, ts, n)
<1>1. t \in Rollout /\ SameCounts(s, t) /\ t.total = s.total + n
  BY ExtendedFacts
<1>2. CutShort(t) \in Rollout /\ SameCounts(t, CutShort(t)) /\ CutShort(t).completed
      /\ CutShort(t).total = t.total
  BY <1>1, CutShortFacts
<1>3. SameCounts(s, CutShort(t))
  BY <1>1, <1>2 DEF SameCounts
<1>4. t.total \in Nat /\ MaxModelLen \in Nat
  BY <1>1, ConstantsAreNat DEF Rollout
<1>5. EnvironmentTurn(s, ts, n) =
        IF t.total >= MaxModelLen \/ t.resp >= MaxResponseLen THEN CutShort(t) ELSE t
  BY DEF EnvironmentTurn
<1> HIDE DEF t
<1>6. CASE t.total >= MaxModelLen \/ t.resp >= MaxResponseLen
  BY <1>1, <1>2, <1>3, <1>5, <1>6
<1>7. CASE ~(t.total >= MaxModelLen \/ t.resp >= MaxResponseLen)
  BY <1>1, <1>4, <1>5, <1>7
<1> QED BY <1>6, <1>7

\* What one more request adds to the injected text.
LEMMA InjectedGrows ==
  ASSUME NEW n \in Nat, NEW m \in Nat, NEW h \in Nat, NEW l \in Nat
  PROVE  LET inj(k) == Min2(k, m) * h + (k - Min2(k, m)) * l IN
         inj(n + 1) = inj(n) + (IF n + 1 > m THEN l ELSE h)
<1>1. CASE n + 1 > m
  <2>1. Min2(n + 1, m) = m /\ Min2(n, m) = m
    BY <1>1 DEF Min2
  <2>2. (n + 1 - m) * l = (n - m) * l + l
    OBVIOUS
  <2>3. m * h \in Nat /\ (n - m) * l \in Int
    OBVIOUS
  <2> QED BY <1>1, <2>1, <2>2, <2>3
<1>2. CASE ~(n + 1 > m)
  <2>1. Min2(n + 1, m) = n + 1 /\ Min2(n, m) = n
    BY <1>2 DEF Min2
  <2>2. (n + 1) * h = n * h + h /\ n * h \in Nat
    OBVIOUS
  <2>3. (n + 1 - (n + 1)) * l = 0 /\ (n - n) * l = 0
    OBVIOUS
  <2> QED BY <1>2, <2>1, <2>2, <2>3
<1> QED BY <1>1, <1>2

\* A request is answered with the next hint, in order, while the cap and the
\* puzzle allow one.
LEMMA AnswerRequestFacts ==
  ASSUME NEW s \in Rollout,
         s.given = Min2(Min2(s.numHints, MaxHints), s.hints)
  PROVE  LET t == AnswerRequest(s) IN
         /\ t \in Rollout
         /\ t.prompt = s.prompt /\ t.resp = s.resp /\ t.turns = s.turns
         /\ t.total - InjectedLen(t) = s.total - InjectedLen(s)
         /\ t.forced = s.forced
         /\ t.thinkTruncated = s.thinkTruncated /\ t.answerTruncated = s.answerTruncated
         /\ t.numHints = s.numHints + 1
         /\ t.given = Min2(Min2(t.numHints, MaxHints), t.hints)
         /\ ~t.completed => t.total < MaxModelLen
<1> DEFINE u == [s EXCEPT !.numHints = @ + 1]
           v == [u EXCEPT !.given = IF @ < u.hints THEN @ + 1 ELSE @]
           Kept(t) == /\ t.prompt = s.prompt /\ t.total = s.total /\ t.resp = s.resp /\ t.turns = s.turns /\ t.hints = s.hints
                      /\ t.forced = s.forced
                      /\ t.thinkTruncated = s.thinkTruncated
                      /\ t.answerTruncated = s.answerTruncated
                      /\ t.numHints = s.numHints + 1
<1>1. s.numHints \in Nat /\ s.given \in Nat /\ s.hints \in Nat /\ MaxHints \in Nat
  BY ConstantsAreNat DEF Rollout
<1>2. u \in Rollout /\ Kept(u) /\ u.given = s.given
  <2>1. ASSUME NEW m \in Nat PROVE [s EXCEPT !.numHints = m] \in Rollout
    BY DEF Rollout
  <2>2. s.numHints + 1 \in Nat
    BY <1>1
  <2>3. u \in Rollout
    BY <2>1, <2>2
  <2> QED BY <2>3 DEF Rollout
<1>3. /\ v \in Rollout /\ Kept(v)
      /\ v.given = IF s.given < s.hints THEN s.given + 1 ELSE s.given
  <2> HIDE DEF u
  <2>1. ASSUME NEW m \in Nat PROVE [u EXCEPT !.given = m] \in Rollout
    BY <1>2 DEF Rollout
  <2>2. (IF u.given < u.hints THEN u.given + 1 ELSE u.given) \in Nat
    BY <1>1, <1>2
  <2>3. v \in Rollout
    BY <2>1, <2>2
  <2> QED BY <1>2, <2>3 DEF Rollout
<1>4. AnswerRequest(s) =
        IF u.numHints > MaxHints THEN Refuse(u) ELSE InjectHint(u)
  BY DEF AnswerRequest
<1>5. /\ Refuse(u) = EnvironmentTurn(u, <<"<response>", "</response>">>, RefusalLen)
      /\ InjectHint(u) = EnvironmentTurn(v, Reply, HintLen)
  BY DEF Refuse, InjectHint
<1> HIDE DEF u, v
<1>a1. ASSUME NEW t, t.numHints = s.numHints + 1
       PROVE  InjectedLen(t) = InjectedLen(s)
                + (IF s.numHints + 1 > MaxHints THEN RefusalLen ELSE HintLen)
  BY <1>1, <1>a1, ConstantsAreNat, InjectedGrows DEF InjectedLen
<1>b1. s.total \in Int /\ InjectedLen(s) \in Int /\ RefusalLen \in Int /\ HintLen \in Int
  BY <1>1, ConstantsAreNat DEF Rollout, InjectedLen, Min2
<1>6. CASE u.numHints > MaxHints
  <2>1. s.given = Min2(Min2(s.numHints + 1, MaxHints), s.hints)
    BY <1>1, <1>2, <1>6 DEF Min2
  <2>2. LET t == Refuse(u) IN
          t \in Rollout /\ SameCounts(u, t) /\ t.total = u.total + RefusalLen /\ (~t.completed => t.total < MaxModelLen)
    <3> DEFINE ts == <<"<response>", "</response>">>
    <3>1. ts \in Seq(Tag) /\ RefusalLen \in Nat /\ u \in Rollout
      BY <1>2, RepliesAreTags, ConstantsAreNat
    <3> HIDE DEF ts
    <3>2. LET t == EnvironmentTurn(u, ts, RefusalLen) IN
          t \in Rollout /\ SameCounts(u, t) /\ t.total = u.total + RefusalLen
          /\ (~t.completed => t.total < MaxModelLen)
      BY <3>1, EnvironmentTurnFacts
    <3> QED BY <1>5, <3>2 DEF ts
  <2>3. Refuse(u).total - InjectedLen(Refuse(u)) = s.total - InjectedLen(s)
    <3>1. InjectedLen(Refuse(u)) = InjectedLen(s) + RefusalLen
      BY <1>1, <1>2, <1>6, <1>a1, <2>2 DEF SameCounts
    <3> QED BY <1>2, <1>b1, <2>2, <3>1
  <2> QED BY <1>2, <1>4, <1>6, <2>1, <2>2, <2>3 DEF SameCounts
<1>7. CASE ~(u.numHints > MaxHints)
  <2>1. (IF s.given < s.hints THEN s.given + 1 ELSE s.given) =
          Min2(Min2(s.numHints + 1, MaxHints), s.hints)
    BY <1>1, <1>2, <1>7 DEF Min2
  <2>2. LET t == InjectHint(u) IN
          t \in Rollout /\ SameCounts(v, t) /\ t.total = v.total + HintLen /\ (~t.completed => t.total < MaxModelLen)
    <3>1. Reply \in Seq(Tag) /\ HintLen \in Nat /\ v \in Rollout
      BY <1>3, RepliesAreTags, ConstantsAreNat
    <3>2. LET t == EnvironmentTurn(v, Reply, HintLen) IN
          t \in Rollout /\ SameCounts(v, t) /\ t.total = v.total + HintLen
          /\ (~t.completed => t.total < MaxModelLen)
      BY <3>1, EnvironmentTurnFacts
    <3> QED BY <1>5, <3>2
  <2>3. InjectHint(u).total - InjectedLen(InjectHint(u)) = s.total - InjectedLen(s)
    <3>1. InjectedLen(InjectHint(u)) = InjectedLen(s) + HintLen
      BY <1>1, <1>2, <1>3, <1>7, <1>a1, <2>2 DEF SameCounts
    <3> QED BY <1>3, <1>b1, <2>2, <3>1
  <2> QED BY <1>3, <1>4, <1>7, <2>1, <2>2, <2>3 DEF SameCounts
<1> QED BY <1>6, <1>7

\* A turn keeps a rollout's promises, if the engine kept to the budget.
LEMMA IngestKeepsTurning ==
  ASSUME NEW s, NEW g \in Generation, Turning(s),
         ~s.completed, s.turns < MaxTurns, Fits(s, g)
  PROVE  Turning(Ingest(s, g))
<1> DEFINE e == Extended(s, g.tags, g.len)
           t == [e EXCEPT !.turns = @ + 1, !.resp = @ + g.len]
           Counts(u) == /\ u.numHints = s.numHints /\ u.given = s.given
                        /\ u.hints = s.hints
                        /\ ~u.forced /\ ~u.thinkTruncated /\ ~u.answerTruncated
           malformed == \/ Contains(g.tags, "</response>")
                        \/ Contains(g.tags, "</request>") /\ ~Contains(g.tags, "<request>")
<1>1. g.tags \in Seq(Tag) /\ g.len \in Nat
  BY RulesAssumption, ConstantsAreNat DEF Generation, RulesAssumption
<1>2. s \in Rollout /\ s.turns \in Nat /\ s.resp \in Nat /\ s.numHints \in Nat
      /\ MaxResponseLen \in Nat /\ MaxTurns \in Nat
  BY ConstantsAreNat DEF Turning, Rollout
<1>3. e \in Rollout /\ SameCounts(s, e) /\ e.total = s.total + g.len
  BY <1>1, <1>2, ExtendedFacts
<1>4. /\ t \in Rollout /\ Counts(t) /\ t.turns = s.turns + 1 /\ t.resp = s.resp + g.len
      /\ t.prompt = s.prompt /\ t.total = s.total + g.len
  <2> HIDE DEF e
  <2>1. ASSUME NEW m \in Nat, NEW n \in Nat
        PROVE  [e EXCEPT !.turns = m, !.resp = n] \in Rollout
    BY <1>3 DEF Rollout
  <2>2. e.turns + 1 \in Nat /\ e.resp + g.len \in Nat
    BY <1>1, <1>2, <1>3 DEF SameCounts
  <2>3. t \in Rollout
    BY <2>1, <2>2
  <2>4. /\ t.turns = e.turns + 1 /\ t.resp = e.resp + g.len
        /\ t.numHints = e.numHints /\ t.given = e.given /\ t.hints = e.hints
        /\ t.forced = e.forced /\ t.thinkTruncated = e.thinkTruncated
        /\ t.answerTruncated = e.answerTruncated
        /\ t.prompt = e.prompt /\ t.total = e.total
    BY <1>3 DEF Rollout
  <2> QED BY <1>3, <2>3, <2>4 DEF SameCounts, Turning
<1>5. t.turns <= MaxTurns /\ t.resp <= MaxResponseLen
  BY <1>1, <1>2, <1>4 DEF Fits
<1>6. t.given = Min2(Min2(t.numHints, MaxHints), t.hints)
  BY <1>4 DEF Turning
<1>7. Ingest(s, g) = IF t.resp >= MaxResponseLen THEN CutShort(t)
                     ELSE IF malformed THEN [t EXCEPT !.malformed = TRUE, !.completed = TRUE]
                     ELSE IF Contains(g.tags, "</request>") THEN AnswerRequest(t)
                     ELSE Completed(t)
  BY DEF Ingest
<1> HIDE DEF e, t, malformed
<1>a1. Measured(t)
  <2>1. InjectedLen(t) = InjectedLen(s)
    BY <1>4 DEF InjectedLen
  <2>2. s.total = s.prompt + s.resp + InjectedLen(s)
    BY DEF Turning, Measured
  <2>3. s.total \in Int /\ s.prompt \in Int /\ s.resp \in Int /\ InjectedLen(s) \in Int
    BY <1>2, ConstantsAreNat DEF Rollout, InjectedLen, Min2
  <2>4. t.total = t.prompt + t.resp + InjectedLen(t)
    BY <1>1, <1>4, <2>1, <2>2, <2>3
  <2> QED BY <2>4 DEF Measured
<1>8. Turning(CutShort(t))
  <2>1. Measured(CutShort(t))
    BY <1>4, <1>a1, CutShortFacts, SameIsMeasured
  <2> QED BY <1>4, <1>5, <1>6, <2>1, CutShortFacts DEF Turning, SameCounts
<1>9. Turning([t EXCEPT !.malformed = TRUE, !.completed = TRUE])
  <2> DEFINE u == [t EXCEPT !.malformed = TRUE, !.completed = TRUE]
  <2>1. u \in Rollout /\ SameCounts(t, u) /\ u.completed /\ u.total = t.total
    BY <1>4 DEF Rollout, SameCounts
  <2> HIDE DEF u
  <2>2. Measured(u)
    BY <1>a1, <2>1, SameIsMeasured
  <2>3. Turning(u)
    BY <1>4, <1>5, <1>6, <2>1, <2>2 DEF Turning, SameCounts
  <2> QED BY <2>3 DEF u
<1>10. Turning(Completed(t))
  <2>1. Completed(t) \in Rollout /\ SameCounts(t, Completed(t)) /\ Completed(t).completed
        /\ Completed(t).total = t.total
    BY <1>4 DEF Completed, Rollout, SameCounts
  <2>2. Measured(Completed(t))
    BY <1>a1, <2>1, SameIsMeasured
  <2> QED BY <1>4, <1>5, <1>6, <2>1, <2>2 DEF Turning, SameCounts
<1>11. Turning(AnswerRequest(t))
  <2>1. s.numHints = s.turns
    BY DEF Turning
  <2> DEFINE q == AnswerRequest(t)
  <2>2. /\ q \in Rollout
        /\ q.prompt = t.prompt /\ q.resp = t.resp /\ q.turns = t.turns
        /\ q.total - InjectedLen(q) = t.total - InjectedLen(t)
        /\ q.forced = t.forced
        /\ q.thinkTruncated = t.thinkTruncated /\ q.answerTruncated = t.answerTruncated
        /\ q.numHints = t.numHints + 1
        /\ q.given = Min2(Min2(q.numHints, MaxHints), q.hints)
        /\ ~q.completed => q.total < MaxModelLen
    BY <1>4, <1>6, AnswerRequestFacts
  <2> HIDE DEF q
  <2>3. Measured(q)
    <3>1. \A z \in Rollout : z.total \in Int /\ z.prompt \in Int /\ z.resp \in Int
                             /\ InjectedLen(z) \in Int
      BY ConstantsAreNat DEF Rollout, InjectedLen, Min2
    <3> QED BY <1>4, <1>a1, <2>2, <3>1 DEF Measured
  <2>4. Turning(q)
    BY <1>4, <1>5, <2>1, <2>2, <2>3 DEF Turning
  <2> QED BY <2>4 DEF q
<1> QED BY <1>7, <1>8, <1>9, <1>10, <1>11

\* A rollout that is found room can be served: the budget and the window it is
\* sent with hold a token at least, whatever else they hold.
LEMMA RoomIsServed ==
  ASSUME NEW s \in Rollout, HasRoom(s), Texts # {},
         NEW q, q.prompt = s.total, q.budget = MaxResponseLen - s.resp
  PROVE  \E g \in Generation : Serves(q, g)
<1> PICK t \in Texts : TRUE
  OBVIOUS
<1> DEFINE g == [tags |-> t, len |-> 1]
<1>1. s.resp \in Nat /\ s.total \in Nat
  BY DEF Rollout
<1>2. 1 <= MaxResponseLen - s.resp /\ s.total + 1 <= MaxModelLen /\ 1 \in 1..MaxResponseLen
  <2> DEFINE m == s.resp
             n == s.total
  <2>1. n <= MaxModelLen - MinBuffer /\ MaxResponseLen - m >= MinBuffer
    BY DEF HasRoom
  <2>2. m \in Nat /\ n \in Nat /\ MinBuffer \in Nat \ {0}
        /\ MaxResponseLen \in Nat /\ MaxModelLen \in Nat
    BY <1>1, RulesAssumption DEF RulesAssumption
  <2> HIDE DEF m, n
  <2>3. 1 <= MaxResponseLen - m /\ n + 1 <= MaxModelLen /\ 1 \in 1..MaxResponseLen
    BY <2>1, <2>2
  <2> QED BY <2>3 DEF m, n
<1>3. g \in Generation /\ g.len = 1
  BY <1>2 DEF Generation
<1> HIDE DEF g
<1>4. Serves(q, g)
  BY <1>2, <1>3 DEF Serves
<1> QED BY <1>3, <1>4

\* An answer can always be forced where one is asked for: CanForce has left the
\* window open behind the scaffold.
LEMMA SomeAnswerFits ==
  ASSUME NEW s \in Rollout
  PROVE  \E a \in Answer : MaySample(s, a)
<1> DEFINE a == [tags |-> <<>>, len |-> 0]
<1>1. <<>> \in AnswerTexts /\ 0 \in 0..AnswerBudget /\ Len(<<>>) = 0
  BY AnswersAssumption, ConstantsAreNat DEF AnswersAssumption
<1>2. a \in Answer /\ a.len = 0
  BY <1>1 DEF Answer
<1>3. s.total \in Nat /\ AddedLen(s) \in Nat
  BY ConstantsAreNat DEF Rollout, AddedLen
<1> HIDE DEF a
<1>4. CanForce(s) => AnswerFits(s, a)
  BY <1>2, <1>3, ConstantsAreNat DEF CanForce, AnswerFits
<1> QED BY <1>2, <1>4 DEF MaySample

\* What the engine may return for a request made from a rollout fits it.
LEMMA RequestOf ==
  ASSUME NEW s \in Rollout, NEW g \in Generation, NEW q, Serves(q, g),
         q.prompt = s.total, q.budget = MaxResponseLen - s.resp
  PROVE  Fits(s, g)
<1>1. s.resp \in Nat /\ s.total \in Nat /\ g.len \in Nat
  BY ConstantsAreNat DEF Rollout, Generation
<1> QED BY <1>1, ConstantsAreNat DEF Serves, Fits

LEMMA InjectedIsNat ==
  ASSUME NEW s, s.numHints \in Nat
  PROVE  InjectedLen(s) \in Nat
<1>1. Min2(s.numHints, MaxHints) \in Nat /\ s.numHints - Min2(s.numHints, MaxHints) \in Nat
  BY ConstantsAreNat DEF Min2
<1>2. \A m \in Nat, n \in Nat : m * HintLen + n * RefusalLen \in Nat
  BY ConstantsAreNat
<1> QED BY <1>1, <1>2 DEF InjectedLen

\* A turn is counted, and so is what was sampled and what was asked in it,
\* whatever comes of it.
LEMMA IngestCountsTurn ==
  ASSUME NEW s \in Rollout, NEW g \in Generation, Turning(s)
  PROVE  /\ Ingest(s, g).turns = s.turns + 1
         /\ Ingest(s, g).resp = s.resp + g.len
         /\ Ingest(s, g).prompt = s.prompt
         /\ Ingest(s, g).numHints \in {s.numHints, s.numHints + 1}
<1> DEFINE e == Extended(s, g.tags, g.len)
           t == [e EXCEPT !.turns = @ + 1, !.resp = @ + g.len]
           rejected == [t EXCEPT !.malformed = TRUE, !.completed = TRUE]
           Counts(u) == /\ u.turns = s.turns + 1 /\ u.resp = s.resp + g.len
                        /\ u.prompt = s.prompt
<1>1. g.tags \in Seq(Tag) /\ g.len \in Nat
  BY RulesAssumption, ConstantsAreNat DEF Generation, RulesAssumption
<1>2. e \in Rollout /\ SameCounts(s, e)
  BY <1>1, ExtendedFacts
<1>3. t \in Rollout /\ Counts(t) /\ t.numHints = s.numHints
      /\ t.given = s.given /\ t.hints = s.hints
  <2> HIDE DEF e
  <2>1. ASSUME NEW m \in Nat, NEW n \in Nat
        PROVE  [e EXCEPT !.turns = m, !.resp = n] \in Rollout
    BY <1>2 DEF Rollout
  <2>2. e.turns \in Nat /\ e.resp \in Nat
    BY <1>2 DEF Rollout
  <2>3. e.turns + 1 \in Nat /\ e.resp + g.len \in Nat
    BY <1>1, <2>2
  <2>4. t \in Rollout
    BY <2>1, <2>3
  <2> QED BY <1>2, <2>4 DEF Rollout, SameCounts
<1>4. Ingest(s, g) \in {CutShort(t), rejected, AnswerRequest(t), Completed(t)}
  BY DEF Ingest
<1> HIDE DEF e, t
<1>5. ASSUME NEW u \in {CutShort(t), rejected, Completed(t)}
      PROVE  Counts(u) /\ u.numHints = s.numHints
  <2>1. u.turns = t.turns /\ u.resp = t.resp /\ u.prompt = t.prompt /\ u.numHints = t.numHints
    BY <1>3 DEF CutShort, Completed, Rollout
  <2> QED BY <1>3, <2>1
<1>6. Counts(AnswerRequest(t)) /\ AnswerRequest(t).numHints = s.numHints + 1
  <2>1. t.given = Min2(Min2(t.numHints, MaxHints), t.hints)
    BY <1>3 DEF Turning
  <2> QED BY <1>3, <2>1, AnswerRequestFacts
<1> QED BY <1>4, <1>5, <1>6

\* What a turn adds to a tape is what was sampled and what was injected, and a
\* turn that leaves its rollout going did inject something.
LEMMA IngestMeasures ==
  ASSUME NEW s, NEW g \in Generation, Turning(s),
         ~s.completed, s.turns < MaxTurns, Fits(s, g)
  PROVE  LET t == Ingest(s, g)
             injected == t.total - s.total - g.len
         IN  injected \in Nat /\ (~t.completed => injected > 0)
<1> DEFINE t == Ingest(s, g)
<1>1. /\ s \in Rollout /\ Turning(t) /\ t \in Rollout
  BY IngestKeepsTurning DEF Turning
<1>2. /\ t.resp = s.resp + g.len /\ t.prompt = s.prompt
      /\ t.numHints \in {s.numHints, s.numHints + 1} /\ t.turns = s.turns + 1
  BY <1>1, IngestCountsTurn
<1>3. /\ s.numHints \in Nat /\ g.len \in Nat /\ s.total \in Nat /\ s.prompt \in Nat
      /\ s.resp \in Nat /\ s.turns \in Nat /\ t.total \in Nat
  <2>1. g.len \in Nat
    BY ConstantsAreNat DEF Generation
  <2>2. ASSUME NEW r \in Rollout
        PROVE  /\ r.numHints \in Nat /\ r.total \in Nat /\ r.prompt \in Nat
               /\ r.resp \in Nat /\ r.turns \in Nat
    BY DEF Rollout
  <2> HIDE DEF t
  <2> QED BY <1>1, <2>1, <2>2
<1>4. HintLen \in Nat \ {0} /\ RefusalLen \in Nat \ {0}
  BY RulesAssumption DEF RulesAssumption
<1>5. s.total = s.prompt + s.resp + InjectedLen(s) /\ t.total = t.prompt + t.resp + InjectedLen(t)
  BY <1>1 DEF Turning, Measured
<1>6. ~t.completed => t.numHints = s.numHints + 1
  BY <1>1, <1>2 DEF Turning
<1>7. InjectedLen(s) \in Nat /\ InjectedLen(t) \in Nat
  BY <1>1, InjectedIsNat DEF Rollout
<1> HIDE DEF t
<1>8. t.total - s.total - g.len = InjectedLen(t) - InjectedLen(s)
  BY <1>2, <1>3, <1>5, <1>7
<1>9. CASE t.numHints = s.numHints
  <2>1. InjectedLen(t) = InjectedLen(s)
    BY <1>9 DEF InjectedLen
  <2>2. t.total - s.total - g.len = 0 /\ t.completed
    BY <1>3, <1>6, <1>7, <1>8, <1>9, <2>1
  <2> QED BY <2>2 DEF t
<1>10. CASE t.numHints = s.numHints + 1
  <2>1. InjectedLen(t) = InjectedLen(s)
          + (IF s.numHints + 1 > MaxHints THEN RefusalLen ELSE HintLen)
    BY <1>3, <1>10, ConstantsAreNat, InjectedGrows DEF InjectedLen
  <2>2. t.total - s.total - g.len \in Nat \ {0}
    BY <1>4, <1>7, <1>8, <2>1
  <2> QED BY <2>2 DEF t
<1> QED BY <1>2, <1>9, <1>10

LEMMA CutShortKeepsTurning ==
  ASSUME NEW s, Turning(s)
  PROVE  Turning(CutShort(s))
<1>1. s \in Rollout /\ Measured(s)
  BY DEF Turning
<1>2. Measured(CutShort(s))
  BY <1>1, CutShortFacts, SameIsMeasured
<1> QED BY <1>1, <1>2, CutShortFacts DEF Turning, SameCounts

LEMMA FinalizeFacts ==
  ASSUME NEW s, Turning(s)
  PROVE  /\ Turning(Finalize(s))
         /\ Finalize(s).completed = s.completed
         /\ Finalize(s).turns = s.turns
         /\ ~s.completed => Finalize(s).truncated
<1> DEFINE t == [s EXCEPT !.truncated = TRUE]
<1>1. t \in Rollout /\ SameCounts(s, t) /\ t.completed = s.completed
      /\ t.total = s.total /\ t.truncated
  BY DEF Turning, Rollout, SameCounts
<1>2. Turning(t)
  <2> HIDE DEF t
  <2>1. Measured(t)
    BY <1>1, SameIsMeasured DEF Turning
  <2> QED BY <1>1, <2>1 DEF Turning, SameCounts
<1> QED BY <1>1, <1>2 DEF Finalize, SameCounts

-----------------------------------------------------------------------------
(***************************************************************************)
(* Forced answers.                                                         *)
(***************************************************************************)
\* The tape is no longer than what may be put on it.
Bounded(s) == s.total - s.prompt <=
  MaxResponseLen + AnswerBudget + InjectedLen(s) + ScaffoldLen + ClosingLen

\* Before forcing the policy's budget and the injected text bound a tape.
LEMMA TurningIsBounded ==
  ASSUME NEW s, Turning(s)
  PROVE  /\ s.total - s.prompt <= MaxResponseLen + InjectedLen(s)
         /\ Bounded(s)
<1>1. s.total \in Nat /\ s.prompt \in Nat /\ s.resp \in Nat /\ InjectedLen(s) \in Nat
  BY InjectedIsNat DEF Turning, Rollout
<1>2. s.total = s.prompt + s.resp + InjectedLen(s) /\ s.resp <= MaxResponseLen
  BY DEF Turning, Measured
<1>3. s.total - s.prompt <= MaxResponseLen + InjectedLen(s)
  BY <1>1, <1>2, ConstantsAreNat
<1> QED BY <1>1, <1>3, ConstantsAreNat DEF Bounded

\* What holds of a rollout once force_answers has run.
Settling(s) ==
  /\ s \in Rollout
  /\ s.resp <= MaxResponseLen
  /\ s.turns <= MaxTurns
  /\ s.given = Min2(Min2(s.numHints, MaxHints), s.hints)
  /\ ~s.completed => /\ s.numHints = s.turns
                     /\ s.turns > 0 /\ ~s.forced => s.total < MaxModelLen
  /\ s.forced => s.total <= IF s.thinkTruncated THEN MaxModelLen ELSE MaxModelLen + ClosingLen
  /\ s.truncated => (s.thinkTruncated <=> ~s.answerTruncated)
  /\ s.thinkTruncated => s.forced
  /\ s.forced => (WellFormed(s.tags) <=> PlainAnswer(s.tags))
  /\ s.thinkTruncated \/ s.answerTruncated \/ s.forced => s.truncated
  /\ ~s.forced => Measured(s)
  /\ Bounded(s)

\* A response that is accepted has at most one answer, plain, and at its end.
LEMMA AcceptedIsPlain ==
  ASSUME NEW s \in Seq(Tag), WellFormed(s)
  PROVE  /\ PlainAnswer(s)
         /\ s[Len(s)] = "</answer>" => Len(s) > 1 /\ s[Len(s) - 1] = "<answer>"
<1>1. PICK k \in 0..Len(s) : Exchanges(s, k) /\ After(s, k) \in Ending
  BY DEF WellFormed
<1> DEFINE L == Len(Exchange)
           m == k * L
           p == SubSeq(s, m + 1, Len(s))
<1>2. m \in Nat /\ m <= Len(s) /\ Len(s) \in Nat /\ L \in {4, 6}
  BY <1>1, ExchangeTags DEF Exchanges
<1>3. After(s, k) = p
  BY DEF After
<1>4. ASSUME NEW i \in 1..m PROVE s[i] # "<answer>"
  <2>1. s[i] = Exchange[((i - 1) % L) + 1] /\ ((i - 1) % L) + 1 \in 1..L
    BY <1>1, <1>2 DEF Exchanges
  <2>2. \A j \in 1..L : Exchange[j] # "<answer>"
    <3>1. \A j \in 1..Len(Ask) : Ask[j] # "<answer>"
      BY DEF Ask
    <3>2. \A j \in 1..Len(Reply) : Reply[j] # "<answer>"
      BY DEF Reply
    <3>3. Len(Ask) \in Nat /\ Len(Reply) \in Nat
      BY DEF Ask, Reply
    <3>4. L = Len(Ask) + Len(Reply)
      BY ExchangeTags
    <3>5. ASSUME NEW j \in 1..L PROVE Exchange[j] # "<answer>"
      <4>1. CASE j <= Len(Ask)
        <5>1. Exchange[j] = Ask[j] /\ j \in 1..Len(Ask)
          BY <3>3, <3>5, <4>1, ExchangeTags
        <5> QED BY <3>1, <5>1
      <4>2. CASE ~(j <= Len(Ask))
        <5> DEFINE h == j - Len(Ask)
        <5>1. h \in 1..Len(Reply)
          BY <3>3, <3>4, <3>5, <4>2
        <5>2. Exchange[j] = Reply[h]
          BY <3>3, <3>5, <4>2, ExchangeTags
        <5> QED BY <3>2, <5>1, <5>2
      <4> QED BY <4>1, <4>2
    <3> QED BY <3>5
  <2> QED BY <2>1, <2>2
<1> HIDE DEF L, m
<1>5. Len(p) = Len(s) - m /\ \A i \in 1..(Len(s) - m) : p[i] = s[m + i]
  BY <1>2
<1>5a. m \in Int /\ Len(s) \in Int /\ Len(p) = Len(s) - m
  BY <1>2, <1>5
<1>6. p = <<"</think>", "<answer>", "</answer>">> \/ p = <<"</think>", "<abstain>">>
  BY <1>1, <1>3 DEF Ending
<1> HIDE DEF p
<1>7. ASSUME NEW i \in 1..Len(s), i > m PROVE i - m \in 1..(Len(s) - m) /\ s[i] = p[i - m]
  <2>1. i - m \in 1..(Len(s) - m) /\ m + (i - m) = i
    BY <1>2, <1>7
  <2> QED BY <1>5, <2>1
<1>8. CASE p = <<"</think>", "<answer>", "</answer>">>
  <2>1. Len(s) = m + 3 /\ s[m + 1] = "</think>" /\ s[m + 2] = "<answer>"
        /\ s[m + 3] = "</answer>"
    <3>1. Len(p) = 3 /\ p[1] = "</think>" /\ p[2] = "<answer>" /\ p[3] = "</answer>"
      BY <1>8
    <3>2. Len(p) = 3
      BY <3>1
    <3>3. Len(s) = m + 3 /\ Len(s) - m = 3
      <4> DEFINE n == Len(s)
      <4>1. n \in Int /\ m \in Int /\ 3 = n - m
        BY <1>5a, <3>2
      <4> HIDE DEF n
      <4>2. n = m + 3 /\ n - m = 3
        BY <4>1
      <4> QED BY <4>2 DEF n
    <3> QED BY <1>5, <3>1, <3>3
  <2>2. ASSUME NEW i \in 1..Len(s), NEW j \in 1..Len(s), i < j, s[i] = "<answer>"
        PROVE  s[j] = "</answer>"
    <3>1. i \notin 1..m /\ i # m + 1 /\ i # m + 3
      BY <1>4, <2>1, <2>2
    <3>2. i = m + 2 /\ j = m + 3
      BY <1>2, <2>1, <2>2, <3>1
    <3> QED BY <2>1, <3>2
  <2> QED BY <1>2, <2>1, <2>2 DEF PlainAnswer
<1>9. CASE p = <<"</think>", "<abstain>">>
  <2>1. Len(s) = m + 2 /\ s[m + 1] = "</think>" /\ s[m + 2] = "<abstain>"
    <3>1. Len(p) = 2 /\ p[1] = "</think>" /\ p[2] = "<abstain>"
      BY <1>9
    <3>2. Len(p) = 2
      BY <3>1
    <3>3. Len(s) = m + 2 /\ Len(s) - m = 2
      <4> DEFINE n == Len(s)
      <4>1. n \in Int /\ m \in Int /\ 2 = n - m
        BY <1>5a, <3>2
      <4> HIDE DEF n
      <4>2. n = m + 2 /\ n - m = 2
        BY <4>1
      <4> QED BY <4>2 DEF n
    <3> QED BY <1>5, <3>1, <3>3
  <2>2. ASSUME NEW i \in 1..Len(s) PROVE s[i] # "<answer>"
    <3>1. i \in 1..m \/ i = m + 1 \/ i = m + 2
      BY <1>2, <2>1
    <3> QED BY <1>4, <2>1, <3>1
  <2> QED BY <2>1, <2>2 DEF PlainAnswer
<1> QED BY <1>6, <1>8, <1>9

\* Where an answer stands open, any other tag spoils it.
LEMMA TagsSpoilAnAnswer ==
  ASSUME NEW p \in Seq(Tag), WellFormed(p \o <<"</answer>">>),
         NEW u \in Seq(Tag), Len(u) > 0, u[1] # "</answer>"
  PROVE  ~PlainAnswer(p \o u) /\ ~WellFormed(p \o u)
<1> DEFINE w == p \o <<"</answer>">>
           x == p \o u
           n == Len(p)
<1>1. <<"</answer>">> \in Seq(Tag) /\ n \in Nat
  BY DEF Tag
<1>2. /\ w \in Seq(Tag) /\ Len(w) = n + 1 /\ w[n + 1] = "</answer>"
      /\ n > 0 => w[n] = p[n]
  BY <1>1
<1>3. n > 0 /\ p[n] = "<answer>"
  <2>1. WellFormed(w)
    OBVIOUS
  <2> HIDE DEF w
  <2>2. Len(w) > 1 /\ w[Len(w) - 1] = "<answer>"
    BY <1>2, <2>1, AcceptedIsPlain
  <2>3. n > 0 /\ Len(w) - 1 = n
    BY <1>1, <1>2, <2>2
  <2> QED BY <1>2, <2>2, <2>3
<1>4. x \in Seq(Tag) /\ Len(x) = n + Len(u) /\ x[n] = p[n] /\ x[n + 1] = u[1]
  BY <1>1, <1>3
<1> HIDE DEF w, x
<1>5. n \in 1..Len(x) /\ n + 1 \in 1..Len(x)
  BY <1>1, <1>3, <1>4
<1>6. ~PlainAnswer(x)
  BY <1>3, <1>4, <1>5 DEF PlainAnswer
<1> QED BY <1>4, <1>6, AcceptedIsPlain DEF x

\* A sampled answer brought the closing tag, or it is nothing but text.
LEMMA AnswerCloses ==
  /\ IsSuffix(<<"</answer>">>, <<"</answer>">>)
  /\ ~IsSuffix(<<"</answer>">>, <<>>)
<1>1. Len(Reverse(<<"</answer>">>)) = 1 /\ Len(Reverse(<<>>)) = 0
  BY DEF Reverse
<1>2. ~IsSuffix(<<"</answer>">>, <<>>)
  BY <1>1 DEF IsSuffix, IsPrefix
<1>3. IsSuffix(<<"</answer>">>, <<"</answer>">>)
  BY <1>1 DEF IsSuffix, IsPrefix
<1> QED BY <1>2, <1>3

\* What forcing does to a record.
LEMMA ForceAnswerFacts ==
  ASSUME NEW s \in Rollout, NEW a \in Answer, CanForce(s), AnswerFits(s, a)
  PROVE  LET t == ForceAnswer(s, a) IN
         /\ t \in Rollout
         /\ t.prompt = s.prompt /\ t.total <= s.total + ScaffoldLen + AnswerBudget + ClosingLen
         /\ t.resp = s.resp /\ t.turns = s.turns /\ t.hints = s.hints
         /\ t.numHints = s.numHints /\ t.given = s.given
         /\ t.completed = s.completed /\ t.truncated = s.truncated
         /\ t.forced /\ (WellFormed(t.tags) <=> PlainAnswer(t.tags))
         /\ \/ /\ t.thinkTruncated /\ t.answerTruncated = s.answerTruncated
               /\ t.total <= MaxModelLen
            \/ /\ t.answerTruncated /\ t.thinkTruncated = s.thinkTruncated
               /\ t.total <= MaxModelLen + ClosingLen
<1> DEFINE e == Extended(s, AnswerScaffold(s.tags), AddedLen(s))
           t == Extended(e, a.tags, a.len)
           u == Extended(t, <<"</answer>">>, ClosingLen)
<1>1. AnswerScaffold(s.tags) \in Seq(Tag) /\ AddedLen(s) \in Nat
  <2>1. s.tags \in Seq(Tag) /\ Rescuable(s.tags)
    BY DEF CanForce, Rollout
  <2> QED BY <2>1, ScaffoldAccepted, ConstantsAreNat DEF AddedLen
<1>2. <<"</answer>">> \in Seq(Tag) /\ <<>> \in Seq(Tag)
  <2>1. "</answer>" \in Tag
    BY DEF Tag
  <2> QED BY <2>1
<1>3. /\ a.tags \in Seq(Tag) /\ a.len \in Nat
      /\ \/ a.tags = <<>> \/ a.tags = <<"</answer>">>
         \/ Len(a.tags) > 0 /\ a.tags[1] # "</answer>"
  <2>1. a.tags \in AnswerTexts /\ a.len \in 0..AnswerBudget
    BY DEF Answer
  <2>2. a.tags \in Seq(Tag) /\ \A i \in 1..(Len(a.tags) - 1) : a.tags[i] # "</answer>"
    BY <2>1, AnswersAssumption DEF AnswersAssumption
  <2>3. a.len \in Nat
    BY <2>1, ConstantsAreNat
  <2>4. CASE Len(a.tags) > 1
    BY <2>2, <2>3, <2>4
  <2>5. CASE Len(a.tags) = 1
    <3>1. a.tags = <<a.tags[1]>>
      BY <2>2, <2>5
    <3> QED BY <2>2, <2>3, <2>5, <3>1
  <2>6. CASE Len(a.tags) = 0
    BY <2>2, <2>3, <2>6
  <2>7. Len(a.tags) \in Nat
    BY <2>2
  <2>8. Len(a.tags) > 1 \/ Len(a.tags) = 1 \/ Len(a.tags) = 0
    <3> DEFINE n == Len(a.tags)
    <3>1. n \in Nat
      BY <2>7
    <3> HIDE DEF n
    <3>2. n > 1 \/ n = 1 \/ n = 0
      BY <3>1
    <3> QED BY <3>2 DEF n
  <2> QED BY <2>4, <2>5, <2>6, <2>8, Zenon
<1>4. e \in Rollout /\ SameCounts(s, e) /\ e.completed = s.completed
      /\ e.truncated = s.truncated /\ e.total = s.total + AddedLen(s)
      /\ e.tags = s.tags \o AnswerScaffold(s.tags)
  BY <1>1, ExtendedFacts
<1>5. t \in Rollout /\ SameCounts(e, t) /\ t.completed = e.completed
      /\ t.truncated = e.truncated /\ t.total = e.total + a.len
      /\ t.tags = e.tags \o a.tags
  BY <1>3, <1>4, ExtendedFacts
<1>6. u \in Rollout /\ SameCounts(t, u) /\ u.completed = t.completed
      /\ u.truncated = t.truncated /\ u.total = t.total + ClosingLen
      /\ u.tags = t.tags \o <<"</answer>">>
  <2> HIDE DEF t
  <2>1. t \in Rollout
    BY <1>5
  <2>2. ClosingLen \in Nat
    BY ConstantsAreNat
  <2> QED BY <1>2, <2>1, <2>2, ExtendedFacts
<1>7. t.total <= MaxModelLen /\ u.total <= MaxModelLen + ClosingLen
  <2> HIDE DEF e, t, u
  <2>1. s.total \in Nat /\ s.total + AddedLen(s) + a.len <= MaxModelLen
    BY DEF AnswerFits, Rollout
  <2>2. t.total = s.total + AddedLen(s) + a.len
    BY <1>1, <1>3, <1>4, <1>5, <2>1
  <2>3. t.total \in Nat
    BY <1>5 DEF Rollout
  <2> QED BY <1>6, <2>1, <2>2, <2>3, ConstantsAreNat
<1>b1. /\ t.total <= s.total + ScaffoldLen + AnswerBudget + ClosingLen
       /\ u.total <= s.total + ScaffoldLen + AnswerBudget + ClosingLen
  <2> HIDE DEF e, t, u
  <2>1. s.total \in Nat /\ a.len \in Nat /\ a.len <= AnswerBudget
    BY ConstantsAreNat DEF Answer, Rollout
  <2>2. AddedLen(s) <= ScaffoldLen
    BY ConstantsAreNat DEF AddedLen
  <2>3. t.total = s.total + AddedLen(s) + a.len /\ u.total = t.total + ClosingLen
    BY <1>1, <1>3, <1>4, <1>5, <1>6, <2>1
  <2> QED BY <1>1, <2>1, <2>2, <2>3, ConstantsAreNat
<1>8. ForceAnswer(s, a) =
        IF IsSuffix(<<"</answer>">>, a.tags)
        THEN [t EXCEPT !.forced = TRUE, !.thinkTruncated = TRUE]
        ELSE [u EXCEPT !.forced = TRUE, !.answerTruncated = TRUE]
  BY DEF ForceAnswer
<1> HIDE DEF e, t, u
<1>9. SameCounts(s, t) /\ SameCounts(s, u)
  BY <1>4, <1>5, <1>6 DEF SameCounts
<1> DEFINE whole == (s.tags \o AnswerScaffold(s.tags)) \o <<"</answer>">>
<1>a1. WellFormed(whole)
  <2>1. s.tags \in Seq(Tag) /\ Rescuable(s.tags)
    BY DEF CanForce, Rollout
  <2> QED BY <2>1, ScaffoldAccepted
<1>a0. /\ e.tags \in Seq(Tag) /\ whole = e.tags \o <<"</answer>">>
       /\ whole \in Seq(Tag)
  <2>1. e.tags \in Seq(Tag)
    BY <1>4 DEF Rollout
  <2>2. whole = e.tags \o <<"</answer>">>
    BY <1>4
  <2>3. e.tags \o <<"</answer>">> \in Seq(Tag)
    BY <1>2, <2>1
  <2> HIDE DEF whole
  <2> QED BY <2>1, <2>2, <2>3
<1> DEFINE Agreed(ts) == WellFormed(ts) <=> PlainAnswer(ts)
<1>a4. Agreed(whole)
  BY <1>a0, <1>a1, AcceptedIsPlain
<1> HIDE DEF whole
<1> DEFINE Closed == /\ IsSuffix(<<"</answer>">>, a.tags) => Agreed(t.tags)
                     /\ ~IsSuffix(<<"</answer>">>, a.tags) => Agreed(u.tags)
<1>a5. ASSUME Len(a.tags) > 0, a.tags[1] # "</answer>" PROVE Closed
  <2>1. Agreed(e.tags \o a.tags)
    BY <1>3, <1>a0, <1>a1, <1>a5, TagsSpoilAnAnswer
  <2>2. Agreed((e.tags \o a.tags) \o <<"</answer>">>)
    <3> DEFINE v == a.tags \o <<"</answer>">>
    <3>1. v \in Seq(Tag) /\ Len(v) > 0 /\ v[1] # "</answer>"
      BY <1>2, <1>3, <1>a5
    <3>2. (e.tags \o a.tags) \o <<"</answer>">> = e.tags \o v
      <4> DEFINE c == <<"</answer>">>
      <4>1. c \in Seq(Tag) /\ a.tags \in Seq(Tag) /\ e.tags \in Seq(Tag)
        BY <1>2, <1>3, <1>a0
      <4> HIDE DEF c
      <4>2. \A x, y, z \in Seq(Tag) : (x \o y) \o z = x \o (y \o z)
        BY ConcatAssociative
      <4>3. (e.tags \o a.tags) \o c = e.tags \o (a.tags \o c)
        BY <4>1, <4>2, Zenon
      <4> QED BY <4>3 DEF c
    <3> HIDE DEF v
    <3> QED BY <1>a0, <1>a1, <3>1, <3>2, TagsSpoilAnAnswer
  <2> HIDE DEF Agreed
  <2> QED BY <1>5, <1>6, <2>1, <2>2
<1>a6. ASSUME a.tags = <<"</answer>">> PROVE Closed
  BY <1>5, <1>a0, <1>a4, <1>a6, AnswerCloses
<1>a7. ASSUME a.tags = <<>> PROVE Closed
  <2>1. t.tags = e.tags
    BY <1>5, <1>a0, <1>a7, ConcatEmptySeq
  <2> QED BY <1>6, <1>a0, <1>a4, <1>a7, <2>1, AnswerCloses
<1>a2. IsSuffix(<<"</answer>">>, a.tags) => Agreed(t.tags)
  BY <1>3, <1>a5, <1>a6, <1>a7
<1>a3. ~IsSuffix(<<"</answer>">>, a.tags) => Agreed(u.tags)
  BY <1>3, <1>a5, <1>a6, <1>a7
<1>10. CASE IsSuffix(<<"</answer>">>, a.tags)
  <2> DEFINE v == [t EXCEPT !.forced = TRUE, !.thinkTruncated = TRUE]
  <2>1. /\ v \in Rollout /\ v.forced /\ v.thinkTruncated
        /\ v.resp = t.resp /\ v.turns = t.turns /\ v.hints = t.hints
        /\ v.numHints = t.numHints /\ v.given = t.given /\ v.total = t.total
        /\ v.prompt = t.prompt
        /\ v.completed = t.completed /\ v.truncated = t.truncated
        /\ v.answerTruncated = t.answerTruncated /\ v.tags = t.tags
    BY <1>5 DEF Rollout
  <2> HIDE DEF v
  <2>2. ForceAnswer(s, a) = v
    BY <1>8, <1>10 DEF v
  <2> QED BY <1>4, <1>5, <1>7, <1>9, <1>10, <1>a1, <1>a2, <1>b1, <2>1, <2>2 DEF SameCounts
<1>11. CASE ~IsSuffix(<<"</answer>">>, a.tags)
  <2> DEFINE v == [u EXCEPT !.forced = TRUE, !.answerTruncated = TRUE]
  <2>1. /\ v \in Rollout /\ v.forced /\ v.answerTruncated
        /\ v.resp = u.resp /\ v.turns = u.turns /\ v.hints = u.hints
        /\ v.numHints = u.numHints /\ v.given = u.given /\ v.total = u.total
        /\ v.prompt = u.prompt
        /\ v.completed = u.completed /\ v.truncated = u.truncated
        /\ v.thinkTruncated = u.thinkTruncated /\ v.tags = u.tags
    BY <1>6 DEF Rollout
  <2> HIDE DEF v
  <2>2. ForceAnswer(s, a) = v
    BY <1>8, <1>11 DEF v
  <2> QED BY <1>4, <1>5, <1>6, <1>7, <1>9, <1>11, <1>a1, <1>a3, <1>b1, <2>1, <2>2 DEF SameCounts
<1> QED BY <1>10, <1>11

\* Forcing settles a rollout.
LEMMA SettledFacts ==
  ASSUME NEW s, Turning(s), NEW a \in Answer, MaySample(s, a)
  PROVE  /\ Settling(Settled(s, a))
         /\ Settled(s, a).completed = s.completed
         /\ Settled(s, a).truncated = s.truncated
         /\ Settled(s, a).turns = s.turns
<1>1. s \in Rollout
  BY DEF Turning
<1>2. CASE CanForce(s)
  <2>1. Settled(s, a) = ForceAnswer(s, a) /\ AnswerFits(s, a) /\ s.truncated
    BY <1>2 DEF Settled, MaySample, CanForce
  <2> DEFINE t == ForceAnswer(s, a)
  <2>2. /\ t \in Rollout
        /\ t.prompt = s.prompt /\ t.total <= s.total + ScaffoldLen + AnswerBudget + ClosingLen
        /\ t.resp = s.resp /\ t.turns = s.turns /\ t.hints = s.hints
        /\ t.numHints = s.numHints /\ t.given = s.given
        /\ t.completed = s.completed /\ t.truncated = s.truncated
        /\ t.forced /\ (WellFormed(t.tags) <=> PlainAnswer(t.tags))
        /\ \/ /\ t.thinkTruncated /\ t.answerTruncated = s.answerTruncated
              /\ t.total <= MaxModelLen
           \/ /\ t.answerTruncated /\ t.thinkTruncated = s.thinkTruncated
              /\ t.total <= MaxModelLen + ClosingLen
    BY <1>1, <1>2, <2>1, ForceAnswerFacts
  <2> HIDE DEF t
  <2>a. Bounded(t)
    <3>1. InjectedLen(t) = InjectedLen(s)
      BY <2>2 DEF InjectedLen
    <3>2. s.total - s.prompt <= MaxResponseLen + InjectedLen(s)
      BY TurningIsBounded
    <3>3. s.total \in Nat /\ s.prompt \in Nat /\ t.total \in Nat /\ InjectedLen(s) \in Nat
      BY <1>1, <2>2, InjectedIsNat DEF Rollout
    <3> QED BY <2>2, <3>1, <3>2, <3>3, ConstantsAreNat DEF Bounded
  <2>3. Settling(t)
    BY <2>1, <2>2, <2>a DEF Turning, Settling
  <2> QED BY <2>1, <2>2, <2>3 DEF t
<1>3. CASE ~CanForce(s)
  <2>1. Settled(s, a) = Unforced(s)
    BY <1>3 DEF Settled
  <2>a. Bounded(s)
    BY TurningIsBounded
  <2>2. CASE s.truncated
    <3> DEFINE t == [s EXCEPT !.answerTruncated = TRUE]
    <3>1. /\ t \in Rollout /\ t.answerTruncated
          /\ t.resp = s.resp /\ t.turns = s.turns /\ t.hints = s.hints
          /\ t.numHints = s.numHints /\ t.given = s.given /\ t.total = s.total
          /\ t.completed = s.completed /\ t.truncated = s.truncated
          /\ t.forced = s.forced /\ t.thinkTruncated = s.thinkTruncated
          /\ t.prompt = s.prompt
      BY <1>1 DEF Rollout, SameCounts
    <3>2. Settled(s, a) = t
      BY <2>1, <2>2 DEF Unforced
    <3> HIDE DEF t
    <3>3. Bounded(t)
      BY <2>a, <3>1 DEF Bounded, InjectedLen
    <3>4. Measured(t)
      BY <3>1 DEF Turning, Measured, InjectedLen
    <3> QED BY <2>2, <3>1, <3>2, <3>3, <3>4 DEF Turning, Settling
  <2>3. CASE ~s.truncated
    BY <2>1, <2>3, <2>a DEF Unforced, Turning, Settling
  <2> QED BY <2>2, <2>3
<1> QED BY <1>2, <1>3

-----------------------------------------------------------------------------
\* A rollout that has not begun.
LEMMA FreshIsTurning ==
  ASSUME NEW p \in Nat, NEW h \in Nat
  PROVE  Turning(Fresh(p, h))
<1>1. <<>> \in Seq(Tag)
  OBVIOUS
<1>2. Fresh(p, h) \in Rollout
  BY <1>1 DEF Fresh, Rollout
<1>3. Min2(Min2(0, MaxHints), h) = 0
  BY ConstantsAreNat DEF Min2
<1>4. Fresh(p, h).numHints = 0 /\ Min2(0, MaxHints) = 0
  BY ConstantsAreNat DEF Fresh, Min2
<1>5. InjectedLen(Fresh(p, h)) = 0
  BY <1>4, ConstantsAreNat DEF InjectedLen
<1>6. Measured(Fresh(p, h))
  BY <1>5 DEF Measured, Fresh
<1> QED BY <1>2, <1>3, <1>6, ConstantsAreNat DEF Turning, Fresh

-----------------------------------------------------------------------------
(***************************************************************************)
(* What the validator and the reward read off a tape.  A well formed tape  *)
(* ends in an answer or an abstention; a tape the policy spoiled ends in   *)
(* the tag that spoiled it, because the engine stopped there.  Until then  *)
(* every </response> on the tape was put there by a reply.                 *)
(***************************************************************************)
ReplyTags(ts)  == {i \in 1..Len(ts) : ts[i] = "</response>"}
ReplyCount(ts) == Cardinality(ReplyTags(ts))

\* A rollout that may still take a turn has only had its requests answered.
Unspoiled(s) ==
  ~s.completed => ~s.truncated /\ ~s.malformed /\ ReplyCount(s.tags) = s.numHints

\* What holds of a rollout before force_answers, finished or not.
Judged(s) ==
  /\ s.malformed => s.completed /\ ~s.truncated /\ ~WellFormed(s.tags)
  /\ WellFormed(s.tags) => ReplyCount(s.tags) = s.numHints

\* What holds of it afterwards.
Verdict(s) ==
  /\ s.malformed => ~s.truncated /\ ~WellFormed(s.tags)
  /\ ~s.forced /\ WellFormed(s.tags) => ReplyCount(s.tags) = s.numHints

-----------------------------------------------------------------------------
(***************************************************************************)
(* Tapes.                                                                  *)
(***************************************************************************)
\* A well formed tape ends in an answer or an abstention.
LEMMA EndsInAnswer ==
  ASSUME NEW s \in Seq(Tag), WellFormed(s)
  PROVE  s[Len(s)] \in {"</answer>", "<abstain>"}
<1>1. PICK k \in 0..Len(s) : Exchanges(s, k) /\ After(s, k) \in Ending
  BY DEF WellFormed
<1> DEFINE m == k * Len(Exchange)
           p == SubSeq(s, m + 1, Len(s))
<1>2. m \in Nat /\ m <= Len(s) /\ Len(s) \in Nat
  BY <1>1, ExchangeTags DEF Exchanges
<1>3. After(s, k) = p
  BY DEF After
<1> HIDE DEF m
<1>4. Len(p) = Len(s) - m /\ \A i \in 1..(Len(s) - m) : p[i] = s[m + i]
  BY <1>2
<1>5. p = <<"</think>", "<answer>", "</answer>">> \/ p = <<"</think>", "<abstain>">>
  BY <1>1, <1>3 DEF Ending
<1> HIDE DEF p
<1>6. Len(p) \in {2, 3} /\ p[Len(p)] \in {"</answer>", "<abstain>"}
  <2>1. CASE p = <<"</think>", "<answer>", "</answer>">>
    <3>1. Len(p) = 3 /\ p[3] = "</answer>"
      BY <2>1
    <3> QED BY <3>1
  <2>2. CASE p = <<"</think>", "<abstain>">>
    <3>1. Len(p) = 2 /\ p[2] = "<abstain>"
      BY <2>2
    <3> QED BY <3>1
  <2> QED BY <1>5, <2>1, <2>2
<1>7. p[Len(p)] = s[m + (Len(s) - m)] /\ m + (Len(s) - m) = Len(s)
  BY <1>2, <1>4, <1>6
<1> QED BY <1>6, <1>7

\* So no tape is well formed whose last generation ended in another tag.
LEMMA SpoiledByLastTag ==
  ASSUME NEW s \in Seq(Tag), NEW u \in Seq(Tag), Len(u) > 0,
         u[Len(u)] \in {"</response>", "</request>"}
  PROVE  ~WellFormed(s \o u)
<1>1. s \o u \in Seq(Tag) /\ Len(s \o u) = Len(s) + Len(u)
      /\ (s \o u)[Len(s) + Len(u)] = u[Len(u)]
  <2>1. Len(s) \in Nat /\ Len(u) \in Nat /\ Len(s) + Len(u) - Len(s) = Len(u)
    OBVIOUS
  <2> QED BY <2>1, ConcatProperties
<1> QED BY <1>1, EndsInAnswer

\* The engine stops at the first stop tag.
LEMMA StopsAtStopTag ==
  ASSUME NEW g \in Generation, NEW tag \in StopTag, Contains(g.tags, tag)
  PROVE  Len(g.tags) > 0 /\ g.tags[Len(g.tags)] = tag
<1>1. g.tags \in Texts /\ g.tags \in Seq(Tag)
  BY RulesAssumption DEF Generation, RulesAssumption
<1>2. PICK i \in 1..Len(g.tags) : g.tags[i] = tag
  BY DEF Contains
<1>3. ~(i \in 1..(Len(g.tags) - 1))
  BY <1>1, <1>2, RulesAssumption DEF RulesAssumption
<1>4. i = Len(g.tags) /\ Len(g.tags) > 0
  BY <1>1, <1>2, <1>3
<1> QED BY <1>2, <1>4

\* Counting </response> on a tape that grows.
LEMMA CountUnchanged ==
  ASSUME NEW s \in Seq(Tag), NEW u \in Seq(Tag), ~Contains(u, "</response>")
  PROVE  ReplyCount(s \o u) = ReplyCount(s)
<1>1. /\ Len(s \o u) = Len(s) + Len(u) /\ Len(s) \in Nat /\ Len(u) \in Nat
      /\ \A i \in 1..(Len(s) + Len(u)) :
           (s \o u)[i] = IF i <= Len(s) THEN s[i] ELSE u[i - Len(s)]
  BY ConcatProperties
<1>2. \A i \in 1..Len(u) : u[i] # "</response>"
  BY DEF Contains
<1>3. ASSUME NEW i \in 1..(Len(s) + Len(u)), ~(i <= Len(s))
      PROVE  (s \o u)[i] # "</response>"
  <2>1. i - Len(s) \in 1..Len(u)
    BY <1>1, <1>3
  <2> QED BY <1>1, <1>2, <1>3, <2>1
<1>4. ReplyTags(s \o u) = ReplyTags(s)
  BY <1>1, <1>3 DEF ReplyTags
<1> QED BY <1>4 DEF ReplyCount

LEMMA CountOneMore ==
  ASSUME NEW s \in Seq(Tag), NEW u \in Seq(Tag), Len(u) >= 2,
         \A i \in 1..Len(u) : u[i] = "</response>" <=> i = 2
  PROVE  ReplyCount(s \o u) = ReplyCount(s) + 1
<1>1. /\ Len(s \o u) = Len(s) + Len(u) /\ Len(s) \in Nat /\ Len(u) \in Nat
      /\ \A i \in 1..(Len(s) + Len(u)) :
           (s \o u)[i] = IF i <= Len(s) THEN s[i] ELSE u[i - Len(s)]
  BY ConcatProperties
<1>2. ASSUME NEW i \in 1..(Len(s) + Len(u)), ~(i <= Len(s))
      PROVE  (s \o u)[i] = "</response>" <=> i = Len(s) + 2
  <2>1. i - Len(s) \in 1..Len(u) /\ (i - Len(s) = 2 <=> i = Len(s) + 2)
    BY <1>1, <1>2
  <2> QED BY <1>1, <1>2, <2>1
<1>3. ReplyTags(s \o u) = ReplyTags(s) \cup {Len(s) + 2}
  <2>1. Len(s) + 2 \in 1..(Len(s) + Len(u)) /\ ~(Len(s) + 2 <= Len(s))
    BY <1>1
  <2>2. ASSUME NEW i \in 1..(Len(s) + Len(u))
        PROVE  (s \o u)[i] = "</response>" <=> i \in ReplyTags(s) \cup {Len(s) + 2}
    <3>1. CASE i <= Len(s)
      BY <1>1, <2>1, <3>1 DEF ReplyTags
    <3>2. CASE ~(i <= Len(s))
      BY <1>1, <1>2, <3>2 DEF ReplyTags
    <3> QED BY <3>1, <3>2
  <2>3. ReplyTags(s) \subseteq 1..(Len(s) + Len(u))
    BY <1>1 DEF ReplyTags
  <2> QED BY <1>1, <2>1, <2>2, <2>3 DEF ReplyTags
<1>4. IsFiniteSet(ReplyTags(s)) /\ Len(s) + 2 \notin ReplyTags(s)
  <2>1. IsFiniteSet(1..Len(s)) /\ ReplyTags(s) \in SUBSET (1..Len(s))
    BY <1>1, FS_Interval DEF ReplyTags
  <2> QED BY <1>1, <2>1, FS_Subset DEF ReplyTags
<1> QED BY <1>3, <1>4, FS_AddElement DEF ReplyCount

LEMMA OneResponseEach ==
  /\ Len(Reply) >= 2 /\ \A i \in 1..Len(Reply) : Reply[i] = "</response>" <=> i = 2
  /\ LET no == <<"<response>", "</response>">> IN
       Len(no) >= 2 /\ \A i \in 1..Len(no) : no[i] = "</response>" <=> i = 2
BY DEF Reply

-----------------------------------------------------------------------------
(***************************************************************************)
(* What each rule does to a record.                                        *)
(***************************************************************************)
\* The fields the verdict is about, but for the tape.
SameMarks(s, t) ==
  /\ t.malformed = s.malformed /\ t.numHints = s.numHints
  /\ t.completed = s.completed /\ t.truncated = s.truncated

\* A tape that injected text was added to, and that may have been cut there.
LEMMA EnvironmentTurnMarks ==
  ASSUME NEW s \in Rollout, NEW ts \in Seq(Tag), NEW n \in Nat
  PROVE  LET t == EnvironmentTurn(s, ts, n) IN
         /\ t.tags = s.tags \o ts
         /\ t.malformed = s.malformed /\ t.numHints = s.numHints
         /\ ~t.completed => t.truncated = s.truncated
<1> DEFINE e == Extended(s, ts, n)
<1>1. e.tags = s.tags \o ts /\ SameMarks(s, e) /\ e \in Rollout
  BY ExtendedFacts DEF SameMarks, Extended, Rollout
<1>2. EnvironmentTurn(s, ts, n) = CutShort(e) \/ EnvironmentTurn(s, ts, n) = e
  BY DEF EnvironmentTurn
<1> HIDE DEF e
<1>3. CutShort(e).tags = e.tags /\ CutShort(e).malformed = e.malformed
      /\ CutShort(e).numHints = e.numHints /\ CutShort(e).completed
  BY <1>1 DEF CutShort, Rollout
<1> QED BY <1>1, <1>2, <1>3 DEF SameMarks

\* A request is counted, and its reply is the one </response> that is added.
LEMMA AnswerRequestCounts ==
  ASSUME NEW s \in Rollout, ~s.malformed, ~s.truncated, ReplyCount(s.tags) = s.numHints
  PROVE  Judged(AnswerRequest(s)) /\ Unspoiled(AnswerRequest(s))
<1> DEFINE u == [s EXCEPT !.numHints = @ + 1]
           v == [u EXCEPT !.given = IF @ < u.hints THEN @ + 1 ELSE @]
           no == <<"<response>", "</response>">>
           t == AnswerRequest(s)
           Counted(w) == /\ w.tags = s.tags /\ w.numHints = s.numHints + 1
                         /\ ~w.malformed /\ ~w.truncated
<1>1. s.numHints \in Nat /\ s.given \in Nat /\ s.tags \in Seq(Tag)
  BY DEF Rollout
<1>2. u \in Rollout /\ Counted(u)
  <2>1. ASSUME NEW m \in Nat PROVE [s EXCEPT !.numHints = m] \in Rollout
    BY DEF Rollout
  <2>2. u \in Rollout
    BY <1>1, <2>1
  <2> QED BY <2>2 DEF Rollout
<1>3. v \in Rollout /\ Counted(v)
  <2> HIDE DEF u
  <2>1. ASSUME NEW m \in Nat PROVE [u EXCEPT !.given = m] \in Rollout
    BY <1>2 DEF Rollout
  <2>2. u.given \in Nat
    BY <1>2 DEF Rollout
  <2>3. (IF u.given < u.hints THEN u.given + 1 ELSE u.given) \in Nat
    BY <2>2
  <2>4. v \in Rollout
    BY <2>1, <2>3
  <2> QED BY <1>2, <2>4 DEF Rollout
<1>4. \/ t = EnvironmentTurn(u, no, RefusalLen)
      \/ t = EnvironmentTurn(v, Reply, HintLen)
  BY DEF AnswerRequest, Refuse, InjectHint
<1>5. no \in Seq(Tag) /\ Reply \in Seq(Tag) /\ RefusalLen \in Nat /\ HintLen \in Nat
  BY RepliesAreTags, ConstantsAreNat
<1>6. ReplyCount(s.tags \o no) = s.numHints + 1 /\ ReplyCount(s.tags \o Reply) = s.numHints + 1
  <2>1. Len(no) >= 2 /\ \A i \in 1..Len(no) : no[i] = "</response>" <=> i = 2
    BY OneResponseEach
  <2> HIDE DEF no
  <2>2. ReplyCount(s.tags \o no) = s.numHints + 1
    BY <1>1, <1>5, <2>1, CountOneMore
  <2>3. ReplyCount(s.tags \o Reply) = s.numHints + 1
    BY <1>1, <1>5, OneResponseEach, CountOneMore
  <2> QED BY <2>2, <2>3
<1> HIDE DEF u, v, no
<1>7. /\ ~t.malformed /\ t.numHints = s.numHints + 1
      /\ ReplyCount(t.tags) = s.numHints + 1
      /\ ~t.completed => ~t.truncated
  <2>1. CASE t = EnvironmentTurn(u, no, RefusalLen)
    <3> DEFINE q == EnvironmentTurn(u, no, RefusalLen)
    <3>1. u \in Rollout /\ no \in Seq(Tag) /\ RefusalLen \in Nat
      BY <1>2, <1>5
    <3>2. /\ q.tags = u.tags \o no /\ q.malformed = u.malformed
          /\ q.numHints = u.numHints /\ (~q.completed => q.truncated = u.truncated)
      BY <3>1, EnvironmentTurnMarks
    <3> HIDE DEF q
    <3>3. t = q
      BY <2>1 DEF q
    <3> QED BY <1>2, <1>6, <3>2, <3>3
  <2>2. CASE t = EnvironmentTurn(v, Reply, HintLen)
    <3> DEFINE q == EnvironmentTurn(v, Reply, HintLen)
    <3>1. v \in Rollout /\ Reply \in Seq(Tag) /\ HintLen \in Nat
      BY <1>3, <1>5
    <3>2. /\ q.tags = v.tags \o Reply /\ q.malformed = v.malformed
          /\ q.numHints = v.numHints /\ (~q.completed => q.truncated = v.truncated)
      BY <3>1, EnvironmentTurnMarks
    <3> HIDE DEF q
    <3>3. t = q
      BY <2>2 DEF q
    <3> QED BY <1>3, <1>6, <3>2, <3>3
  <2> QED BY <1>4, <2>1, <2>2
<1> QED BY <1>7 DEF Judged, Unspoiled

\* A turn keeps the verdict open, or settles it by the tag it ended in.
LEMMA IngestJudges ==
  ASSUME NEW s \in Rollout, NEW g \in Generation, Unspoiled(s), ~s.completed
  PROVE  Judged(Ingest(s, g)) /\ Unspoiled(Ingest(s, g))
<1> DEFINE e == Extended(s, g.tags, g.len)
           t == [e EXCEPT !.turns = @ + 1, !.resp = @ + g.len]
           malformed == \/ Contains(g.tags, "</response>")
                        \/ Contains(g.tags, "</request>") /\ ~Contains(g.tags, "<request>")
           rejected == [t EXCEPT !.malformed = TRUE, !.completed = TRUE]
<1>1. g.tags \in Seq(Tag) /\ g.len \in Nat /\ s.tags \in Seq(Tag)
  BY RulesAssumption, ConstantsAreNat DEF Generation, RulesAssumption, Rollout
<1>2. e \in Rollout /\ SameMarks(s, e) /\ e.tags = s.tags \o g.tags
  BY <1>1, ExtendedFacts DEF SameMarks, Extended, Rollout
<1>3. t \in Rollout /\ SameMarks(s, t) /\ t.tags = s.tags \o g.tags
  <2> HIDE DEF e
  <2>1. ASSUME NEW m \in Nat, NEW n \in Nat
        PROVE  [e EXCEPT !.turns = m, !.resp = n] \in Rollout
    BY <1>2 DEF Rollout
  <2>2. e.turns + 1 \in Nat /\ e.resp + g.len \in Nat
    <3>1. e.turns \in Nat /\ e.resp \in Nat
      BY <1>2 DEF Rollout
    <3> QED BY <1>1, <3>1
  <2>3. t \in Rollout
    BY <2>1, <2>2
  <2>4. SameMarks(e, t) /\ t.tags = e.tags
    BY <1>2 DEF Rollout, SameMarks
  <2> QED BY <1>2, <2>3, <2>4 DEF SameMarks
<1>4. Ingest(s, g) = IF t.resp >= MaxResponseLen THEN CutShort(t)
                     ELSE IF malformed THEN rejected
                     ELSE IF Contains(g.tags, "</request>") THEN AnswerRequest(t)
                     ELSE Completed(t)
  BY DEF Ingest
<1>5. /\ CutShort(t).tags = t.tags /\ CutShort(t).malformed = t.malformed
      /\ CutShort(t).numHints = t.numHints /\ CutShort(t).completed
      /\ Completed(t).tags = t.tags /\ Completed(t).malformed = t.malformed
      /\ Completed(t).numHints = t.numHints /\ Completed(t).completed
      /\ rejected.tags = t.tags /\ rejected.malformed /\ rejected.completed
      /\ rejected.numHints = t.numHints /\ rejected.truncated = t.truncated
  <2> HIDE DEF t
  <2> QED BY <1>3 DEF CutShort, Completed, Rollout
<1> HIDE DEF e, t, rejected
<1>6. ~t.malformed /\ ~t.truncated /\ t.numHints = s.numHints
      /\ ReplyCount(s.tags) = s.numHints
  BY <1>3 DEF SameMarks, Unspoiled
<1>7. malformed => ~WellFormed(t.tags)
  <2> SUFFICES ASSUME malformed PROVE ~WellFormed(t.tags)
    OBVIOUS
  <2>1. \E tag \in {"</response>", "</request>"} : Contains(g.tags, tag)
    OBVIOUS
  <2>2. Len(g.tags) > 0 /\ g.tags[Len(g.tags)] \in {"</response>", "</request>"}
    BY <2>1, StopsAtStopTag DEF StopTag
  <2> QED BY <1>1, <1>3, <2>2, SpoiledByLastTag
<1>8. ~malformed => ReplyCount(t.tags) = s.numHints
  BY <1>1, <1>3, <1>6, CountUnchanged
<1>9. CASE t.resp >= MaxResponseLen
  <2>1. WellFormed(t.tags) => ReplyCount(t.tags) = t.numHints
    BY <1>6, <1>7, <1>8
  <2> QED BY <1>4, <1>5, <1>6, <1>9, <2>1 DEF Judged, Unspoiled
<1>10. CASE ~(t.resp >= MaxResponseLen) /\ malformed
  <2>1. Ingest(s, g) = rejected
    BY <1>4, <1>10
  <2> QED BY <1>5, <1>6, <1>7, <1>10, <2>1 DEF Judged, Unspoiled
<1>11. CASE ~(t.resp >= MaxResponseLen) /\ ~malformed /\ Contains(g.tags, "</request>")
  <2>1. Ingest(s, g) = AnswerRequest(t)
    BY <1>4, <1>11
  <2>2. ReplyCount(t.tags) = t.numHints
    BY <1>6, <1>8, <1>11
  <2> QED BY <1>3, <1>6, <2>1, <2>2, AnswerRequestCounts
<1>12. CASE ~(t.resp >= MaxResponseLen) /\ ~malformed /\ ~Contains(g.tags, "</request>")
  <2>1. Ingest(s, g) = Completed(t)
    BY <1>4, <1>12
  <2> QED BY <1>5, <1>6, <1>8, <1>12, <2>1 DEF Judged, Unspoiled
<1> QED BY <1>9, <1>10, <1>11, <1>12

LEMMA CutShortJudges ==
  ASSUME NEW s \in Rollout, Unspoiled(s), Judged(s), ~s.completed
  PROVE  Judged(CutShort(s)) /\ Unspoiled(CutShort(s))
<1>1. /\ CutShort(s).tags = s.tags /\ CutShort(s).malformed = s.malformed
      /\ CutShort(s).numHints = s.numHints /\ CutShort(s).completed
  BY DEF CutShort, Rollout
<1> QED BY <1>1 DEF Judged, Unspoiled

LEMMA FinalizeJudges ==
  ASSUME NEW s \in Rollout, Judged(s)
  PROVE  Judged(Finalize(s))
<1> DEFINE t == [s EXCEPT !.truncated = TRUE]
<1>1. /\ t.tags = s.tags /\ t.malformed = s.malformed /\ t.numHints = s.numHints
      /\ t.completed = s.completed
  BY DEF Rollout
<1>2. Finalize(s) = IF s.completed THEN s ELSE t
  BY DEF Finalize
<1> HIDE DEF t
<1> QED BY <1>1, <1>2 DEF Judged

\* Forcing passes a rejected rollout over, since it is not truncated.
LEMMA SettledVerdict ==
  ASSUME NEW s, Turning(s), Judged(s), NEW a \in Answer, MaySample(s, a)
  PROVE  Verdict(Settled(s, a))
<1>1. s \in Rollout /\ ~s.forced
  BY DEF Turning
<1>2. CASE CanForce(s)
  <2> DEFINE e == Extended(s, AnswerScaffold(s.tags), AddedLen(s))
             t == Extended(e, a.tags, a.len)
             u == Extended(t, <<"</answer>">>, ClosingLen)
             f == [t EXCEPT !.forced = TRUE, !.thinkTruncated = TRUE]
             h == [u EXCEPT !.forced = TRUE, !.answerTruncated = TRUE]
  <2>1. s.truncated /\ Settled(s, a) = ForceAnswer(s, a)
    BY <1>2 DEF Settled, CanForce
  <2>2. ~s.malformed
    BY <2>1 DEF Judged
  <2>3. ForceAnswer(s, a) = IF IsSuffix(<<"</answer>">>, a.tags) THEN f ELSE h
    BY DEF ForceAnswer
  <2>4. f.malformed = s.malformed /\ f.forced /\ h.malformed = s.malformed /\ h.forced
    BY <1>1 DEF Extended, Rollout
  <2> HIDE DEF f, h
  <2> QED BY <2>1, <2>2, <2>3, <2>4 DEF Verdict
<1>3. CASE ~CanForce(s)
  <2> DEFINE t == [s EXCEPT !.answerTruncated = TRUE]
  <2>1. Settled(s, a) = IF s.truncated THEN t ELSE s
    BY <1>3 DEF Settled, Unforced
  <2>2. /\ t.tags = s.tags /\ t.malformed = s.malformed /\ t.numHints = s.numHints
        /\ t.truncated = s.truncated /\ t.forced = s.forced
    BY <1>1 DEF Rollout
  <2> HIDE DEF t
  <2> QED BY <1>1, <2>1, <2>2 DEF Judged, Verdict
<1> QED BY <1>2, <1>3

-----------------------------------------------------------------------------
(***************************************************************************)
(* The tag walks, for responses of any length.                             *)
(***************************************************************************)
\* The tags of u stand in s from position i.
Stands(s, i, u) ==
  i + Len(u) - 1 <= Len(s) /\ \A l \in 1..Len(u) : s[i + l - 1] = u[l]

\* The walks' inner loop finds the longest beginning of the cycle.
LEMMA MatchedIs ==
  ASSUME NEW s \in Seq(Tag), NEW i \in 1..Len(s), NEW c \in Seq(Tag)
  PROVE  /\ Matched(s, i, c) \in 0..Len(c)
         /\ Stands(s, i, SubSeq(c, 1, Matched(s, i, c)))
         /\ \A q \in 0..Len(c) : Stands(s, i, SubSeq(c, 1, q)) => q <= Matched(s, i, c)
<1> DEFINE u == SubSeq(s, i, Len(s))
           C == CommonPrefixes({u, c})
           good(q) == q <= Len(u) /\ \A l \in 1..q : u[l] = c[l]
           Q == {q \in 0..Len(c) : good(q)}
<1>1. /\ u \in Seq(Tag) /\ Len(u) = Len(s) - i + 1
      /\ \A l \in 1..Len(u) : u[l] = s[i + l - 1]
      /\ Len(u) \in Nat /\ Len(c) \in Nat
  OBVIOUS
<1> HIDE DEF u
<1>2. ASSUME NEW q \in 0..Len(c)
      PROVE  good(q) <=> Stands(s, i, SubSeq(c, 1, q))
  <2>1. /\ Len(SubSeq(c, 1, q)) = q /\ q \in Nat
        /\ \A l \in 1..q : SubSeq(c, 1, q)[l] = c[l]
    BY <1>1
  <2>2. q <= Len(u) <=> i + q - 1 <= Len(s)
    BY <1>1, <2>1
  <2>3. ASSUME q <= Len(u), NEW l \in 1..q PROVE u[l] = s[i + l - 1]
    <3>1. l \in 1..Len(u)
      BY <1>1, <2>1, <2>3
    <3> QED BY <1>1, <3>1
  <2> QED BY <2>1, <2>2, <2>3 DEF Stands
<1>3. ASSUME NEW q \in Q PROVE SubSeq(c, 1, q) \in C /\ Len(SubSeq(c, 1, q)) = q
  <2>1. q \in 0..Len(c) /\ q \in 0..Len(u) /\ q \in Nat
    BY <1>1
  <2> DEFINE v == SubSeq(c, 1, q)
  <2>2. v \in Prefixes(c) /\ Len(v) = q /\ v \in Seq(Tag)
    BY <1>1, <2>1 DEF Prefixes
  <2>3. SubSeq(u, 1, q) = v
    <3>1. /\ SubSeq(u, 1, q) \in Seq(Tag) /\ Len(SubSeq(u, 1, q)) = q
          /\ \A l \in 1..q : SubSeq(u, 1, q)[l] = u[l]
      BY <1>1, <2>1
    <3>2. \A l \in 1..q : v[l] = c[l]
      BY <2>1
    <3>3. \A l \in 1..q : SubSeq(u, 1, q)[l] = v[l]
      BY <3>1, <3>2
    <3> HIDE DEF v
    <3> QED BY <2>2, <3>1, <3>3, SeqEqual
  <2>4. SubSeq(v, 1, q) = v
    <3> HIDE DEF v
    <3> QED BY <2>2
  <2>5. IsPrefix(v, u) /\ IsPrefix(v, c)
    <3>1. SubSeq(v, 1, Len(v)) = v
      BY <2>2, <2>4, Zenon
    <3>2. SubSeq(u, 1, Len(v)) = v /\ SubSeq(c, 1, Len(v)) = v
      BY <2>2, <2>3, Zenon
    <3>3. Len(v) <= Len(u) /\ Len(v) <= Len(c)
      BY <1>1, <2>1, <2>2
    <3> HIDE DEF v
    <3> QED BY <3>1, <3>2, <3>3, Zenon DEF IsPrefix
  <2> HIDE DEF v
  <2>6. v \in C
    BY <2>2, <2>5, Zenon DEF CommonPrefixes
  <2> QED BY <2>2, <2>6 DEF v
<1>4. ASSUME NEW w \in C PROVE Len(w) \in Q /\ w = SubSeq(c, 1, Len(w))
  <2>1. /\ w \in Prefixes(u) \cup Prefixes(c) /\ IsPrefix(w, u) /\ IsPrefix(w, c)
    BY Zenon DEF CommonPrefixes
  <2>2. w \in Seq(Tag)
    <3>1. ASSUME NEW x \in Seq(Tag), NEW l \in 0..Len(x), w = SubSeq(x, 1, l)
          PROVE  w \in Seq(Tag)
      BY <3>1
    <3> QED BY <1>1, <2>1, <3>1, Zenon DEF Prefixes
  <2>3. SubSeq(w, 1, Len(w)) = w /\ Len(w) \in Nat
    BY <2>2
  <2>4. /\ Len(w) <= Len(u) /\ SubSeq(u, 1, Len(w)) = w
        /\ Len(w) <= Len(c) /\ SubSeq(c, 1, Len(w)) = w
    BY <2>1, <2>3, Zenon DEF IsPrefix
  <2>5. ASSUME NEW l \in 1..Len(w) PROVE u[l] = c[l]
    <3>1. SubSeq(u, 1, Len(w))[l] = u[l] /\ SubSeq(c, 1, Len(w))[l] = c[l]
      BY <1>1, <2>3, <2>4
    <3> QED BY <2>4, <3>1
  <2> QED BY <1>1, <2>3, <2>4, <2>5
<1>5. 0 \in Q
  BY <1>1
<1>6. PICK j \in Q : \A q \in Q : j >= q
  <2> HIDE DEF good
  <2>1. Q \in SUBSET (0..Len(c)) /\ Q # {} /\ Len(c) \in Nat
    BY <1>1, <1>5
  <2> HIDE DEF Q
  <2> QED BY <2>1, HasGreatest
<1>7. PICK m : /\ m = LongestCommonPrefix({u, c}) /\ m \in C
               /\ \A w \in C : Len(w) <= Len(m)
  <2>1. \E m \in C : \A w \in C : Len(w) <= Len(m)
    <3>1. SubSeq(c, 1, j) \in C /\ Len(SubSeq(c, 1, j)) = j
      BY <1>3, <1>6
    <3>2. ASSUME NEW w \in C PROVE Len(w) <= j
      <4>1. Len(w) \in Q
        BY <1>4
      <4>2. j >= Len(w) /\ j \in Int /\ Len(w) \in Int
        BY <1>6, <4>1
      <4> QED BY <4>2
    <3> HIDE DEF C
    <3> QED BY <3>1, <3>2
  <2> HIDE DEF C
  <2> QED BY <2>1, Zenon DEF LongestCommonPrefix, C
<1>8. Matched(s, i, c) = Len(m)
  BY <1>7, Zenon DEF Matched, u
<1>9. Len(m) \in Q
  BY <1>4, <1>7
<1>10. ASSUME NEW q \in Q PROVE q <= Len(m)
  BY <1>3, <1>7
<1>11. /\ Len(m) \in 0..Len(c) /\ good(Len(m))
       /\ \A q \in 0..Len(c) : good(q) => q <= Len(m)
  <2> HIDE DEF good
  <2> QED BY <1>9, <1>10
<1> HIDE DEF good
<1> QED BY <1>2, <1>8, <1>11

\* Where the exchanges of a response are: k of them, and one more behind those.
LEMMA PlaceInExchange ==
  ASSUME NEW k \in Nat, NEW j \in 1..Len(Exchange)
  PROVE  (((k * Len(Exchange) + j) - 1) % Len(Exchange)) + 1 = j
<1> DEFINE L == Len(Exchange)
<1>1. CASE L = 4
  <2>1. ((4 * k + j) - 1) % 4 = j - 1
    <3>1. 4 * k + j \in (4 * k + 1)..(4 * k + 4)
      BY <1>1
    <3> QED BY <3>1, PlaceInFour
  <2> QED BY <1>1, <2>1
<1>2. CASE L = 6
  <2>1. ((6 * k + j) - 1) % 6 = j - 1
    <3>1. 6 * k + j \in (6 * k + 1)..(6 * k + 6)
      BY <1>2
    <3> QED BY <3>1, PlaceInSix
  <2> QED BY <1>2, <2>1
<1> QED BY <1>1, <1>2, ExchangeTags

LEMMA NextExchange ==
  ASSUME NEW s \in Seq(Tag), NEW k \in Nat, Exchanges(s, k)
  PROVE  Exchanges(s, k + 1) <=> Stands(s, k * Len(Exchange) + 1, Exchange)
<1> DEFINE L == Len(Exchange)
           m == k * L
<1>1. L \in {4, 6} /\ m \in Nat /\ (k + 1) * L = m + L /\ Len(s) \in Nat
  BY ExchangeTags
<1>2. \A j \in 1..L : (((m + j) - 1) % L) + 1 = j
  BY PlaceInExchange
<1>3. \A i \in 1..m : s[i] = Exchange[((i - 1) % L) + 1]
  BY DEF Exchanges
<1>4. Exchanges(s, k + 1) <=> m + L <= Len(s) /\ \A i \in 1..(m + L) :
                                s[i] = Exchange[((i - 1) % L) + 1]
  BY <1>1 DEF Exchanges
<1>5. Stands(s, m + 1, Exchange) <=> m + 1 + L - 1 <= Len(s) /\ \A j \in 1..L :
                                       s[m + 1 + j - 1] = Exchange[j]
  BY DEF Stands
<1> HIDE DEF L, m
<1>6. ASSUME Exchanges(s, k + 1) PROVE Stands(s, m + 1, Exchange)
  <2>1. ASSUME NEW j \in 1..L PROVE s[m + 1 + j - 1] = Exchange[j]
    <3>1. m + j \in 1..(m + L) /\ m + 1 + j - 1 = m + j
      BY <1>1
    <3>4. \A i \in 1..(m + L) : s[i] = Exchange[((i - 1) % L) + 1]
      BY <1>4, <1>6, Zenon
    <3>2. s[m + j] = Exchange[(((m + j) - 1) % L) + 1]
      BY <3>4, <3>1, Zenon
    <3>3. (((m + j) - 1) % L) + 1 = j
      BY <1>2
    <3> QED BY <3>1, <3>2, <3>3
  <2> QED BY <1>1, <1>4, <1>5, <1>6, <2>1
<1>7. ASSUME Stands(s, m + 1, Exchange) PROVE Exchanges(s, k + 1)
  <2>1. ASSUME NEW i \in 1..(m + L) PROVE s[i] = Exchange[((i - 1) % L) + 1]
    <3>1. CASE i <= m
      BY <1>1, <1>3, <3>1
    <3>2. CASE ~(i <= m)
      <4>1. PICK j \in 1..L : j = i - m /\ m + 1 + j - 1 = i /\ (m + j) - 1 = i - 1
        BY <1>1, <3>2
      <4> QED BY <1>2, <1>5, <1>7, <4>1
    <3> QED BY <3>1, <3>2
  <2> QED BY <1>1, <1>4, <1>5, <1>7, <2>1
<1> QED BY <1>6, <1>7 DEF L, m

LEMMA FewerExchanges ==
  ASSUME NEW s \in Seq(Tag), NEW k \in Nat, Exchanges(s, k), NEW j \in 0..k
  PROVE  Exchanges(s, j)
<1> DEFINE L == Len(Exchange)
<1>1. L \in {4, 6}
  BY ExchangeTags
<1>2. j * L \in Nat /\ j * L <= k * L /\ k * L \in Nat /\ Len(s) \in Nat
  BY <1>1
<1>3. 1..(j * L) \subseteq 1..(k * L)
  BY <1>2
<1> QED BY <1>2, <1>3 DEF Exchanges

\* A response begins with a greatest number of exchanges; what is too short to
\* hold one can only stand behind that many.
Behind(s, k) ==
  /\ k \in 0..Len(s) /\ Exchanges(s, k) /\ ~Exchanges(s, k + 1)
  /\ \A j \in 0..k : Exchanges(s, j)

LEMMA AllExchanges ==
  ASSUME NEW s \in Seq(Tag)
  PROVE  \E k \in 0..Len(s) :
           /\ Behind(s, k)
           /\ \A v \in Seq(Tag) : Len(v) < Len(Exchange) =>
                ((\E j \in 0..Len(s) : Exchanges(s, j) /\ After(s, j) = v)
                   <=> After(s, k) = v)
<1> DEFINE L == Len(Exchange)
           K == {k \in 0..Len(s) : Exchanges(s, k)}
<1>1. L \in {4, 6} /\ Len(s) \in Nat
  BY ExchangeTags
<1>2. 0 \in K
  BY <1>1 DEF Exchanges
<1>3. PICK k \in K : \A j \in K : k >= j
  <2>1. K \in SUBSET (0..Len(s)) /\ K # {}
    BY <1>2
  <2> HIDE DEF K
  <2> QED BY <1>1, <2>1, HasGreatest
<1>4. k \in 0..Len(s) /\ Exchanges(s, k) /\ k \in Nat
  BY <1>1
<1>5. ASSUME NEW j \in Nat, Exchanges(s, j) PROVE j \in K
  <2>1. j * L <= Len(s)
    BY <1>5 DEF Exchanges
  <2>2. j <= Len(s)
    <3>1. L = 4 => 4 * j <= Len(s)
      BY <2>1
    <3>2. L = 6 => 6 * j <= Len(s)
      BY <2>1
    <3> HIDE DEF L
    <3> QED BY <1>1, <3>1, <3>2
  <2> QED BY <1>1, <1>5, <2>2
<1>6. ~Exchanges(s, k + 1)
  <2>1. k + 1 \in Nat /\ ~(k >= k + 1)
    BY <1>4
  <2> QED BY <1>3, <1>5, <2>1
<1>7. \A j \in 0..k : Exchanges(s, j)
  BY <1>4, FewerExchanges
<1>8. ASSUME NEW v \in Seq(Tag), Len(v) < L, NEW j \in 0..Len(s),
             Exchanges(s, j), After(s, j) = v
      PROVE  j = k
  <2>1. j \in Nat /\ j <= k
    BY <1>3, <1>4, <1>5, <1>8
  <2>2. ASSUME j < k PROVE FALSE
    <3>1. Exchanges(s, j + 1)
      <4>1. j + 1 \in 0..k
        BY <1>4, <2>1, <2>2
      <4> QED BY <1>7, <4>1
    <3>2. (j + 1) * L <= Len(s) /\ (j + 1) * L = j * L + L /\ j * L \in Nat
      BY <1>1, <2>1, <3>1 DEF Exchanges
    <3> DEFINE m == j * L
    <3>3. v = SubSeq(s, m + 1, Len(s)) /\ m \in Nat /\ m + L <= Len(s)
      BY <1>8, <3>2 DEF After
    <3> HIDE DEF m
    <3>4. Len(v) = Len(s) - m
      BY <1>1, <3>3
    <3> QED BY <1>1, <1>8, <3>3, <3>4
  <2> QED BY <1>4, <2>1, <2>2
<1> HIDE DEF K
<1> QED BY <1>4, <1>6, <1>7, <1>8 DEF Behind

\* A walk that goes on m positions further from the positions in A, and is
\* decided by E at all others ...
Walk(f, d, m, A, E) == f = [i \in 1..d |-> IF i \in A THEN f[i + m] ELSE E[i]]

\* ... is well defined ...
LEMMA WalkExists ==
  ASSUME NEW d \in Nat, NEW m \in Nat \ {0}, NEW A \in SUBSET (1..d), NEW E,
         \A i \in A : i + m \in 1..d
  PROVE  \E f : Walk(f, d, m, A, E)
<1> DEFINE Ends(i) == {j \in 1..d : /\ j \notin A
                                    /\ \E k \in Nat : /\ j = i + k * m
                                                      /\ \A l \in Nat : l < k => i + l * m \in A}
           g == [i \in 1..d |-> E[CHOOSE j : j \in Ends(i)]]
<1>1. ASSUME NEW i \in 1..d, i \notin A PROVE Ends(i) = {i}
  <2>1. i \in Ends(i)
    <3>1. i = i + 0 * m
      OBVIOUS
    <3> QED BY <1>1, <3>1
  <2>2. ASSUME NEW j \in Ends(i) PROVE j = i
    <3>1. PICK k \in Nat : j = i + k * m /\ \A l \in Nat : l < k => i + l * m \in A
      OBVIOUS
    <3>2. k = 0
      <4>1. i + 0 * m = i
        OBVIOUS
      <4> QED BY <1>1, <3>1, <4>1
    <3> QED BY <3>1, <3>2
  <2> QED BY <2>1, <2>2
<1>2. ASSUME NEW i \in A PROVE Ends(i) = Ends(i + m)
  <2>1. ASSUME NEW k \in Nat PROVE (i + m) + k * m = i + (k + 1) * m
    OBVIOUS
  <2>2. ASSUME NEW j \in Ends(i) PROVE j \in Ends(i + m)
    <3>1. PICK k \in Nat : j = i + k * m /\ \A l \in Nat : l < k => i + l * m \in A
      OBVIOUS
    <3>2. k # 0
      <4>1. k = 0 => j = i
        BY <3>1
      <4> QED BY <1>2, <4>1
    <3>3. PICK n \in Nat : k = n + 1
      <4>1. k - 1 \in Nat /\ k = (k - 1) + 1
        BY <3>2
      <4> QED BY <4>1
    <3>4. j = (i + m) + n * m
      BY <2>1, <3>1, <3>3
    <3>5. ASSUME NEW l \in Nat, l < n PROVE (i + m) + l * m \in A
      <4>1. l + 1 \in Nat /\ l + 1 < k
        BY <3>3, <3>5
      <4>2. i + (l + 1) * m \in A
        BY <3>1, <4>1
      <4> QED BY <2>1, <4>2
    <3> QED BY <3>4, <3>5
  <2>3. ASSUME NEW j \in Ends(i + m) PROVE j \in Ends(i)
    <3>1. PICK n \in Nat : j = (i + m) + n * m /\ \A l \in Nat : l < n => (i + m) + l * m \in A
      OBVIOUS
    <3>2. j = i + (n + 1) * m /\ n + 1 \in Nat
      BY <2>1, <3>1
    <3>3. ASSUME NEW l \in Nat, l < n + 1 PROVE i + l * m \in A
      <4>1. CASE l = 0
        BY <1>2, <4>1
      <4>2. CASE l # 0
        <5>1. PICK h \in Nat : l = h + 1
          <6>1. l - 1 \in Nat /\ l = (l - 1) + 1
            BY <4>2
          <6> QED BY <6>1
        <5>2. h < n
          BY <3>3, <5>1
        <5> QED BY <2>1, <3>1, <5>1, <5>2
      <4> QED BY <4>1, <4>2
    <3> QED BY <3>2, <3>3
  <2> QED BY <2>2, <2>3
<1> HIDE DEF Ends
<1>3. ASSUME NEW i \in 1..d PROVE g[i] = IF i \in A THEN g[i + m] ELSE E[i]
  <2>1. CASE i \in A
    <3>1. i + m \in 1..d /\ Ends(i) = Ends(i + m)
      BY <1>2, <2>1
    <3>2. g[i + m] = E[CHOOSE j : j \in Ends(i + m)] /\ g[i] = E[CHOOSE j : j \in Ends(i)]
      BY <3>1
    <3> HIDE DEF g
    <3> QED BY <2>1, <3>1, <3>2, Zenon
  <2>2. CASE i \notin A
    <3>1. (CHOOSE j : j \in {i}) = i
      OBVIOUS
    <3>2. g[i] = E[CHOOSE j : j \in Ends(i)] /\ Ends(i) = {i}
      BY <1>1, <2>2
    <3> HIDE DEF g
    <3> QED BY <2>2, <3>1, <3>2, Zenon
  <2> QED BY <2>1, <2>2
<1>4. g = [i \in 1..d |-> g[i]]
  OBVIOUS
<1> HIDE DEF g
<1>5. g = [i \in 1..d |-> IF i \in A THEN g[i + m] ELSE E[i]]
  BY <1>3, <1>4
<1> QED BY <1>5 DEF Walk

\* ... and, begun at the first position, ends where E decides.
Reached(p, d, m, A) ==
  /\ p \in (1..d) \ A
  /\ \E n \in Nat : p = 1 + n * m /\ \A k \in 0..n : k < n => 1 + k * m \in A

LEMMA WalkEnds ==
  ASSUME NEW d \in Nat, NEW m \in Nat \ {0}, NEW A \in SUBSET (1..d), NEW E, NEW b,
         Walk(b, d, m, A, E), NEW p, Reached(p, d, m, A)
  PROVE  b[1] = E[p]
<1> PICK n \in Nat : /\ p = 1 + n * m /\ 1 + n * m \in (1..d) \ A
                    /\ \A k \in 0..n : k < n => 1 + k * m \in A
  BY DEF Reached
<1> DEFINE S == {k \in 0..n : b[1 + k * m] = b[1]}
<1>1. 0 \in S
  <2>1. 1 + 0 * m = 1
    OBVIOUS
  <2> QED BY <2>1
<1>2. PICK k \in S : \A j \in S : k >= j
  <2>1. S \in SUBSET (0..n) /\ S # {}
    BY <1>1
  <2> HIDE DEF S
  <2> QED BY <2>1, HasGreatest
<1>3. k = n
  <2> SUFFICES ASSUME k # n PROVE FALSE
    OBVIOUS
  <2>1. k \in 0..n /\ k < n /\ k + 1 \in 0..n /\ ~(k >= k + 1)
    OBVIOUS
  <2>2. 1 + k * m \in A /\ (1 + k * m) + m = 1 + (k + 1) * m
    BY <2>1
  <2>3. b[1 + k * m] = b[(1 + k * m) + m]
    <3> DEFINE i == 1 + k * m
    <3>1. i \in A /\ i \in 1..d
      BY <2>2
    <3> HIDE DEF i, S
    <3>2. b[i] = b[i + m]
      BY <3>1 DEF Walk
    <3> QED BY <3>2 DEF i
  <2>4. k + 1 \in S
    <3>1. b[1 + (k + 1) * m] = b[1]
      BY <2>2, <2>3, Zenon
    <3> QED BY <2>1, <3>1
  <2> HIDE DEF S
  <2> QED BY <1>2, <2>1, <2>4
<1>4. b[1 + n * m] = E[1 + n * m]
  <2> DEFINE i == 1 + n * m
  <2>1. i \in 1..d /\ i \notin A
    OBVIOUS
  <2> HIDE DEF i, S
  <2>2. b[i] = E[i]
    BY <2>1 DEF Walk
  <2> QED BY <2>2 DEF i
<1>5. b[1 + n * m] = b[1]
  BY <1>3
<1> QED BY <1>4, <1>5, Zenon

\* A walk over whole exchanges is decided behind the last of them.
Standing(s, d) == {i \in 1..d : Stands(s, i, Exchange)}

LEMMA WalkIsDecided ==
  ASSUME NEW s \in Seq(Tag), NEW d \in Nat, d >= Len(s) + Len(Exchange), NEW E,
         NEW k, Behind(s, k)
  PROVE  /\ \E b : Walk(b, d, Len(Exchange), Standing(s, d), E)
         /\ \A b : Walk(b, d, Len(Exchange), Standing(s, d), E)
                     => b[1] = E[k * Len(Exchange) + 1]
<1> DEFINE L == Len(Exchange)
           p == k * L + 1
           A == Standing(s, d)
<1>1. L \in {4, 6} /\ L \in Nat \ {0} /\ Len(s) \in Nat
  BY ExchangeTags
<1>2. A \in SUBSET (1..d) /\ \A i \in A : i + L \in 1..d
  BY <1>1 DEF Stands, Standing
<1>3. /\ k \in 0..Len(s) /\ Exchanges(s, k) /\ ~Exchanges(s, k + 1)
      /\ \A j \in 0..k : Exchanges(s, j)
  BY Zenon DEF Behind
<1>4. Reached(p, d, L, A)
  <2>1. k \in Nat /\ k * L \in Nat /\ k * L <= Len(s)
    BY <1>1, <1>3 DEF Exchanges
  <2>2. p \in (1..d) \ A
    <3>1. ~Stands(s, k * L + 1, Exchange)
      BY <1>3, <2>1, NextExchange
    <3>2. p \in 1..d
      BY <1>1, <2>1
    <3> QED BY <3>1, <3>2 DEF Standing
  <2>3. ASSUME NEW j \in 0..k, j < k PROVE j * L + 1 \in A
    <3>1. j \in Nat /\ j + 1 \in 0..k
      BY <2>1, <2>3
    <3>2. Stands(s, j * L + 1, Exchange)
      BY <1>3, <3>1, NextExchange
    <3>3. j * L + 1 \in 1..d
      <4>1. j * L \in Nat /\ j * L + 1 + L - 1 <= Len(s)
        BY <1>1, <3>1, <3>2 DEF Stands
      <4> QED BY <1>1, <4>1
    <3> QED BY <3>2, <3>3 DEF Standing
  <2> HIDE DEF L
  <2>4. p = 1 + k * L /\ \A j \in 0..k : 1 + j * L = j * L + 1
    BY <1>1, <2>1
  <2> HIDE DEF p
  <2> QED BY <2>1, <2>2, <2>3, <2>4 DEF Reached
<1> HIDE DEF L, p, A
<1>5. \E b : Walk(b, d, L, A, E)
  BY <1>1, <1>2, WalkExists
<1>6. ASSUME NEW b, Walk(b, d, L, A, E) PROVE b[1] = E[p]
  <2>1. L \in Nat \ {0} /\ A \in SUBSET (1..d)
    BY <1>1, <1>2
  <2>2. Walk(b, d, L, A, E) /\ Reached(p, d, L, A)
    BY <1>4, <1>6
  <2> QED BY <2>1, <2>2, WalkEnds, SMT
<1> QED BY <1>5, <1>6 DEF L, p, A

\* What is left of a response, and what may be left of it.
LEMMA RestIs ==
  ASSUME NEW s \in Seq(Tag), NEW i \in 1..(Len(s) + 1), NEW v \in Seq(Tag)
  PROVE  SubSeq(s, i, Len(s)) = v <=> i + Len(v) - 1 = Len(s) /\ Stands(s, i, v)
<1> DEFINE u == SubSeq(s, i, Len(s))
<1>1. /\ u \in Seq(Tag) /\ Len(u) = Len(s) - i + 1 /\ Len(s) \in Nat /\ Len(v) \in Nat
      /\ \A l \in 1..Len(u) : u[l] = s[i + l - 1]
  OBVIOUS
<1> HIDE DEF u
<1>2. ASSUME u = v PROVE i + Len(v) - 1 = Len(s) /\ Stands(s, i, v)
  BY <1>1, <1>2 DEF Stands
<1>3. ASSUME i + Len(v) - 1 = Len(s), Stands(s, i, v) PROVE u = v
  <2>1. Len(u) = Len(v) /\ \A l \in 1..Len(u) : u[l] = v[l]
    BY <1>1, <1>3 DEF Stands
  <2> QED BY <1>1, <2>1, SeqEqual
<1> QED BY <1>2, <1>3 DEF u

LEMMA ShortRests ==
  ASSUME NEW s \in Seq(Tag), NEW i \in 1..(Len(s) + 1)
  PROVE  LET u == SubSeq(s, i, Len(s)) IN
         /\ u = <<>> <=> i = Len(s) + 1
         /\ \A a \in Tag : u = <<a>> <=> i = Len(s) /\ s[i] = a
         /\ \A a, b \in Tag : u = <<a, b>> <=> i + 1 = Len(s) /\ s[i] = a /\ s[i + 1] = b
         /\ \A a, b, c \in Tag :
              u = <<a, b, c>> <=> i + 2 = Len(s) /\ s[i] = a /\ s[i + 1] = b /\ s[i + 2] = c
<1> DEFINE u == SubSeq(s, i, Len(s))
           n == Len(s)
<1>1. n \in Nat /\ i \in Nat /\ i + 1 - 1 = i /\ i + 2 - 1 = i + 1 /\ i + 3 - 1 = i + 2
      /\ i + 0 - 1 = i - 1 /\ i <= n + 1 /\ 0 < i
  OBVIOUS
<1>2. \A v \in Seq(Tag) : u = v <=> i + Len(v) - 1 = n /\ Stands(s, i, v)
  BY RestIs
<1> HIDE DEF u, n
<1>3. u = <<>> <=> i = n + 1
  <2>1. <<>> \in Seq(Tag) /\ Len(<<>>) = 0
    OBVIOUS
  <2>2. u = <<>> <=> i + 0 - 1 = n /\ Stands(s, i, <<>>)
    BY <1>2, <2>1
  <2>3. i + 0 - 1 = n => Stands(s, i, <<>>)
    BY <1>1, <2>1 DEF Stands, n
  <2> QED BY <1>1, <2>2, <2>3
<1>4. ASSUME NEW a \in Tag PROVE u = <<a>> <=> i = n /\ s[i] = a
  <2>1. <<a>> \in Seq(Tag) /\ Len(<<a>>) = 1 /\ <<a>>[1] = a
    OBVIOUS
  <2>2. i = n => (Stands(s, i, <<a>>) <=> s[i] = a)
    BY <1>1, <2>1 DEF Stands, n
  <2> QED BY <1>1, <1>2, <2>1, <2>2
<1>5. ASSUME NEW a \in Tag, NEW b \in Tag
      PROVE  u = <<a, b>> <=> i + 1 = n /\ s[i] = a /\ s[i + 1] = b
  <2>1. <<a, b>> \in Seq(Tag) /\ Len(<<a, b>>) = 2 /\ <<a, b>>[1] = a /\ <<a, b>>[2] = b
    OBVIOUS
  <2>2. i + 1 = n => (Stands(s, i, <<a, b>>) <=> s[i] = a /\ s[i + 1] = b)
    BY <1>1, <2>1 DEF Stands, n
  <2> QED BY <1>1, <1>2, <2>1, <2>2
<1>6. ASSUME NEW a \in Tag, NEW b \in Tag, NEW c \in Tag
      PROVE  u = <<a, b, c>> <=> i + 2 = n /\ s[i] = a /\ s[i + 1] = b /\ s[i + 2] = c
  <2>1. /\ <<a, b, c>> \in Seq(Tag) /\ Len(<<a, b, c>>) = 3
        /\ <<a, b, c>>[1] = a /\ <<a, b, c>>[2] = b /\ <<a, b, c>>[3] = c
    OBVIOUS
  <2>2. i + 2 = n => (Stands(s, i, <<a, b, c>>) <=> s[i] = a /\ s[i + 1] = b /\ s[i + 2] = c)
    BY <1>1, <2>1 DEF Stands, n
  <2> QED BY <1>1, <1>2, <2>1, <2>2
<1> QED BY <1>3, <1>4, <1>5, <1>6 DEF u, n

\* The inner loop has found the whole cycle, or the two tags left.
LEMMA MatchedAll ==
  ASSUME NEW s \in Seq(Tag), NEW i \in 1..Len(s), NEW c \in Seq(Tag)
  PROVE  /\ Matched(s, i, c) <= Len(c)
         /\ Matched(s, i, c) \in Nat
         /\ Matched(s, i, c) = Len(c) <=> Stands(s, i, c)
<1>1. SubSeq(c, 1, Len(c)) = c /\ Len(c) \in 0..Len(c) /\ Len(c) \in Nat
  OBVIOUS
<1> DEFINE j == Matched(s, i, c)
<1>2. /\ j \in 0..Len(c) /\ Stands(s, i, SubSeq(c, 1, j))
      /\ \A q \in 0..Len(c) : Stands(s, i, SubSeq(c, 1, q)) => q <= j
  BY MatchedIs
<1> HIDE DEF j
<1>3. j = Len(c) => Stands(s, i, c)
  BY <1>1, <1>2
<1>4. Stands(s, i, c) => Len(c) <= j
  BY <1>1, <1>2
<1> QED BY <1>1, <1>2, <1>3, <1>4 DEF j

LEMMA MatchedTwo ==
  ASSUME NEW s \in Seq(Tag), NEW i \in 1..Len(s), i + 1 = Len(s),
         NEW c \in Seq(Tag), Len(c) > 2
  PROVE  Matched(s, i, c) = 2 <=> s[i] = c[1] /\ s[i + 1] = c[2]
<1> DEFINE j == Matched(s, i, c)
<1>1. /\ j \in 0..Len(c) /\ Stands(s, i, SubSeq(c, 1, j))
      /\ \A q \in 0..Len(c) : Stands(s, i, SubSeq(c, 1, q)) => q <= j
  BY MatchedIs
<1>2. /\ Len(SubSeq(c, 1, 2)) = 2 /\ SubSeq(c, 1, 2)[1] = c[1] /\ SubSeq(c, 1, 2)[2] = c[2]
      /\ 2 \in 0..Len(c) /\ Len(c) \in Nat /\ i \in Nat
  OBVIOUS
<1>3. Len(SubSeq(c, 1, j)) = j
  BY <1>1
<1> HIDE DEF j
<1>4. j <= 2
  BY <1>1, <1>2, <1>3 DEF Stands
<1>5. Stands(s, i, SubSeq(c, 1, 2)) <=> s[i] = c[1] /\ s[i + 1] = c[2]
  <2> DEFINE v == SubSeq(c, 1, 2)
  <2> HIDE DEF v
  <2>1. Len(v) = 2 /\ v[1] = c[1] /\ v[2] = c[2]
    BY <1>2 DEF v
  <2>2. i + Len(v) - 1 <= Len(s) /\ i + 1 - 1 = i /\ i + 2 - 1 = i + 1
    BY <1>2, <2>1
  <2>3. Stands(s, i, v) <=> s[i] = v[1] /\ s[i + 1] = v[2]
    BY <2>1, <2>2 DEF Stands
  <2> QED BY <2>1, <2>3 DEF v
<1>6. j = 2 => Stands(s, i, SubSeq(c, 1, 2))
  BY <1>1
<1>7. Stands(s, i, SubSeq(c, 1, 2)) => 2 <= j
  BY <1>1, <1>2
<1> QED BY <1>1, <1>4, <1>5, <1>6, <1>7 DEF j

\* The cycles are the exchanges, without the tag the flat walk has looked at.
LEMMA Cycles ==
  /\ FlatCycle \in Seq(Tag) /\ Len(FlatCycle) = 5
  /\ FlatCycle[1] = "<request>" /\ FlatCycle[2] = "</request>"
  /\ NestedCycle \in Seq(Tag) /\ Len(NestedCycle) = 4
  /\ NestedCycle[1] = "<request>" /\ NestedCycle[2] = "</request>"
  /\ Nested => Exchange = NestedCycle
  /\ ~Nested => /\ Len(Exchange) = 6 /\ Exchange[1] = "</think>"
                /\ \A l \in 1..5 : Exchange[l + 1] = FlatCycle[l]
<1>1. /\ FlatCycle \in Seq(Tag) /\ Len(FlatCycle) = 5
      /\ FlatCycle[1] = "<request>" /\ FlatCycle[2] = "</request>"
      /\ FlatCycle[3] = "<response>" /\ FlatCycle[4] = "</response>" /\ FlatCycle[5] = "<think>"
  BY DEF FlatCycle, Tag
<1>2. /\ NestedCycle \in Seq(Tag) /\ Len(NestedCycle) = 4
      /\ NestedCycle[1] = "<request>" /\ NestedCycle[2] = "</request>"
      /\ NestedCycle[3] = "<response>" /\ NestedCycle[4] = "</response>"
  BY DEF NestedCycle, Tag
<1>3. ASSUME Nested PROVE Exchange = NestedCycle
  <2>1. /\ Len(Ask) = 2 /\ Ask[1] = "<request>" /\ Ask[2] = "</request>"
        /\ Len(Reply) = 2 /\ Reply[1] = "<response>" /\ Reply[2] = "</response>"
    BY <1>3 DEF Ask, Reply
  <2>2. Len(Exchange) = 4 /\ Exchange \in Seq(Tag)
    BY <2>1, ExchangeTags
  <2>3. Exchange[1] = Ask[1] /\ Exchange[2] = Ask[2] /\ Exchange[3] = Reply[1] /\ Exchange[4] = Reply[2]
    BY <2>1, <2>2, ExchangeTags
  <2> HIDE DEF Exchange, NestedCycle
  <2> QED BY <1>2, <2>1, <2>2, <2>3, SeqEqual
<1>4. ASSUME ~Nested
      PROVE  /\ Len(Exchange) = 6 /\ Exchange[1] = "</think>"
             /\ \A l \in 1..5 : Exchange[l + 1] = FlatCycle[l]
  <2>1. /\ Len(Ask) = 3 /\ Ask[1] = "</think>" /\ Ask[2] = "<request>" /\ Ask[3] = "</request>"
        /\ Len(Reply) = 3 /\ Reply[1] = "<response>" /\ Reply[2] = "</response>"
        /\ Reply[3] = "<think>"
    BY <1>4 DEF Ask, Reply
  <2>2. Len(Exchange) = 6
    BY <2>1, ExchangeTags
  <2>3. /\ Exchange[1] = Ask[1] /\ Exchange[2] = Ask[2] /\ Exchange[3] = Ask[3]
        /\ Exchange[4] = Reply[1] /\ Exchange[5] = Reply[2] /\ Exchange[6] = Reply[3]
    BY <2>1, <2>2, ExchangeTags
  <2>4. ASSUME NEW l \in 1..5 PROVE Exchange[l + 1] = FlatCycle[l]
    <3>1. l \in {1, 2, 3, 4, 5}
      OBVIOUS
    <3> QED BY <1>1, <2>1, <2>3, <3>1
  <2> QED BY <2>1, <2>2, <2>3, <2>4
<1> QED BY <1>1, <1>2, <1>3, <1>4

\* An exchange as the walks look for it.
LEMMA StandsFlat ==
  ASSUME NEW s \in Seq(Tag), NEW i \in Nat \ {0}, ~Nested
  PROVE  Stands(s, i, Exchange) <=>
           i + 1 <= Len(s) /\ s[i] = "</think>" /\ s[i + 1] = "<request>"
             /\ Matched(s, i + 1, FlatCycle) = 5
<1> USE Cycles
<1>1. Len(s) \in Nat
  OBVIOUS
<1>2. ASSUME i + 1 <= Len(s)
      PROVE  Matched(s, i + 1, FlatCycle) = 5 <=> Stands(s, i + 1, FlatCycle)
  <2>1. i + 1 \in 1..Len(s)
    BY <1>1, <1>2
  <2> QED BY <2>1, MatchedAll
<1>3. Stands(s, i + 1, FlatCycle) <=> i + 1 + 5 - 1 <= Len(s)
        /\ \A l \in 1..5 : s[i + 1 + l - 1] = FlatCycle[l]
  BY DEF Stands
<1>4. Stands(s, i, Exchange) <=> i + 6 - 1 <= Len(s)
        /\ \A l \in 1..6 : s[i + l - 1] = Exchange[l]
  BY DEF Stands
<1>5. ASSUME Stands(s, i, Exchange)
      PROVE  i + 1 <= Len(s) /\ s[i] = "</think>" /\ s[i + 1] = "<request>"
             /\ Stands(s, i + 1, FlatCycle)
  <2>1. i + 6 - 1 <= Len(s) /\ \A l \in 1..6 : s[i + l - 1] = Exchange[l]
    BY <1>4, <1>5
  <2>2. ASSUME NEW l \in 1..5 PROVE s[i + 1 + l - 1] = FlatCycle[l]
    <3>1. l + 1 \in 1..6 /\ i + (l + 1) - 1 = i + 1 + l - 1
      OBVIOUS
    <3> QED BY <2>1, <3>1
  <2>3. i + 1 - 1 = i /\ i + 1 + 1 - 1 = i + 1
    OBVIOUS
  <2> QED BY <1>1, <1>3, <2>1, <2>2, <2>3
<1>6. ASSUME i + 1 <= Len(s), s[i] = "</think>", Stands(s, i + 1, FlatCycle)
      PROVE  Stands(s, i, Exchange)
  <2>1. ASSUME NEW l \in 1..6 PROVE s[i + l - 1] = Exchange[l]
    <3>1. CASE l = 1
      BY <1>6, <3>1
    <3>2. CASE l # 1
      <4>1. PICK h \in 1..5 : l = h + 1 /\ i + l - 1 = i + 1 + h - 1
        <5>1. l - 1 \in 1..5 /\ l = (l - 1) + 1 /\ i + l - 1 = i + 1 + (l - 1) - 1
          BY <3>2
        <5> QED BY <5>1
      <4> QED BY <1>3, <1>6, <4>1
    <3> QED BY <3>1, <3>2
  <2> QED BY <1>1, <1>3, <1>4, <1>6, <2>1
<1> QED BY <1>2, <1>5, <1>6

LEMMA StandsNested ==
  ASSUME NEW s \in Seq(Tag), NEW i \in Nat \ {0}, Nested
  PROVE  Stands(s, i, Exchange) <=>
           i <= Len(s) /\ s[i] = "<request>" /\ Matched(s, i, NestedCycle) = 4
<1> USE Cycles
<1>1. Len(s) \in Nat
  OBVIOUS
<1>2. ASSUME i <= Len(s)
      PROVE  Matched(s, i, NestedCycle) = 4 <=> Stands(s, i, NestedCycle)
  <2>1. i \in 1..Len(s)
    BY <1>1, <1>2
  <2> QED BY <2>1, MatchedAll
<1>3. Stands(s, i, NestedCycle) <=> i + 4 - 1 <= Len(s)
        /\ \A l \in 1..4 : s[i + l - 1] = NestedCycle[l]
  BY DEF Stands
<1>4. Stands(s, i, NestedCycle) => i <= Len(s) /\ s[i] = "<request>"
  <2>1. 1 \in 1..4 /\ i + 1 - 1 = i
    OBVIOUS
  <2> QED BY <1>1, <1>3, <2>1
<1> QED BY <1>2, <1>4

\* One step of each walk, when f tells what the walk says further on.
FlatLook(s, f, i) ==
  IF i + 1 > Len(s) \/ s[i] # "</think>" THEN TRUE
  ELSE IF s[i + 1] = "<request>"
       THEN IF Matched(s, i + 1, FlatCycle) < 5 THEN TRUE ELSE f[i + 6]
  ELSE IF s[i + 1] = "<answer>"
       THEN i + 2 > Len(s) \/ s[i + 2] # "</answer>" \/ i + 2 # Len(s)
  ELSE s[i + 1] # "<abstain>" \/ i + 1 # Len(s)

NestedLook(s, f, i) ==
  IF i <= Len(s) /\ s[i] = "<request>"
  THEN IF Matched(s, i, NestedCycle) < 4 THEN TRUE ELSE f[i + 4]
  ELSE IF i + 1 > Len(s) \/ s[i] # "</think>" THEN TRUE
  ELSE IF s[i + 1] = "<answer>"
       THEN i + 2 > Len(s) \/ s[i + 2] # "</answer>" \/ i + 2 # Len(s)
  ELSE s[i + 1] # "<abstain>" \/ i + 1 # Len(s)

FlatReach(s, f, i) ==
  IF i + 1 > Len(s) \/ s[i] # "</think>" \/ s[i + 1] # "<request>" THEN Terminal(s, i)
  ELSE LET j == Matched(s, i + 1, FlatCycle) IN
       IF j = 5 THEN f[i + 6]
       ELSE IF j = 2 /\ i + 2 = Len(s)
       THEN <<"<response>", "</response>", "<think>", "</think>", "<answer>">>
       ELSE NoScaffold

NestedReach(s, f, i) ==
  IF i > Len(s) \/ s[i] # "<request>" THEN Terminal(s, i)
  ELSE LET j == Matched(s, i, NestedCycle) IN
       IF j = 4 THEN f[i + 4]
       ELSE IF j = 2 /\ i + 1 = Len(s)
       THEN <<"<response>", "</response>", "</think>", "<answer>">>
       ELSE NoScaffold

\* What they say where no exchange stands.
NoEnding(s, i) ==
  IF i + 1 > Len(s) \/ s[i] # "</think>" THEN TRUE
  ELSE IF s[i + 1] = "<answer>"
       THEN i + 2 > Len(s) \/ s[i + 2] # "</answer>" \/ i + 2 # Len(s)
  ELSE s[i + 1] # "<abstain>" \/ i + 1 # Len(s)

Asked(s, i) == /\ i + Len(Ask) - 1 = Len(s)
               /\ Stands(s, i, Ask)

Opening(s, i) ==
  IF Asked(s, i) THEN Reply \o <<"</think>", "<answer>">> ELSE Terminal(s, i)

\* Where an exchange stands each walk goes on behind it, and nowhere else.
LEMMA FlatLooks ==
  ASSUME NEW s \in Seq(Tag), NEW f, NEW i \in Nat \ {0}, ~Nested
  PROVE  FlatLook(s, f, i) = IF Stands(s, i, Exchange) THEN f[i + 6] ELSE NoEnding(s, i)
<1> DEFINE S == Stands(s, i, Exchange)
<1>1. S <=> i + 1 <= Len(s) /\ s[i] = "</think>" /\ s[i + 1] = "<request>"
              /\ Matched(s, i + 1, FlatCycle) = 5
  BY StandsFlat
<1>2. ASSUME i + 1 <= Len(s)
      PROVE  Matched(s, i + 1, FlatCycle) \in Nat /\ Matched(s, i + 1, FlatCycle) <= 5
  <2>1. i + 1 \in 1..Len(s)
    BY <1>2
  <2> QED BY <2>1, MatchedAll, Cycles
<1>3. Len(s) \in Nat
  OBVIOUS
<1> HIDE DEF S
<1>4. CASE i + 1 > Len(s) \/ s[i] # "</think>"
  <2>1. ~S
    BY <1>1, <1>3, <1>4
  <2>2. FlatLook(s, f, i) = NoEnding(s, i)
    BY <1>4 DEF FlatLook, NoEnding
  <2> QED BY <2>1, <2>2 DEF S
<1>5. CASE ~(i + 1 > Len(s) \/ s[i] # "</think>") /\ s[i + 1] = "<request>"
  <2>1. i + 1 <= Len(s) /\ (Matched(s, i + 1, FlatCycle) < 5 <=> ~S)
    BY <1>1, <1>2, <1>3, <1>5
  <2>2. FlatLook(s, f, i) = IF S THEN f[i + 6] ELSE TRUE
    BY <1>5, <2>1 DEF FlatLook
  <2>3. NoEnding(s, i) = TRUE
    BY <1>5 DEF NoEnding
  <2> QED BY <2>2, <2>3 DEF S
<1>6. CASE ~(i + 1 > Len(s) \/ s[i] # "</think>") /\ s[i + 1] # "<request>"
  <2>1. ~S
    BY <1>1, <1>6
  <2>2. FlatLook(s, f, i) = NoEnding(s, i)
    BY <1>6 DEF FlatLook, NoEnding
  <2> QED BY <2>1, <2>2 DEF S
<1> QED BY <1>4, <1>5, <1>6 DEF S

LEMMA NestedLooks ==
  ASSUME NEW s \in Seq(Tag), NEW f, NEW i \in Nat \ {0}, Nested
  PROVE  NestedLook(s, f, i) = IF Stands(s, i, Exchange) THEN f[i + 4] ELSE NoEnding(s, i)
<1> DEFINE S == Stands(s, i, Exchange)
<1>1. S <=> i <= Len(s) /\ s[i] = "<request>" /\ Matched(s, i, NestedCycle) = 4
  BY StandsNested
<1>2. ASSUME i <= Len(s)
      PROVE  Matched(s, i, NestedCycle) \in Nat /\ Matched(s, i, NestedCycle) <= 4
  <2>1. i \in 1..Len(s)
    BY <1>2
  <2> QED BY <2>1, MatchedAll, Cycles
<1> HIDE DEF S
<1>3. CASE i <= Len(s) /\ s[i] = "<request>"
  <2>1. Matched(s, i, NestedCycle) < 4 <=> ~S
    BY <1>1, <1>2, <1>3
  <2>2. NestedLook(s, f, i) = IF S THEN f[i + 4] ELSE TRUE
    BY <1>3, <2>1 DEF NestedLook
  <2>3. NoEnding(s, i) = TRUE
    BY <1>3 DEF NoEnding
  <2> QED BY <2>2, <2>3 DEF S
<1>4. CASE ~(i <= Len(s) /\ s[i] = "<request>")
  <2>1. ~S
    BY <1>1, <1>4
  <2>2. NestedLook(s, f, i) = NoEnding(s, i)
    BY <1>4 DEF NestedLook, NoEnding
  <2> QED BY <2>1, <2>2 DEF S
<1> QED BY <1>3, <1>4 DEF S

\* The reply and the opened answer, tag by tag.
LEMMA ThreeAndTwo ==
  ASSUME NEW a \in Tag, NEW b \in Tag, NEW c \in Tag, NEW d \in Tag, NEW e \in Tag
  PROVE  <<a, b, c>> \o <<d, e>> = <<a, b, c, d, e>>
<1> DEFINE p == <<a, b, c>> \o <<d, e>>
<1>1. <<a, b, c>> \in Seq(Tag) /\ <<d, e>> \in Seq(Tag) /\ <<a, b, c, d, e>> \in Seq(Tag)
  OBVIOUS
<1>2. p \in Seq(Tag) /\ Len(p) = 5
      /\ p[1] = a /\ p[2] = b /\ p[3] = c /\ p[4] = d /\ p[5] = e
  BY <1>1
<1> HIDE DEF p
<1>3. Len(<<a, b, c, d, e>>) = 5 /\ \A i \in 1..5 : p[i] = <<a, b, c, d, e>>[i]
  BY <1>2
<1>4. p = <<a, b, c, d, e>>
  BY <1>1, <1>2, <1>3, SeqEqual
<1> QED BY <1>4 DEF p

LEMMA TwoAndTwo ==
  ASSUME NEW a \in Tag, NEW b \in Tag, NEW c \in Tag, NEW d \in Tag
  PROVE  <<a, b>> \o <<c, d>> = <<a, b, c, d>>
<1> DEFINE p == <<a, b>> \o <<c, d>>
<1>1. <<a, b>> \in Seq(Tag) /\ <<c, d>> \in Seq(Tag) /\ <<a, b, c, d>> \in Seq(Tag)
  OBVIOUS
<1>2. p \in Seq(Tag) /\ Len(p) = 4
      /\ p[1] = a /\ p[2] = b /\ p[3] = c /\ p[4] = d
  BY <1>1
<1> HIDE DEF p
<1>3. Len(<<a, b, c, d>>) = 4 /\ \A i \in 1..4 : p[i] = <<a, b, c, d>>[i]
  BY <1>2
<1>4. p = <<a, b, c, d>>
  BY <1>1, <1>2, <1>3, SeqEqual
<1> QED BY <1>4 DEF p

LEMMA ReplyThenOpening ==
  Reply \o <<"</think>", "<answer>">> =
    IF Nested THEN <<"<response>", "</response>", "</think>", "<answer>">>
    ELSE <<"<response>", "</response>", "<think>", "</think>", "<answer>">>
<1>1. {"<response>", "</response>", "<think>", "</think>", "<answer>"} \subseteq Tag
  BY DEF Tag
<1>2. CASE Nested
  BY <1>1, <1>2, TwoAndTwo DEF Reply
<1>3. CASE ~Nested
  BY <1>1, <1>3, ThreeAndTwo DEF Reply
<1> QED BY <1>2, <1>3

\* A request or a reply cut there is not one of the three terminal cuts.
LEMMA TerminalElsewhere ==
  ASSUME NEW s \in Seq(Tag), NEW i \in Nat \ {0},
         \/ i <= Len(s) /\ s[i] = "<request>"
         \/ i + 1 <= Len(s) /\ s[i] = "</think>" /\ s[i + 1] = "<request>"
  PROVE  Terminal(s, i) = NoScaffold
<1>1. Len(s) \in Nat
  OBVIOUS
<1>2. /\ ~(i = Len(s) + 1)
      /\ ~(i = Len(s) /\ s[i] = "</think>")
      /\ ~(i + 1 = Len(s) /\ s[i] = "</think>" /\ s[i + 1] = "<answer>")
  BY <1>1
<1> QED BY <1>2 DEF Terminal

\* A scaffold's walk goes on behind an exchange too; else it opens an answer
\* behind a request that is all that is left, or as Terminal says.
LEMMA FlatReaches ==
  ASSUME NEW s \in Seq(Tag), NEW f, NEW i \in Nat \ {0}, ~Nested
  PROVE  FlatReach(s, f, i) = IF Stands(s, i, Exchange) THEN f[i + 6] ELSE Opening(s, i)
<1> DEFINE S == Stands(s, i, Exchange)
           j == Matched(s, i + 1, FlatCycle)
           D == <<"<response>", "</response>", "<think>", "</think>", "<answer>">>
<1>1. S <=> i + 1 <= Len(s) /\ s[i] = "</think>" /\ s[i + 1] = "<request>" /\ j = 5
  BY StandsFlat
<1>2. Len(s) \in Nat
  OBVIOUS
<1>3. Asked(s, i) <=> i + 2 = Len(s) /\ s[i] = "</think>" /\ s[i + 1] = "<request>"
                        /\ s[i + 2] = "</request>"
  <2>1. /\ Len(Ask) = 3 /\ Ask[1] = "</think>" /\ Ask[2] = "<request>" /\ Ask[3] = "</request>"
    BY DEF Ask
  <2>2. i + 1 - 1 = i /\ i + 2 - 1 = i + 1 /\ i + 3 - 1 = i + 2
    OBVIOUS
  <2>3. Stands(s, i, Ask) <=> i + 2 <= Len(s) /\ s[i] = "</think>" /\ s[i + 1] = "<request>"
                                /\ s[i + 2] = "</request>"
    BY <2>1, <2>2 DEF Stands
  <2> QED BY <1>2, <2>1, <2>2, <2>3 DEF Asked
<1>4. ASSUME i + 2 = Len(s), s[i + 1] = "<request>" PROVE j = 2 <=> s[i + 2] = "</request>"
  <2>1. i + 1 \in 1..Len(s) /\ (i + 1) + 1 = Len(s) /\ (i + 1) + 1 = i + 2
    BY <1>2, <1>4
  <2>2. /\ FlatCycle \in Seq(Tag) /\ Len(FlatCycle) > 2
        /\ FlatCycle[1] = "<request>" /\ FlatCycle[2] = "</request>"
    BY Cycles
  <2> HIDE DEF j
  <2>3. j = 2 <=> s[i + 1] = FlatCycle[1] /\ s[(i + 1) + 1] = FlatCycle[2]
    BY <2>1, <2>2, MatchedTwo DEF j
  <2> QED BY <1>4, <2>1, <2>2, <2>3
<1>5. Reply \o <<"</think>", "<answer>">> = D
  BY ReplyThenOpening
<1> HIDE DEF S, j, D
<1>6. CASE i + 1 > Len(s) \/ s[i] # "</think>" \/ s[i + 1] # "<request>"
  <2>1. ~S /\ ~Asked(s, i)
    BY <1>1, <1>2, <1>3, <1>6
  <2>2. FlatReach(s, f, i) = Terminal(s, i)
    BY <1>6 DEF FlatReach
  <2> QED BY <2>1, <2>2 DEF S, Opening
<1>7. CASE i + 1 <= Len(s) /\ s[i] = "</think>" /\ s[i + 1] = "<request>"
  <2>1. FlatReach(s, f, i) = IF j = 5 THEN f[i + 6]
                             ELSE IF j = 2 /\ i + 2 = Len(s) THEN D ELSE NoScaffold
    BY <1>2, <1>7 DEF FlatReach, j, D
  <2>2. Terminal(s, i) = NoScaffold
    BY <1>7, TerminalElsewhere
  <2>3. j = 5 <=> S
    BY <1>1, <1>7
  <2>4. (j = 2 /\ i + 2 = Len(s)) <=> Asked(s, i)
    BY <1>3, <1>4, <1>7
  <2>5. FlatReach(s, f, i) = IF S THEN f[i + 6] ELSE IF Asked(s, i) THEN D ELSE NoScaffold
    BY <2>1, <2>3, <2>4
  <2> QED BY <1>5, <2>2, <2>5 DEF S, Opening
<1> QED BY <1>2, <1>6, <1>7 DEF S

LEMMA NestedReaches ==
  ASSUME NEW s \in Seq(Tag), NEW f, NEW i \in Nat \ {0}, Nested
  PROVE  NestedReach(s, f, i) = IF Stands(s, i, Exchange) THEN f[i + 4] ELSE Opening(s, i)
<1> DEFINE S == Stands(s, i, Exchange)
           j == Matched(s, i, NestedCycle)
           D == <<"<response>", "</response>", "</think>", "<answer>">>
<1>1. S <=> i <= Len(s) /\ s[i] = "<request>" /\ j = 4
  BY StandsNested
<1>2. Len(s) \in Nat
  OBVIOUS
<1>3. Asked(s, i) <=> i + 1 = Len(s) /\ s[i] = "<request>" /\ s[i + 1] = "</request>"
  <2>1. /\ Len(Ask) = 2 /\ Ask[1] = "<request>" /\ Ask[2] = "</request>"
    BY DEF Ask
  <2>2. i + 1 - 1 = i /\ i + 2 - 1 = i + 1
    OBVIOUS
  <2>3. Stands(s, i, Ask) <=> i + 1 <= Len(s) /\ s[i] = "<request>" /\ s[i + 1] = "</request>"
    BY <2>1, <2>2 DEF Stands
  <2> QED BY <1>2, <2>1, <2>2, <2>3 DEF Asked
<1>4. ASSUME i + 1 = Len(s), s[i] = "<request>" PROVE j = 2 <=> s[i + 1] = "</request>"
  <2>1. i \in 1..Len(s)
    BY <1>2, <1>4
  <2>2. /\ NestedCycle \in Seq(Tag) /\ Len(NestedCycle) > 2
        /\ NestedCycle[1] = "<request>" /\ NestedCycle[2] = "</request>"
    BY Cycles
  <2> HIDE DEF j
  <2>3. j = 2 <=> s[i] = NestedCycle[1] /\ s[i + 1] = NestedCycle[2]
    BY <1>4, <2>1, <2>2, MatchedTwo DEF j
  <2> QED BY <1>4, <2>2, <2>3
<1>5. Reply \o <<"</think>", "<answer>">> = D
  BY ReplyThenOpening
<1> HIDE DEF S, j, D
<1>6. CASE i > Len(s) \/ s[i] # "<request>"
  <2>1. ~S /\ ~Asked(s, i)
    BY <1>1, <1>2, <1>3, <1>6
  <2>2. NestedReach(s, f, i) = Terminal(s, i)
    BY <1>6 DEF NestedReach
  <2> QED BY <2>1, <2>2 DEF S, Opening
<1>7. CASE i <= Len(s) /\ s[i] = "<request>"
  <2>1. NestedReach(s, f, i) = IF j = 4 THEN f[i + 4]
                               ELSE IF j = 2 /\ i + 1 = Len(s) THEN D ELSE NoScaffold
    BY <1>2, <1>7 DEF NestedReach, j, D
  <2>2. Terminal(s, i) = NoScaffold
    BY <1>7, TerminalElsewhere
  <2>3. j = 4 <=> S
    BY <1>1, <1>7
  <2>4. (j = 2 /\ i + 1 = Len(s)) <=> Asked(s, i)
    BY <1>3, <1>4, <1>7
  <2>5. NestedReach(s, f, i) = IF S THEN f[i + 4] ELSE IF Asked(s, i) THEN D ELSE NoScaffold
    BY <2>1, <2>3, <2>4
  <2> QED BY <1>5, <2>2, <2>5 DEF S, Opening
<1> QED BY <1>2, <1>6, <1>7 DEF S

\* At any position the walks look at what is left from there, and at nothing else.
LEMMA NoEndingIs ==
  ASSUME NEW s \in Seq(Tag), NEW i \in 1..(Len(s) + 1)
  PROVE  NoEnding(s, i) <=> SubSeq(s, i, Len(s)) \notin Ending
<1> DEFINE u == SubSeq(s, i, Len(s))
<1>1. {"</think>", "<answer>", "</answer>", "<abstain>"} \subseteq Tag
  BY DEF Tag
<1>2. /\ u = <<"</think>", "<abstain>">>
           <=> i + 1 = Len(s) /\ s[i] = "</think>" /\ s[i + 1] = "<abstain>"
      /\ u = <<"</think>", "<answer>", "</answer>">>
           <=> i + 2 = Len(s) /\ s[i] = "</think>" /\ s[i + 1] = "<answer>"
                 /\ s[i + 2] = "</answer>"
  <2>1. "</think>" \in Tag /\ "<answer>" \in Tag /\ "</answer>" \in Tag /\ "<abstain>" \in Tag
    BY <1>1
  <2>2. /\ \A a, b \in Tag : u = <<a, b>> <=> i + 1 = Len(s) /\ s[i] = a /\ s[i + 1] = b
        /\ \A a, b, c \in Tag :
             u = <<a, b, c>> <=> i + 2 = Len(s) /\ s[i] = a /\ s[i + 1] = b /\ s[i + 2] = c
    BY ShortRests, Zenon
  <2> HIDE DEF u
  <2> QED BY <2>1, <2>2, Zenon
<1>3. u \in Ending <=> \/ u = <<"</think>", "<abstain>">>
                       \/ u = <<"</think>", "<answer>", "</answer>">>
  BY DEF Ending
<1> HIDE DEF u
<1>4. Len(s) \in Nat /\ i \in Nat
  OBVIOUS
<1>5. NoEnding(s, i) <=>
        ~ \/ i + 1 = Len(s) /\ s[i] = "</think>" /\ s[i + 1] = "<abstain>"
          \/ i + 2 = Len(s) /\ s[i] = "</think>" /\ s[i + 1] = "<answer>"
               /\ s[i + 2] = "</answer>"
  BY <1>4 DEF NoEnding
<1> QED BY <1>2, <1>3, <1>5 DEF u

\* What is left is one of the cuts, or no answer can be opened.
LEMMA OpeningIs ==
  ASSUME NEW s \in Seq(Tag), NEW i \in 1..(Len(s) + 1)
  PROVE  /\ \A c \in Rescue : SubSeq(s, i, Len(s)) = c.cut => Opening(s, i) = c.add
         /\ (\A c \in Rescue : SubSeq(s, i, Len(s)) # c.cut) => Opening(s, i) = NoScaffold
<1> DEFINE u == SubSeq(s, i, Len(s))
           n == Len(s)
<1>1. {"</think>", "<answer>"} \subseteq Tag /\ Ask \in Seq(Tag)
  BY ExchangeTags DEF Tag
<1>2. /\ u = <<>> <=> i = n + 1
      /\ u = <<"</think>">> <=> i = n /\ s[i] = "</think>"
      /\ u = <<"</think>", "<answer>">>
           <=> i + 1 = n /\ s[i] = "</think>" /\ s[i + 1] = "<answer>"
  <2>1. "</think>" \in Tag /\ "<answer>" \in Tag
    BY <1>1
  <2> QED BY <2>1, ShortRests, Zenon
<1>3. u = Ask <=> Asked(s, i)
  BY <1>1, RestIs DEF Asked
<1>4. n \in Nat /\ i \in Nat
  OBVIOUS
<1>5. /\ Ask # <<>> /\ Ask # <<"</think>">> /\ Ask # <<"</think>", "<answer>">>
  BY DEF Ask
<1> HIDE DEF u, n
<1>6. CASE u = Ask
  <2>1. Opening(s, i) = Reply \o <<"</think>", "<answer>">>
    BY <1>3, <1>6 DEF Opening
  <2> QED BY <1>5, <1>6, <2>1 DEF Rescue, u, n
<1>7. CASE u = <<>>
  <2>1. Opening(s, i) = Terminal(s, i)
    BY <1>3, <1>5, <1>7 DEF Opening
  <2>2. /\ i = n + 1 /\ ~(i = n) /\ ~(i + 1 = n)
    BY <1>2, <1>4, <1>7
  <2>3. Terminal(s, i) = <<"</think>", "<answer>">>
    BY <2>2, Zenon DEF Terminal, n
  <2> QED BY <1>5, <1>7, <2>1, <2>3 DEF Rescue, u, n
<1>8. CASE u = <<"</think>">>
  <2>1. Opening(s, i) = Terminal(s, i)
    BY <1>3, <1>5, <1>8 DEF Opening
  <2>2. /\ i = n /\ s[i] = "</think>" /\ ~(i = n + 1) /\ ~(i + 1 = n)
    BY <1>2, <1>4, <1>8
  <2>3. Terminal(s, i) = <<"<answer>">>
    BY <2>2, Zenon DEF Terminal, n
  <2> QED BY <1>5, <1>8, <2>1, <2>3 DEF Rescue, u, n
<1>9. CASE u = <<"</think>", "<answer>">>
  <2>1. Opening(s, i) = Terminal(s, i)
    BY <1>3, <1>5, <1>9 DEF Opening
  <2>2. /\ i + 1 = n /\ s[i] = "</think>" /\ s[i + 1] = "<answer>" /\ ~(i = n + 1) /\ ~(i = n)
    BY <1>2, <1>4, <1>9
  <2>3. Terminal(s, i) = <<>>
    BY <2>2, Zenon DEF Terminal, n
  <2> QED BY <1>5, <1>9, <2>1, <2>3 DEF Rescue, u, n
<1>10. CASE u # Ask /\ u # <<>> /\ u # <<"</think>">> /\ u # <<"</think>", "<answer>">>
  <2>1. Opening(s, i) = Terminal(s, i)
    BY <1>3, <1>10 DEF Opening
  <2>2. /\ ~(i = n + 1)
        /\ ~(i = n /\ s[i] = "</think>")
        /\ ~(i + 1 = n /\ s[i] = "</think>" /\ s[i + 1] = "<answer>")
    BY <1>2, <1>10
  <2>3. Terminal(s, i) = NoScaffold
    BY <2>2, Zenon DEF Terminal, n
  <2> QED BY <1>10, <2>1, <2>3 DEF Rescue, u, n
<1> QED BY <1>6, <1>7, <1>8, <1>9, <1>10

\* Each walk's recursive function, at the first position.
LEMMA FlatMalformedIs ==
  ASSUME NEW s \in Seq(Tag), ~Nested, NEW k, Behind(s, k)
  PROVE  FlatMalformed(s) <=> ~Tight(s) \/ NoEnding(s, k * Len(Exchange) + 1)
<1> DEFINE d == Len(s) + 6
           A == Standing(s, d)
           E == [i \in 1..d |-> NoEnding(s, i)]
           p == k * Len(Exchange) + 1
           g == CHOOSE f : f = [i \in 1..d |-> FlatLook(s, f, i)]
<1>1. d \in Nat /\ Len(Exchange) = 6 /\ p \in 1..d
  <2>1. Len(s) \in Nat /\ Len(Exchange) = 6 /\ k \in Nat
    BY Cycles DEF Behind
  <2>2. k * Len(Exchange) <= Len(s)
    BY DEF Behind, Exchanges
  <2> QED BY <2>1, <2>2
<1>2. /\ \E f : Walk(f, d, Len(Exchange), A, E)
      /\ \A b : Walk(b, d, Len(Exchange), A, E) => b[1] = E[p]
  <2>1. d >= Len(s) + Len(Exchange)
    BY <1>1
  <2> HIDE DEF d, E
  <2> QED BY <1>1, <2>1, WalkIsDecided
<1>3. ASSUME NEW f PROVE Walk(f, d, Len(Exchange), A, E) <=> f = [i \in 1..d |-> FlatLook(s, f, i)]
  <2>1. ASSUME NEW i \in 1..d
        PROVE  FlatLook(s, f, i) = IF i \in A THEN f[i + 6] ELSE E[i]
    BY FlatLooks DEF Standing
  <2> HIDE DEF A, E
  <2>2. [i \in 1..d |-> FlatLook(s, f, i)] = [i \in 1..d |-> IF i \in A THEN f[i + 6] ELSE E[i]]
    BY <2>1
  <2> QED BY <1>1, <2>2 DEF Walk
<1>4. FlatMalformed(s) <=> ~Tight(s) \/ g[1]
  BY Zenon DEF FlatMalformed, FlatLook
<1>5. E[p] = NoEnding(s, p)
  BY <1>1
<1> HIDE DEF d, A, E, p
<1>6. g = [i \in 1..d |-> FlatLook(s, g, i)]
  BY <1>2, <1>3, Zenon
<1>7. g[1] = E[p]
  BY <1>2, <1>3, <1>6, Zenon
<1> QED BY <1>4, <1>5, <1>7 DEF p
LEMMA NestedMalformedIs ==
  ASSUME NEW s \in Seq(Tag), Nested, NEW k, Behind(s, k)
  PROVE  NestedMalformed(s) <=> ~Tight(s) \/ NoEnding(s, k * Len(Exchange) + 1)
<1> DEFINE d == Len(s) + 5
           A == Standing(s, d)
           E == [i \in 1..d |-> NoEnding(s, i)]
           p == k * Len(Exchange) + 1
           g == CHOOSE f : f = [i \in 1..d |-> NestedLook(s, f, i)]
<1>1. d \in Nat /\ Len(Exchange) = 4 /\ p \in 1..d
  <2>1. Len(s) \in Nat /\ Len(Exchange) = 4 /\ k \in Nat
    BY Cycles DEF Behind
  <2>2. k * Len(Exchange) <= Len(s)
    BY DEF Behind, Exchanges
  <2> QED BY <2>1, <2>2
<1>2. /\ \E f : Walk(f, d, Len(Exchange), A, E)
      /\ \A b : Walk(b, d, Len(Exchange), A, E) => b[1] = E[p]
  <2>1. d >= Len(s) + Len(Exchange)
    BY <1>1
  <2> HIDE DEF d, E
  <2> QED BY <1>1, <2>1, WalkIsDecided
<1>3. ASSUME NEW f PROVE Walk(f, d, Len(Exchange), A, E) <=> f = [i \in 1..d |-> NestedLook(s, f, i)]
  <2>1. ASSUME NEW i \in 1..d
        PROVE  NestedLook(s, f, i) = IF i \in A THEN f[i + 4] ELSE E[i]
    BY NestedLooks DEF Standing
  <2> HIDE DEF A, E
  <2>2. [i \in 1..d |-> NestedLook(s, f, i)] = [i \in 1..d |-> IF i \in A THEN f[i + 4] ELSE E[i]]
    BY <2>1
  <2> QED BY <1>1, <2>2 DEF Walk
<1>4. NestedMalformed(s) <=> ~Tight(s) \/ g[1]
  BY Zenon DEF NestedMalformed, NestedLook
<1>5. E[p] = NoEnding(s, p)
  BY <1>1
<1> HIDE DEF d, A, E, p
<1>6. g = [i \in 1..d |-> NestedLook(s, g, i)]
  BY <1>2, <1>3, Zenon
<1>7. g[1] = E[p]
  BY <1>2, <1>3, <1>6, Zenon
<1> QED BY <1>4, <1>5, <1>7 DEF p
LEMMA FlatScaffoldIs ==
  ASSUME NEW s \in Seq(Tag), ~Nested, NEW k, Behind(s, k)
  PROVE  FlatScaffold(s) = IF Tight(s) THEN Opening(s, k * Len(Exchange) + 1) ELSE NoScaffold
<1> DEFINE d == Len(s) + 6
           A == Standing(s, d)
           E == [i \in 1..d |-> Opening(s, i)]
           p == k * Len(Exchange) + 1
           g == CHOOSE f : f = [i \in 1..d |-> FlatReach(s, f, i)]
<1>1. d \in Nat /\ Len(Exchange) = 6 /\ p \in 1..d
  <2>1. Len(s) \in Nat /\ Len(Exchange) = 6 /\ k \in Nat
    BY Cycles DEF Behind
  <2>2. k * Len(Exchange) <= Len(s)
    BY DEF Behind, Exchanges
  <2> QED BY <2>1, <2>2
<1>2. /\ \E f : Walk(f, d, Len(Exchange), A, E)
      /\ \A b : Walk(b, d, Len(Exchange), A, E) => b[1] = E[p]
  <2>1. d >= Len(s) + Len(Exchange)
    BY <1>1
  <2> HIDE DEF d, E
  <2> QED BY <1>1, <2>1, WalkIsDecided
<1>3. ASSUME NEW f PROVE Walk(f, d, Len(Exchange), A, E) <=> f = [i \in 1..d |-> FlatReach(s, f, i)]
  <2>1. ASSUME NEW i \in 1..d
        PROVE  FlatReach(s, f, i) = IF i \in A THEN f[i + 6] ELSE E[i]
    BY FlatReaches DEF Standing
  <2> HIDE DEF A, E
  <2>2. [i \in 1..d |-> FlatReach(s, f, i)] = [i \in 1..d |-> IF i \in A THEN f[i + 6] ELSE E[i]]
    BY <2>1
  <2> QED BY <1>1, <2>2 DEF Walk
<1>4. FlatScaffold(s) = IF Tight(s) THEN g[1] ELSE NoScaffold
  BY Zenon DEF FlatScaffold, FlatReach
<1>5. E[p] = Opening(s, p)
  BY <1>1
<1> HIDE DEF d, A, E, p
<1>6. g = [i \in 1..d |-> FlatReach(s, g, i)]
  BY <1>2, <1>3, Zenon
<1>7. g[1] = E[p]
  BY <1>2, <1>3, <1>6, Zenon
<1> QED BY <1>4, <1>5, <1>7 DEF p
LEMMA NestedScaffoldIs ==
  ASSUME NEW s \in Seq(Tag), Nested, NEW k, Behind(s, k)
  PROVE  NestedScaffold(s) = IF Tight(s) THEN Opening(s, k * Len(Exchange) + 1) ELSE NoScaffold
<1> DEFINE d == Len(s) + 5
           A == Standing(s, d)
           E == [i \in 1..d |-> Opening(s, i)]
           p == k * Len(Exchange) + 1
           g == CHOOSE f : f = [i \in 1..d |-> NestedReach(s, f, i)]
<1>1. d \in Nat /\ Len(Exchange) = 4 /\ p \in 1..d
  <2>1. Len(s) \in Nat /\ Len(Exchange) = 4 /\ k \in Nat
    BY Cycles DEF Behind
  <2>2. k * Len(Exchange) <= Len(s)
    BY DEF Behind, Exchanges
  <2> QED BY <2>1, <2>2
<1>2. /\ \E f : Walk(f, d, Len(Exchange), A, E)
      /\ \A b : Walk(b, d, Len(Exchange), A, E) => b[1] = E[p]
  <2>1. d >= Len(s) + Len(Exchange)
    BY <1>1
  <2> HIDE DEF d, E
  <2> QED BY <1>1, <2>1, WalkIsDecided
<1>3. ASSUME NEW f PROVE Walk(f, d, Len(Exchange), A, E) <=> f = [i \in 1..d |-> NestedReach(s, f, i)]
  <2>1. ASSUME NEW i \in 1..d
        PROVE  NestedReach(s, f, i) = IF i \in A THEN f[i + 4] ELSE E[i]
    BY NestedReaches DEF Standing
  <2> HIDE DEF A, E
  <2>2. [i \in 1..d |-> NestedReach(s, f, i)] = [i \in 1..d |-> IF i \in A THEN f[i + 4] ELSE E[i]]
    BY <2>1
  <2> QED BY <1>1, <2>2 DEF Walk
<1>4. NestedScaffold(s) = IF Tight(s) THEN g[1] ELSE NoScaffold
  BY Zenon DEF NestedScaffold, NestedReach
<1>5. E[p] = Opening(s, p)
  BY <1>1
<1> HIDE DEF d, A, E, p
<1>6. g = [i \in 1..d |-> NestedReach(s, g, i)]
  BY <1>2, <1>3, Zenon
<1>7. g[1] = E[p]
  BY <1>2, <1>3, <1>6, Zenon
<1> QED BY <1>4, <1>5, <1>7 DEF p

\* Both walks of one grammar, decided by the tags behind the exchanges.
LEMMA WalksAreDecided ==
  ASSUME NEW s \in Seq(Tag), NEW k, Behind(s, k)
  PROVE  /\ Malformed(s) <=> ~(Tight(s) /\ After(s, k) \in Ending)
         /\ \A c \in Rescue : Tight(s) /\ After(s, k) = c.cut => Scaffold(s) = c.add
         /\ (\A c \in Rescue : ~(Tight(s) /\ After(s, k) = c.cut))
               => Scaffold(s) = NoScaffold
<1> DEFINE p == k * Len(Exchange) + 1
<1>1. Malformed(s) <=> ~Tight(s) \/ NoEnding(s, p)
  BY FlatMalformedIs, NestedMalformedIs DEF Malformed
<1>2. Scaffold(s) = IF Tight(s) THEN Opening(s, p) ELSE NoScaffold
  BY FlatScaffoldIs, NestedScaffoldIs DEF Scaffold
<1>3. p \in 1..(Len(s) + 1)
  <2>1. Len(s) \in Nat /\ k \in Nat /\ k * Len(Exchange) <= Len(s) /\ Len(Exchange) \in {4, 6}
    BY ExchangeTags DEF Behind, Exchanges
  <2>2. k * Len(Exchange) \in Nat
    BY <2>1
  <2> QED BY <2>1, <2>2
<1>4. After(s, k) = SubSeq(s, p, Len(s))
  BY DEF After
<1> HIDE DEF p
<1>5. NoEnding(s, p) <=> After(s, k) \notin Ending
  BY <1>3, <1>4, NoEndingIs
<1>6. /\ \A c \in Rescue : After(s, k) = c.cut => Opening(s, p) = c.add
      /\ (\A c \in Rescue : After(s, k) # c.cut) => Opening(s, p) = NoScaffold
  BY <1>3, <1>4, OpeningIs
<1> QED BY <1>1, <1>2, <1>5, <1>6, Zenon

\* Nothing is both an ending and a cut, and no two cuts are the same; all are
\* too short to hold an exchange.
LEMMA CutsAndEndings ==
  /\ \A v \in Ending : v \in Seq(Tag) /\ Len(v) < Len(Exchange)
  /\ \A c \in Rescue : c.cut \in Seq(Tag) /\ Len(c.cut) < Len(Exchange) /\ c.cut \notin Ending
  /\ \A b, c \in Rescue : b.cut = c.cut => b = c
<1>1. Len(Exchange) = IF Nested THEN 4 ELSE 6
  BY Cycles
<1>2. Len(Ask) = IF Nested THEN 2 ELSE 3
  BY DEF Ask
<1>3. Ask \in Seq(Tag) /\ {"</think>", "<answer>"} \subseteq Tag
  BY ExchangeTags DEF Tag
<1>4. \A v \in Ending : v \in Seq(Tag) /\ Len(v) \in {2, 3}
  BY EndingsAreTags DEF Ending
<1>5. Ask \notin Ending /\ Ask # <<>> /\ Ask # <<"</think>">> /\ Ask # <<"</think>", "<answer>">>
  BY DEF Ask, Ending
<1>6. ASSUME NEW c \in Rescue
      PROVE  c.cut \in Seq(Tag) /\ Len(c.cut) < Len(Exchange) /\ c.cut \notin Ending
  <2>1. c.cut \in {<<>>, <<"</think>">>, <<"</think>", "<answer>">>, Ask}
    BY DEF Rescue
  <2>2. CASE c.cut = Ask
    <3>1. Len(Ask) < Len(Exchange)
      BY <1>1, <1>2
    <3> QED BY <1>3, <1>5, <2>2, <3>1
  <2>3. CASE c.cut = <<>>
    BY <1>1, <2>3 DEF Ending
  <2>4. CASE c.cut = <<"</think>">>
    <3>1. "</think>" \in Tag
      BY <1>3
    <3> DEFINE v == <<"</think>">>
    <3>2. v \in Seq(Tag) /\ Len(v) = 1
      BY <3>1
    <3>3. v \notin Ending
      BY DEF Ending
    <3> HIDE DEF v
    <3>4. Len(v) < Len(Exchange)
      BY <1>1, <3>2
    <3> QED BY <2>4, <3>2, <3>3, <3>4 DEF v
  <2>5. CASE c.cut = <<"</think>", "<answer>">>
    <3>1. "</think>" \in Tag /\ "<answer>" \in Tag
      BY <1>3
    <3> DEFINE v == <<"</think>", "<answer>">>
    <3>2. v \in Seq(Tag) /\ Len(v) = 2
      BY <3>1
    <3>3. v \notin Ending
      BY DEF Ending
    <3> HIDE DEF v
    <3>4. Len(v) < Len(Exchange)
      BY <1>1, <3>2
    <3> QED BY <2>5, <3>2, <3>3, <3>4 DEF v
  <2> QED BY <2>1, <2>2, <2>3, <2>4, <2>5
<1>7. ASSUME NEW b \in Rescue, NEW c \in Rescue, b.cut = c.cut PROVE b = c
  BY <1>5, <1>7 DEF Rescue
<1>8. ASSUME NEW v \in Ending PROVE v \in Seq(Tag) /\ Len(v) < Len(Exchange)
  <2>1. v \in Seq(Tag) /\ (Len(v) = 2 \/ Len(v) = 3)
    BY <1>4
  <2>2. Len(Exchange) = 4 \/ Len(Exchange) = 6
    BY <1>1
  <2>3. ASSUME NEW m \in {2, 3}, NEW n \in {4, 6} PROVE m < n
    OBVIOUS
  <2> QED BY <2>1, <2>2, <2>3
<1> QED BY <1>6, <1>7, <1>8, Zenon

\* has_malformed_structure and answer_scaffold, each a walk of its own, go over
\* the one language of TagGrammar: what is accepted is what the grammar generates,
\* and what is rescued is what it lists as a cut, with the tags it lists.
THEOREM WalksGoOverTheGrammar ==
  ASSUME NEW s \in Seq(Tag)
  PROVE  ValidatorIsGrammar(s) /\ ScaffoldIsGrammar(s)
<1>1. PICK k \in 0..Len(s) :
        /\ Behind(s, k)
        /\ \A v \in Seq(Tag) : Len(v) < Len(Exchange) =>
             ((\E j \in 0..Len(s) : Exchanges(s, j) /\ After(s, j) = v) <=> After(s, k) = v)
  BY AllExchanges
<1>2. /\ Malformed(s) <=> ~(Tight(s) /\ After(s, k) \in Ending)
      /\ \A c \in Rescue : Tight(s) /\ After(s, k) = c.cut => Scaffold(s) = c.add
      /\ (\A c \in Rescue : ~(Tight(s) /\ After(s, k) = c.cut)) => Scaffold(s) = NoScaffold
  BY <1>1, WalksAreDecided
<1>3. \A c \in Rescue : CutAt(s, c) <=> After(s, k) = c.cut
  BY <1>1, CutsAndEndings, Zenon DEF CutAt
<1>4. WellFormed(s) <=> Tight(s) /\ After(s, k) \in Ending
  <2>1. \A v \in Ending :
          (\E j \in 0..Len(s) : Exchanges(s, j) /\ After(s, j) = v) <=> After(s, k) = v
    BY <1>1, CutsAndEndings, Zenon
  <2> QED BY <2>1, Zenon DEF WellFormed
<1>5. ValidatorIsGrammar(s)
  BY <1>2, <1>4, Zenon DEF ValidatorIsGrammar
<1>6. CASE Rescuable(s)
  <2>1. PICK c \in Rescue : Tight(s) /\ CutAt(s, c)
    BY <1>6 DEF Rescuable
  <2> DEFINE b == CHOOSE b \in Rescue : CutAt(s, b)
  <2>2. b \in Rescue /\ CutAt(s, b)
    BY <2>1, Zenon
  <2>3. AnswerScaffold(s) = b.add
    BY DEF AnswerScaffold
  <2> HIDE DEF b
  <2>4. Scaffold(s) = b.add
    BY <1>2, <1>3, <2>1, <2>2, Zenon
  <2> QED BY <1>5, <1>6, <2>3, <2>4 DEF ScaffoldIsGrammar
<1>7. CASE ~Rescuable(s)
  <2>1. Scaffold(s) = NoScaffold
    BY <1>2, <1>3, <1>7, Zenon DEF Rescuable
  <2> QED BY <1>5, <1>7, <2>1 DEF ScaffoldIsGrammar
<1> QED BY <1>6, <1>7

\* An answer opened by the scaffold's walk is accepted by the validator's walk
\* once it is closed, and an accepted response is never reopened.
THEOREM ScaffoldsLand ==
  ASSUME NEW s \in Seq(Tag)
  PROVE  LandsInValidator(s) /\ IsLeftAlone(s)
<1>1. ValidatorIsGrammar(s) /\ ScaffoldIsGrammar(s)
  BY WalksGoOverTheGrammar
<1>2. LandsInValidator(s)
  <2> SUFFICES ASSUME Scaffold(s) # NoScaffold
               PROVE  ~Malformed(s \o Scaffold(s) \o <<"</answer>">>)
    BY DEF LandsInValidator
  <2>1. Rescuable(s) /\ Scaffold(s) = AnswerScaffold(s)
    BY <1>1 DEF ScaffoldIsGrammar
  <2> DEFINE t == (s \o AnswerScaffold(s)) \o <<"</answer>">>
  <2>2. AnswerScaffold(s) \in Seq(Tag) /\ WellFormed(t)
    BY <2>1, ScaffoldAccepted
  <2>3. t \in Seq(Tag)
    <3>1. <<"</answer>">> \in Seq(Tag)
      BY DEF Tag
    <3> QED BY <2>2, <3>1
  <2> HIDE DEF t
  <2>4. ~Malformed(t)
    BY <2>2, <2>3, WalksGoOverTheGrammar DEF ValidatorIsGrammar
  <2> QED BY <2>1, <2>4 DEF t
<1>3. IsLeftAlone(s)
  <2> SUFFICES ASSUME ~Malformed(s) PROVE Scaffold(s) = NoScaffold
    BY DEF IsLeftAlone
  <2>1. PICK k \in 0..Len(s) : Behind(s, k)
    BY AllExchanges
  <2>2. /\ Malformed(s) <=> ~(Tight(s) /\ After(s, k) \in Ending)
        /\ (\A c \in Rescue : ~(Tight(s) /\ After(s, k) = c.cut)) => Scaffold(s) = NoScaffold
    BY <2>1, WalksAreDecided
  <2>3. \A c \in Rescue : c.cut \notin Ending
    BY CutsAndEndings
  <2> QED BY <2>2, <2>3, Zenon
<1> QED BY <1>2, <1>3
-----------------------------------------------------------------------------
(***************************************************************************)
(* The single-turn generator's scaffold.                                   *)
(***************************************************************************)
\* The look for the four plain tags keeps a response that has no other.
LEMMA PlainTagsAll ==
  ASSUME NEW s \in Seq(PlainTag)
  PROVE  PlainTags(s) = s
<1> DEFINE n == Len(s)
           K(f) == [i \in 0..n |-> IF i = 0 THEN <<>>
                                   ELSE IF s[i] \in PlainTag THEN Append(f[i - 1], s[i])
                                   ELSE f[i - 1]]
           g == [i \in 0..n |-> SubSeq(s, 1, i)]
           kept == CHOOSE f : f = K(f)
<1>1. n \in Nat /\ \A i \in 1..n : s[i] \in PlainTag
  OBVIOUS
<1>2. SubSeq(s, 1, 0) = <<>>
  OBVIOUS
<1>3. ASSUME NEW i \in 1..n PROVE SubSeq(s, 1, i) = Append(SubSeq(s, 1, i - 1), s[i])
  OBVIOUS
<1>4. \E f : f = K(f)
  <2>1. ASSUME NEW i \in 0..n PROVE g[i] = K(g)[i]
    <3>1. CASE i = 0
      BY <1>2, <3>1
    <3>2. CASE i # 0
      <4>1. i \in 1..n /\ i - 1 \in 0..n
        BY <1>1, <3>2
      <4>2. g[i] = SubSeq(s, 1, i) /\ g[i - 1] = SubSeq(s, 1, i - 1)
        BY <4>1
      <4>3. K(g)[i] = Append(g[i - 1], s[i])
        BY <1>1, <3>2, <4>1
      <4> QED BY <1>3, <4>1, <4>2, <4>3
    <3> QED BY <3>1, <3>2
  <2>2. g = [i \in 0..n |-> g[i]] /\ K(g) = [i \in 0..n |-> K(g)[i]]
    OBVIOUS
  <2> HIDE DEF g, K
  <2>3. g = K(g)
    BY <2>1, <2>2
  <2> QED BY <2>3
<1>5. kept = K(kept)
  <2> HIDE DEF K
  <2> QED BY <1>4
<1>6. PlainTags(s) = kept[n]
  BY DEF PlainTags
<1> HIDE DEF kept
<1> DEFINE S == {i \in 0..n : kept[i] = SubSeq(s, 1, i)}
<1>7. kept[0] = <<>> /\ \A i \in 1..n : kept[i] = Append(kept[i - 1], s[i])
  <2>1. ASSUME NEW i \in 0..n
        PROVE  kept[i] = IF i = 0 THEN <<>>
                         ELSE IF s[i] \in PlainTag THEN Append(kept[i - 1], s[i])
                         ELSE kept[i - 1]
    <3>1. K(kept)[i] = IF i = 0 THEN <<>>
                       ELSE IF s[i] \in PlainTag THEN Append(kept[i - 1], s[i])
                       ELSE kept[i - 1]
      OBVIOUS
    <3> HIDE DEF K
    <3> QED BY <1>5, <3>1
  <2>2. 0 \in 0..n /\ \A i \in 1..n : i \in 0..n /\ i # 0
    BY <1>1
  <2>3. kept[0] = <<>>
    BY <2>1, <2>2
  <2>4. ASSUME NEW i \in 1..n PROVE kept[i] = Append(kept[i - 1], s[i])
    BY <1>1, <2>1, <2>2
  <2> QED BY <2>3, <2>4
<1> HIDE DEF K
<1>8. PICK m \in S : \A i \in S : m >= i
  <2>1. 0 \in S
    <3>1. 0 \in 0..n /\ kept[0] = SubSeq(s, 1, 0)
      BY <1>1, <1>2, <1>7
    <3> QED BY <3>1
  <2>2. S \in SUBSET (0..n) /\ S # {}
    BY <2>1
  <2> HIDE DEF S
  <2> QED BY <1>1, <2>2, HasGreatest
<1>9. m = n
  <2> SUFFICES ASSUME m # n PROVE FALSE
    OBVIOUS
  <2>1. m + 1 \in 1..n /\ (m + 1) - 1 = m /\ ~(m >= m + 1) /\ kept[m] = SubSeq(s, 1, m)
    BY <1>1
  <2> DEFINE i == m + 1
  <2>2. i \in 1..n /\ i - 1 = m
    BY <2>1
  <2> HIDE DEF i
  <2>3. kept[i] = Append(kept[m], s[i]) /\ SubSeq(s, 1, i) = Append(SubSeq(s, 1, m), s[i])
    BY <1>3, <1>7, <2>2
  <2>4. i \in S
    <3>1. i \in 0..n /\ kept[i] = SubSeq(s, 1, i)
      BY <2>1, <2>2, <2>3
    <3> QED BY <3>1
  <2> HIDE DEF S
  <2> QED BY <1>8, <2>1, <2>4 DEF i
<1> QED BY <1>6, <1>9

\* The loop's scaffold, on a response without a hint exchange.
LEMMA ScaffoldIsTerminal ==
  ASSUME NEW s \in Seq(Tag), \A i \in 1..Len(s) : s[i] \notin {"<request>", Loose}
  PROVE  Scaffold(s) = Terminal(s, 1)
<1>1. PICK k \in 0..Len(s) : Behind(s, k)
  BY AllExchanges
<1>2. PICK j \in 1..2 : /\ Exchange[j] = "<request>" /\ Ask[j] = "<request>"
                       /\ j <= Len(Ask) /\ Len(Ask) \in {2, 3}
  <2>1. CASE Nested
    <3>1. Ask = <<"<request>", "</request>">> /\ Exchange[1] = "<request>"
      BY <2>1, Cycles DEF Ask
    <3>2. Ask[1] = "<request>" /\ Len(Ask) = 2 /\ 1 \in 1..2
      BY <3>1
    <3> QED BY <3>1, <3>2
  <2>2. CASE ~Nested
    <3>1. Ask = <<"</think>", "<request>", "</request>">>
      BY <2>2 DEF Ask
    <3>2. Ask[2] = "<request>" /\ Len(Ask) = 3 /\ 2 \in 1..2
      BY <3>1
    <3>3. Exchange[2] = "<request>"
      <4>1. 1 \in 1..5 /\ 1 + 1 = 2
        OBVIOUS
      <4> QED BY <2>2, <4>1, Cycles
    <3> QED BY <3>2, <3>3
  <2> QED BY <2>1, <2>2
<1>3. ~Exchanges(s, 1)
  <2> SUFFICES ASSUME Exchanges(s, 1) PROVE FALSE
    OBVIOUS
  <2> DEFINE L == Len(Exchange)
  <2>1. L = 4 \/ L = 6
    BY Cycles
  <2>2. L <= Len(s) /\ \A i \in 1..L : s[i] = Exchange[((i - 1) % L) + 1]
    <3>1. 1 * L = L
      BY <2>1
    <3> QED BY <3>1 DEF Exchanges
  <2> HIDE DEF L
  <2>3. j \in 1..L /\ ((j - 1) % L) + 1 = j
    <3>1. j = 1 \/ j = 2
      OBVIOUS
    <3> QED BY <2>1, <3>1
  <2>4. s[j] = "<request>" /\ j \in 1..Len(s)
    BY <1>2, <2>1, <2>2, <2>3
  <2> QED BY <2>4
<1>4. k = 0
  <2>1. k # 0 => 1 \in 0..k
    OBVIOUS
  <2> QED BY <1>1, <1>3, <2>1 DEF Behind
<1>5. ~Asked(s, 1)
  <2> SUFFICES ASSUME Stands(s, 1, Ask) PROVE FALSE
    BY DEF Asked
  <2>1. 1 + Len(Ask) - 1 <= Len(s) /\ \A l \in 1..Len(Ask) : s[1 + l - 1] = Ask[l]
    BY DEF Stands
  <2>2. j \in 1..Len(Ask) /\ 1 + j - 1 = j /\ j \in 1..Len(s)
    BY <1>2, <2>1
  <2>3. s[1 + j - 1] = "<request>"
    BY <1>2, <2>1, <2>2
  <2> QED BY <2>2, <2>3
<1>6. Tight(s)
  BY DEF Tight
<1>7. Scaffold(s) = Opening(s, k * Len(Exchange) + 1)
  BY <1>1, <1>6, FlatScaffoldIs, NestedScaffoldIs DEF Scaffold
<1>8. k * Len(Exchange) + 1 = 1
  BY <1>4, Cycles
<1> QED BY <1>5, <1>7, <1>8 DEF Opening

\* generator.py:133-134: the two scaffolds "must agree on what a rescuable
\* truncation looks like", and do on a response with none but the plain tags.
THEOREM TheScaffoldsAgree ==
  ASSUME NEW s \in Seq(Tag)
  PROVE  ScaffoldsAgreeOn(s)
<1> SUFFICES ASSUME ToSet(s) \cap (HintTag \cup {"<abstain>"}) = {}
             PROVE  PlainScaffold(s) = Scaffold(s)
  BY DEF ScaffoldsAgreeOn
<1>1. ASSUME NEW i \in 1..Len(s) PROVE s[i] \in PlainTag /\ s[i] \notin {"<request>", Loose}
  <2>1. s[i] \in Tag /\ s[i] \in ToSet(s)
    BY DEF ToSet
  <2>2. s[i] \notin HintTag \cup {"<abstain>"}
    BY <2>1
  <2> QED BY <2>1, <2>2 DEF Tag, HintTag, PlainTag
<1>2. s \in Seq(PlainTag)
  BY <1>1, SeqDef
<1>3. PlainTags(s) = s
  BY <1>2, PlainTagsAll
<1>4. Scaffold(s) = Terminal(s, 1)
  BY <1>1, ScaffoldIsTerminal
<1> QED BY <1>3, <1>4 DEF PlainScaffold
==============================================================================
