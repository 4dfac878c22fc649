--------------------------- MODULE GeneratorProofs ---------------------------
(***************************************************************************)
(* Proofs about the generator's multi-turn loops, for every value of the   *)
(* constants.                                                              *)
(*                                                                         *)
(* Four questions: whether the token-spliced loop keeps what the training  *)
(* loop keeps of the same generations (Beside); whether what ends as cut   *)
(* spent its budget; whether a forced hint leaves the earlier turns alone; *)
(* and whether a sample that stops is one the validator accepts (Whole).   *)
(* The training record obeys the turn rules, so what TurnRulesProofs shows *)
(* of Ingest is used as it is.                                             *)
(***************************************************************************)
EXTENDS EvalRollout, TurnRulesProofs

-----------------------------------------------------------------------------
(***************************************************************************)
(* Finding tags on a tape, and cutting it there.                           *)
(***************************************************************************)

\* A set of positions has a least one.
LEMMA HasLeast ==
  ASSUME NEW n \in Nat, NEW S \in SUBSET (1..n), S # {}
  PROVE  \E x \in S : \A y \in S : x =< y
<1> DEFINE T == {n - y : y \in S}
<1>1. T \subseteq 0..n
  <2>1. ASSUME NEW y \in S PROVE n - y \in 0..n
    <3>1. y \in 1..n
      OBVIOUS
    <3> QED BY <3>1
  <2> QED BY <2>1
<1>2. T # {}
  <2>1. PICK y \in S : TRUE
    OBVIOUS
  <2>2. n - y \in T
    OBVIOUS
  <2> QED BY <2>2
<1>3. PICK z \in T : \A y \in T : z >= y
  <2> HIDE DEF T
  <2> QED BY <1>1, <1>2, HasGreatest
<1>4. PICK x \in S : z = n - x
  BY <1>3
<1>5. ASSUME NEW y \in S PROVE x =< y
  <2>1. n - y \in T
    OBVIOUS
  <2>2. z >= n - y
    BY <1>3, <2>1
  <2>3. y \in 1..n /\ x \in 1..n
    OBVIOUS
  <2> QED BY <1>4, <2>2, <2>3
<1> QED BY <1>5

\* The first of the stops, or 0.
LEMMA FirstOfIs ==
  ASSUME NEW s \in Seq(Tag), NEW stops
  PROVE  /\ FirstOf(s, stops) \in 0..Len(s)
         /\ FirstOf(s, stops) = 0 => \A j \in 1..Len(s) : s[j] \notin stops
         /\ FirstOf(s, stops) # 0 => s[FirstOf(s, stops)] \in stops
         /\ \A j \in 1..(FirstOf(s, stops) - 1) : s[j] \notin stops
<1> DEFINE I == {j \in 1..Len(s) : s[j] \in stops}
<1>1. FirstOf(s, stops) = IF I # {} THEN Min(I) ELSE 0
  BY Zenon DEF FirstOf, SelectInSeq
<1>2. Len(s) \in Nat /\ I \in SUBSET (1..Len(s))
  OBVIOUS
<1>3. I # {} => Min(I) \in I /\ \A y \in I : Min(I) =< y
  <2> HIDE DEF I
  <2> QED BY <1>2, HasLeast DEF Min
<1>4. CASE I = {}
  <2>1. FirstOf(s, stops) = 0
    BY <1>1, <1>4
  <2> QED BY <1>2, <1>4, <2>1
<1>5. CASE I # {}
  <2> DEFINE i == Min(I)
  <2>1. FirstOf(s, stops) = i /\ i \in I /\ \A y \in I : i =< y
    BY <1>1, <1>3, <1>5
  <2> HIDE DEF i
  <2>2. i \in 1..Len(s) /\ s[i] \in stops
    BY <2>1
  <2>3. ASSUME NEW j \in 1..(i - 1) PROVE s[j] \notin stops
    <3>1. j \in 1..Len(s) /\ ~(i =< j)
      BY <1>2, <2>2
    <3> QED BY <2>1, <3>1
  <2> QED BY <1>2, <2>1, <2>2, <2>3
<1> QED BY <1>4, <1>5

\* The last place of a tag, or 0.
LEMMA LastOfIs ==
  ASSUME NEW s \in Seq(Tag), NEW tag
  PROVE  /\ LastOf(s, tag) \in 0..Len(s)
         /\ LastOf(s, tag) # 0 => s[LastOf(s, tag)] = tag
         /\ \A j \in (LastOf(s, tag) + 1)..Len(s) : s[j] # tag
<1> DEFINE I == {j \in 1..Len(s) : s[j] = tag}
<1>1. LastOf(s, tag) = IF I # {} THEN Max(I) ELSE 0
  BY Zenon DEF LastOf, SelectLastInSeq
<1>2. Len(s) \in Nat /\ I \in SUBSET (0..Len(s)) /\ I \subseteq 1..Len(s)
  OBVIOUS
<1>3. I # {} => Max(I) \in I /\ \A y \in I : Max(I) >= y
  <2> HIDE DEF I
  <2> QED BY <1>2, MaxIsGreatest
<1>4. CASE I = {}
  <2>1. LastOf(s, tag) = 0
    BY <1>1, <1>4
  <2> QED BY <1>2, <1>4, <2>1
<1>5. CASE I # {}
  <2> DEFINE i == Max(I)
  <2>1. LastOf(s, tag) = i /\ i \in I /\ \A y \in I : i >= y
    BY <1>1, <1>3, <1>5
  <2> HIDE DEF i
  <2>2. i \in 1..Len(s) /\ s[i] = tag
    BY <2>1
  <2>3. ASSUME NEW j \in (i + 1)..Len(s) PROVE s[j] # tag
    <3>1. j \in 1..Len(s) /\ ~(i >= j)
      BY <1>2, <2>2
    <3> QED BY <2>1, <3>1
  <2> QED BY <1>2, <2>1, <2>2, <2>3
<1> QED BY <1>4, <1>5

-----------------------------------------------------------------------------
\* Whatever a tape is cut at, it is a tape.
LEMMA Cuts ==
  ASSUME NEW s \in Seq(Tag)
  PROVE  /\ \A i \in 0..Len(s) : SubSeq(s, 1, i) \in Seq(Tag) /\ Len(SubSeq(s, 1, i)) = i
         /\ \A i \in 0..Len(s) : SubSeq(s, i + 1, Len(s)) \in Seq(Tag)
         /\ \A stops : Stopped(s, stops) \in Seq(Tag)
         /\ \A tag : UpTo(s, tag) \in Seq(Tag)
         /\ Prefixes(s) \subseteq Seq(Tag)
<1>1. ASSUME NEW i \in 0..Len(s)
      PROVE  SubSeq(s, 1, i) \in Seq(Tag) /\ Len(SubSeq(s, 1, i)) = i
  OBVIOUS
<1>2. ASSUME NEW i \in 0..Len(s) PROVE SubSeq(s, i + 1, Len(s)) \in Seq(Tag)
  OBVIOUS
<1>3. ASSUME NEW stops PROVE Stopped(s, stops) \in Seq(Tag)
  BY <1>1, FirstOfIs DEF Stopped
<1>4. ASSUME NEW tag PROVE UpTo(s, tag) \in Seq(Tag)
  <2>1. LastOf(s, tag) \in 0..Len(s)
    BY LastOfIs
  <2>2. LastOf(s, tag) # 0 => LastOf(s, tag) - 1 \in 0..Len(s)
    BY <2>1
  <2> QED BY <1>1, <2>2 DEF UpTo
<1>5. Prefixes(s) \subseteq Seq(Tag)
  BY <1>1 DEF Prefixes
<1> QED BY <1>1, <1>2, <1>3, <1>4, <1>5

\* Concatenation, of tapes given by name.
LEMMA Joined ==
  ASSUME NEW s \in Seq(Tag), NEW u \in Seq(Tag), NEW v \in Seq(Tag)
  PROVE  /\ s \o u \in Seq(Tag) /\ Len(s \o u) = Len(s) + Len(u)
         /\ Len(s) \in Nat /\ Len(u) \in Nat
         /\ \A i \in 1..Len(s) : (s \o u)[i] = s[i]
         /\ \A i \in 1..Len(u) : (s \o u)[Len(s) + i] = u[i]
         /\ (s \o u) \o v = s \o (u \o v)
<1>1. /\ s \o u \in Seq(Tag) /\ Len(s \o u) = Len(s) + Len(u)
      /\ Len(s) \in Nat /\ Len(u) \in Nat
      /\ \A i \in 1..Len(s) : (s \o u)[i] = s[i]
      /\ \A i \in 1..Len(u) : (s \o u)[Len(s) + i] = u[i]
  BY ConcatProperties
<1>2. (s \o u) \o v = s \o (u \o v)
  OBVIOUS
<1> QED BY <1>1, <1>2

-----------------------------------------------------------------------------
(***************************************************************************)
(* What the loops make of a turn.                                          *)
(***************************************************************************)
\* A sample, with no more hints given than there are and than were asked for.
Sound(s) == s \in Sample /\ s.given <= s.hints /\ s.given <= s.numHints

\* A turn stays within what is left of the budget.
LEMMA TurnsAreTags ==
  ASSUME NEW s, NEW g \in EvalTurn(s), s.tokens \in Nat
  PROVE  /\ g.tags \in Seq(Tag)
         /\ g.len \in Nat /\ s.tokens + g.len <= MaxResponseLen
         /\ g.reason \in {"stop", "length"}
<1>1. PICK t \in Texts : g.tags = Stopped(t, StopsAt(s))
  BY DEF EvalTurn
<1>2. t \in Seq(Tag)
  BY RulesAssumption DEF RulesAssumption
<1>3. g.tags \in Seq(Tag)
  BY <1>1, <1>2, Cuts
<1>4. g.len \in 0..(MaxResponseLen - s.tokens) /\ g.reason \in {"stop", "length"}
  BY DEF EvalTurn, Remaining
<1> QED BY <1>3, <1>4, ConstantsAreNat

\* What a turn adds to a sample.
LEMMA TakenFacts ==
  ASSUME NEW s, Sound(s), NEW g \in EvalTurn(s)
  PROVE  /\ Sound(Taken(s, g))
         /\ Taken(s, g).tags = s.tags \o g.tags
         /\ Taken(s, g).tokens = s.tokens + g.len
         /\ Taken(s, g).turns = s.turns + 1
         /\ Taken(s, g).hints = s.hints /\ Taken(s, g).force = s.force
         /\ Taken(s, g).given = s.given /\ Taken(s, g).numHints = s.numHints
         /\ Taken(s, g).closed = s.closed /\ Taken(s, g).finish = s.finish
<1>1. g.tags \in Seq(Tag) /\ g.len \in Nat
  BY TurnsAreTags DEF Sound, Sample
<1>2. s.tags \o g.tags \in Seq(Tag) /\ s.tokens + g.len \in Nat /\ s.turns + 1 \in Nat
  BY <1>1 DEF Sound, Sample
<1> QED BY <1>2 DEF Sound, Sample, Taken

\* The spliced loop is charged nothing for what it writes itself.
LEMMA MarkupIsNat == Markup \in Nat
BY EvalAssumption DEF EvalAssumption, Markup

\* What a reply adds, with a hint in it or without.
LEMMA ServeFacts ==
  ASSUME NEW s, Sound(s)
  PROVE  /\ Sound(Serve(s))
         /\ Serve(s).tags = s.tags \o Reply
         /\ Serve(s).tokens = s.tokens + Markup
         /\ Serve(s).numHints = s.numHints + 1
         /\ Serve(s).given = IF s.given < s.hints THEN s.given + 1 ELSE s.given
         /\ Serve(s).hints = s.hints /\ Serve(s).force = s.force
         /\ Serve(s).turns = s.turns
         /\ Serve(s).closed = s.closed /\ Serve(s).finish = s.finish
<1> DEFINE tags == s.tags \o Reply
           tokens == s.tokens + Markup
           numHints == s.numHints + 1
           given == IF s.given < s.hints THEN s.given + 1 ELSE s.given
           t == [s EXCEPT !.tags = tags, !.tokens = tokens,
                          !.numHints = numHints, !.given = given]
<1>1. tags \in Seq(Tag) /\ tokens \in Nat
  BY MarkupIsNat, RepliesAreTags DEF Sound, Sample
<1>2. numHints \in Nat /\ given \in Nat /\ given <= s.hints /\ given <= numHints
  BY DEF Sound, Sample
<1>3. Serve(s) = t
  BY DEF Serve
<1> HIDE DEF tags, tokens, numHints, given
<1>4. /\ Sound(t) /\ t.tags = tags /\ t.tokens = tokens /\ t.numHints = numHints
      /\ t.given = given /\ t.hints = s.hints /\ t.force = s.force
      /\ t.turns = s.turns /\ t.closed = s.closed /\ t.finish = s.finish
  BY <1>1, <1>2 DEF Sound, Sample
<1> QED BY <1>3, <1>4 DEF tags, tokens, numHints, given

\* What a closed text adds.
LEMMA CloseFacts ==
  ASSUME NEW s, Sound(s)
  PROVE  /\ Sound(Close(s))
         /\ Close(s).closed = s.closed + 1
         /\ Close(s).hints = s.hints /\ Close(s).force = s.force
         /\ Close(s).turns = s.turns /\ Close(s).finish = s.finish
         /\ Close(s).tags = s.tags \o <<"</think>">>
         /\ Close(s).tokens = s.tokens + Markup /\ Close(s).given = s.given
<1> DEFINE tags == Append(s.tags, "</think>")
           tokens == s.tokens + Markup
           closed == s.closed + 1
           t == [s EXCEPT !.tags = tags, !.tokens = tokens, !.closed = closed]
<1>1. "</think>" \in Tag /\ s.tags \in Seq(Tag)
  BY DEF Tag, Sound, Sample
<1>2. tags \in Seq(Tag) /\ tags = s.tags \o <<"</think>">>
  BY <1>1
<1>3. tokens \in Nat /\ closed \in Nat
  BY MarkupIsNat DEF Sound, Sample
<1>4. Close(s) = t
  BY DEF Close
<1>5. tags \in Seq(Tag)
  BY <1>2
<1> HIDE DEF tags, tokens, closed
<1>6. /\ Sound(t) /\ t.tags = tags /\ t.closed = closed /\ t.tokens = tokens
      /\ t.hints = s.hints /\ t.force = s.force /\ t.given = s.given
      /\ t.turns = s.turns /\ t.finish = s.finish
  BY <1>3, <1>5 DEF Sound, Sample
<1> QED BY <1>2, <1>4, <1>6 DEF closed, tokens

\* Ending a sample changes nothing else of it.
LEMMA FinishedFacts ==
  ASSUME NEW s, Sound(s), NEW how \in {"stop", "length"}
  PROVE  LET t == [s EXCEPT !.finish = how] IN
         /\ Sound(t) /\ t.finish = how /\ t.tags = s.tags /\ t.tokens = s.tokens
         /\ t.hints = s.hints /\ t.force = s.force /\ t.turns = s.turns
         /\ t.given = s.given /\ t.numHints = s.numHints /\ t.closed = s.closed
BY DEF Sound, Sample

\* What follows a generation that has no answer, by how it ended.
LEMMA NoAnswerFacts ==
  ASSUME NEW s, Sound(s), NEW g, g.reason \in {"stop", "length"}
  PROVE  \/ /\ Contains(g.tags, "</request>") /\ NoAnswer(s, g) = Serve(s)
         \/ /\ ~Contains(g.tags, "</request>") /\ g.reason = "stop"
            /\ NoAnswer(s, g) = Close(s)
         \/ /\ ~Contains(g.tags, "</request>") /\ g.reason = "length"
            /\ NoAnswer(s, g) = [s EXCEPT !.finish = "length"]
BY DEF NoAnswer

\* A turn without a forced hint keeps a sample sound.
LEMMA SplicedIsSound ==
  ASSUME NEW s, Sound(s), NEW g \in EvalTurn(s)
  PROVE  Sound(Spliced(s, g))
<1> DEFINE t == Taken(s, g)
<1>1. Sound(t)
  BY TakenFacts
<1>2. g.reason \in {"stop", "length"}
  BY TurnsAreTags DEF Sound, Sample
<1>3. Sound(NoAnswer(t, g))
  <2> HIDE DEF t
  <2>1. Sound(Serve(t)) /\ Sound(Close(t)) /\ Sound([t EXCEPT !.finish = "length"])
    BY <1>1, ServeFacts, CloseFacts, FinishedFacts
  <2> QED BY <1>1, <1>2, <2>1, NoAnswerFacts
<1>4. Sound([t EXCEPT !.finish = "stop"])
  <2> HIDE DEF t
  <2> QED BY <1>1, FinishedFacts
<1> QED BY <1>3, <1>4 DEF Spliced

\* The turn at hand begins behind the last reply.
LEMMA TurnBeginIs ==
  ASSUME NEW ts \in Seq(Tag)
  PROVE  /\ TurnBegin(ts) \in 0..Len(ts)
         /\ TurnBegin(ts) >= LastOf(ts, "</response>")
<1> DEFINE reply == LastOf(ts, "</response>")
           tail == SubSeq(ts, reply + 1, Len(ts))
           reopen == FirstOf(tail, {"<think>"})
<1>1. reply \in 0..Len(ts)
  BY LastOfIs
<1>2. tail \in Seq(Tag) /\ Len(tail) = Len(ts) - reply
  BY <1>1
<1>3. reopen \in 0..Len(tail)
  <2> HIDE DEF tail
  <2> QED BY <1>2, FirstOfIs
<1>4. TurnBegin(ts) = IF Nested \/ reopen = 0 THEN reply ELSE reply + reopen
  BY DEF TurnBegin
<1> HIDE DEF reply, reopen
<1> QED
  <2>1. Len(ts) \in Nat
    OBVIOUS
  <2>2. TurnBegin(ts) \in 0..Len(ts) /\ TurnBegin(ts) >= reply
    <3>1. reply \in Nat /\ reopen \in Nat /\ reply + reopen <= Len(ts)
      BY <1>1, <1>2, <1>3, <2>1
    <3> QED BY <1>1, <1>4, <2>1, <3>1
  <2> QED BY <2>2 DEF reply

\* Whatever is closed for a request begins with the committed turns.
LEMMA ClosedIsTags ==
  ASSUME NEW ts \in Seq(Tag), NEW us \in ClosedForRequest(ts)
  PROVE  \E k \in Seq(Tag) : us = SubSeq(ts, 1, TurnBegin(ts)) \o k
<1> DEFINE head == SubSeq(ts, 1, TurnBegin(ts))
           tail == SubSeq(ts, TurnBegin(ts) + 1, Len(ts))
           kept == UpTo(UpTo(tail, "<answer>"), "</think>")
           last == IF Nested THEN <<>> ELSE <<"</think>">>
<1>1. head \in Seq(Tag) /\ tail \in Seq(Tag)
  BY TurnBeginIs, Cuts
<1>2. kept \in Seq(Tag) /\ Prefixes(kept) \subseteq Seq(Tag)
  <2> HIDE DEF tail
  <2> QED BY <1>1, Cuts
<1>3. last \in Seq(Tag)
  <2>1. "</think>" \in Tag
    BY DEF Tag
  <2> QED BY <2>1
<1>4. PICK k \in Seq(Tag) : us = head \o k \o last
  <2>1. \E k \in Prefixes(kept) \cup {kept} : us = head \o k \o last
    BY DEF ClosedForRequest
  <2> QED BY <1>2, <2>1
<1> HIDE DEF head, last
<1>5. us = head \o (k \o last) /\ k \o last \in Seq(Tag)
  BY <1>1, <1>3, <1>4
<1> QED BY <1>5 DEF head

\* A forced hint keeps a sample sound, and the tape up to the turn at hand.
LEMMA ForcedFacts ==
  ASSUME NEW s, Sound(s), NeedsForcing(s), NEW x \in Forced(s)
  PROVE  /\ Sound(x)
         /\ \E k \in Seq(Tag) : x.tags = SubSeq(s.tags, 1, TurnBegin(s.tags)) \o k
         /\ \E ts \in ClosedForRequest(s.tags) :
               x.tags = ts \o <<"<request>", "</request>">> \o Reply
         /\ x.finish = s.finish /\ x.closed = s.closed
         /\ x.given = s.given + 1 /\ x.hints = s.hints
<1> DEFINE asks == <<"<request>", "</request>">>
           head == SubSeq(s.tags, 1, TurnBegin(s.tags))
<1>1. PICK ts \in ClosedForRequest(s.tags), n \in 0..s.tokens : x = ForcedAfter(s, ts, n)
  BY DEF Forced
<1>2. s.tags \in Seq(Tag) /\ n \in Nat
  BY DEF Sound, Sample
<1>3. PICK k \in Seq(Tag) : ts = head \o k
  BY <1>2, ClosedIsTags
<1>4. head \in Seq(Tag) /\ asks \in Seq(Tag) /\ Reply \in Seq(Tag)
  BY <1>2, TurnBeginIs, Cuts, RepliesAreTags DEF Tag
<1> DEFINE tags == ts \o asks \o Reply
           rest == k \o asks \o Reply
<1>5. tags \in Seq(Tag) /\ rest \in Seq(Tag) /\ tags = head \o rest
  <2> HIDE DEF head, asks
  <2> QED BY <1>3, <1>4
<1> DEFINE tokens == n + Markup
           given == s.given + 1
           numHints == s.numHints + 1
           t == [s EXCEPT !.tags = tags, !.tokens = tokens,
                          !.given = given, !.numHints = numHints]
<1>6. tokens \in Nat
  BY <1>2, MarkupIsNat
<1>7. x = t
  BY <1>1 DEF ForcedAfter
<1>8. given \in Nat /\ given <= s.hints /\ numHints \in Nat /\ given <= numHints
  BY DEF NeedsForcing, Sound, Sample
<1>9. /\ Sound(t) /\ t.tags = tags /\ t.finish = s.finish /\ t.closed = s.closed
      /\ t.given = given /\ t.hints = s.hints
  <2>1. tags \in Seq(Tag)
    BY <1>5
  <2> HIDE DEF tags, tokens, given, numHints
  <2> QED BY <1>6, <1>8, <2>1 DEF Sound, Sample
<1> HIDE DEF t
<1> QED BY <1>5, <1>7, <1>9

\* What the spliced loop makes of a turn: an answer, a request, a text that just
\* ends, a text that was cut.
LEMMA SplicedFacts ==
  ASSUME NEW s, Sound(s), NEW g \in EvalTurn(s)
  PROVE  LET t == Taken(s, g)
             x == Spliced(s, g)
             answered == Contains(s.tags \o g.tags, "</answer>")
             asked == Contains(g.tags, "</request>")
         IN  \/ answered /\ x = [t EXCEPT !.finish = "stop"]
             \/ ~answered /\ asked /\ x = Serve(t)
             \/ ~answered /\ ~asked /\ g.reason = "stop" /\ x = Close(t)
             \/ ~answered /\ ~asked /\ g.reason = "length"
                /\ x = [t EXCEPT !.finish = "length"]
<1>1. g.reason \in {"stop", "length"}
  BY TurnsAreTags DEF Sound, Sample
<1>2. Taken(s, g).tags = s.tags \o g.tags
  BY TakenFacts
<1> QED BY <1>1, <1>2 DEF Spliced, NoAnswer

\* In particular, one of four records.
LEMMA SplicedIsOneOf ==
  ASSUME NEW s, Sound(s), NEW g \in EvalTurn(s)
  PROVE  Spliced(s, g) \in {[Taken(s, g) EXCEPT !.finish = "stop"],
                           [Taken(s, g) EXCEPT !.finish = "length"],
                           Serve(Taken(s, g)), Close(Taken(s, g))}
BY SplicedFacts, Zenon

\* The length of a turn that takes all that is left.
LEMMA SpentExactly ==
  ASSUME NEW a \in Nat, NEW m \in Nat, NEW n, n = m - a
  PROVE  a + n >= m
OBVIOUS

\* A loop that cuts no turn short of its budget reports as cut only what spent it.
LEMMA CutSpends ==
  ASSUME NEW s, Sound(s), NEW g \in EvalTurn(s), s.finish = "open",
         loop # "sync text", ~NeedsForcing(s), Spliced(s, g).finish = "length"
  PROVE  Spliced(s, g).tokens >= MaxResponseLen
<1> DEFINE t == Taken(s, g)
<1>1. Sound(t) /\ t.finish = "open" /\ t.tokens = s.tokens + g.len
  BY TakenFacts
<1>2. /\ [t EXCEPT !.finish = "stop"].finish = "stop"
      /\ [t EXCEPT !.finish = "length"].tokens = t.tokens
      /\ Serve(t).finish = "open" /\ Close(t).finish = "open"
  <2> HIDE DEF t
  <2> QED BY <1>1, FinishedFacts, ServeFacts, CloseFacts
<1>3. g.reason = "length" /\ Spliced(s, g).tokens = t.tokens
  BY <1>1, <1>2, SplicedFacts
<1>4. g.len = Remaining(s)
  BY <1>3 DEF EvalTurn, MayBeCut
<1>5. s.tokens \in Nat
  BY DEF Sound, Sample
<1>6. MaxResponseLen \in Nat
  BY ConstantsAreNat
<1>7. s.tokens + g.len >= MaxResponseLen
  BY <1>4, <1>5, <1>6, SpentExactly, Zenon DEF Remaining
<1> QED BY <1>1, <1>3, <1>7, Zenon

\* The asynchronous text loop: as the spliced one, or a forced hint.
LEMMA AsyncFacts ==
  ASSUME NEW s, Sound(s), s.finish = "open", NEW g \in EvalTurn(s), NEW x \in AsyncText(s, g)
  PROVE  /\ Sound(x)
         /\ loop = "async text" /\ x.finish = "length" => x.tokens >= MaxResponseLen
         /\ \/ x = Spliced(s, g)
            \/ /\ NeedsForcing(s) /\ x \in Forced(Taken(s, g))
               /\ ForcesHere(Taken(s, g), g)
<1> DEFINE t == Taken(s, g)
<1>1. Sound(t) /\ t.finish = "open" /\ (NeedsForcing(t) <=> NeedsForcing(s))
  BY TakenFacts DEF NeedsForcing
<1>2. CASE ForcesHere(t, g)
  <2>1. x \in Forced(t) /\ NeedsForcing(t)
    BY <1>2 DEF AsyncText, ForcesHere
  <2>2. Sound(x) /\ x.finish = "open"
    <3> HIDE DEF t
    <3> QED BY <1>1, <2>1, ForcedFacts
  <2> QED BY <1>1, <1>2, <2>1, <2>2
<1>3. CASE ~ForcesHere(t, g)
  <2>1. x = Spliced(s, g)
    BY <1>3 DEF AsyncText
  <2>2. ASSUME loop = "async text", x.finish = "length"
        PROVE  x.tokens >= MaxResponseLen
    <3>1. g.reason = "length"
      <4>1. /\ [t EXCEPT !.finish = "stop"].finish = "stop"
            /\ Serve(t).finish = "open" /\ Close(t).finish = "open"
        <5> HIDE DEF t
        <5> QED BY <1>1, FinishedFacts, ServeFacts, CloseFacts
      <4> QED BY <2>1, <2>2, <4>1, SplicedFacts
    <3>2. ~NeedsForcing(s)
      BY <1>1, <1>3, <3>1 DEF ForcesHere
    <3> QED BY <2>1, <2>2, <3>2, CutSpends
  <2> QED BY <2>1, <2>2, SplicedIsSound
<1> QED BY <1>2, <1>3

\* The synchronous one, which may cut anywhere.
LEMMA SyncFacts ==
  ASSUME NEW s, Sound(s), NEW g \in EvalTurn(s), NEW x \in SyncText(s, g)
  PROVE  /\ Sound(x)
         /\ x = Spliced(s, g) \/ (x.given = s.given + 1 /\ x.hints = s.hints)
<1> DEFINE t == Taken(s, g)
           cuts == IF Contains(t.tags, "</answer>") THEN {UpTo(t.tags, "<answer>")}
                   ELSE IF Contains(g.tags, "</think>") THEN {t.tags}
                   ELSE {Append(p, "</think>") : p \in Prefixes(t.tags)}
<1>1. Sound(t) /\ t.tags \in Seq(Tag) /\ t.given = s.given /\ t.hints = s.hints
  BY TakenFacts DEF Sound, Sample
<1>2. CASE ForcesHere(t, g)
  <2>1. PICK c \in cuts : x \in Forced([t EXCEPT !.tags = c])
    BY <1>2 DEF SyncText
  <2>2. c \in Seq(Tag)
    <3>1. ASSUME NEW p \in Prefixes(t.tags) PROVE Append(p, "</think>") \in Seq(Tag)
      <4> HIDE DEF t
      <4>1. p \in Seq(Tag)
        BY <1>1, Cuts
      <4>2. "</think>" \in Tag
        BY DEF Tag
      <4> QED BY <4>1, <4>2
    <3>2. UpTo(t.tags, "<answer>") \in Seq(Tag)
      BY <1>1, Cuts
    <3> QED BY <1>1, <3>1, <3>2
  <2> HIDE DEF t
  <2>3. /\ Sound([t EXCEPT !.tags = c]) /\ NeedsForcing([t EXCEPT !.tags = c])
        /\ [t EXCEPT !.tags = c].given = t.given /\ [t EXCEPT !.tags = c].hints = t.hints
    BY <1>1, <1>2, <2>2 DEF Sound, Sample, ForcesHere, NeedsForcing
  <2> DEFINE y == [t EXCEPT !.tags = c]
  <2>4. Sound(y) /\ NeedsForcing(y) /\ y.given = t.given /\ y.hints = t.hints
    BY <2>3
  <2>5. x \in Forced(y)
    BY <2>1
  <2> HIDE DEF y
  <2>6. Sound(x) /\ x.given = y.given + 1 /\ x.hints = y.hints
    BY <2>4, <2>5, ForcedFacts
  <2>7. x.given = s.given + 1 /\ x.hints = s.hints
    BY <1>1, <2>4, <2>6
  <2> QED BY <2>6, <2>7
<1>3. CASE ~ForcesHere(t, g)
  BY <1>3, SplicedIsSound DEF SyncText
<1> QED BY <1>2, <1>3

-----------------------------------------------------------------------------
\* A loop that forces nothing stops a turn where the policy stops it anyway.
LEMMA UnforcedTurns ==
  ASSUME NEW s, Sound(s), NEW g \in EvalTurn(s), ~NeedsForcing(s)
  PROVE  g.tags \in Texts
<1>1. PICK t \in Texts : g.tags = Stopped(t, StopsAt(s))
  BY DEF EvalTurn
<1>2. t \in Seq(Tag) /\ \A i \in 1..(Len(t) - 1) : t[i] \notin StopTag
  BY RulesAssumption DEF RulesAssumption
<1>3. StopsAt(s) \subseteq StopTag
  BY DEF StopsAt, StopTag
<1> DEFINE i == FirstOf(t, StopsAt(s))
<1>4. i \in 0..Len(t) /\ (i # 0 => t[i] \in StopsAt(s))
  BY <1>2, FirstOfIs
<1>5. i # 0 => i = Len(t)
  <2> HIDE DEF i
  <2>1. i # 0 => i \in 1..Len(t) /\ i \notin 1..(Len(t) - 1)
    BY <1>2, <1>3, <1>4
  <2> QED BY <1>2, <2>1
<1>6. g.tags = t
  <2>1. SubSeq(t, 1, Len(t)) = t
    BY <1>2
  <2> QED BY <1>1, <1>5, <2>1 DEF Stopped
<1> QED BY <1>6

\* So the spliced loop is given what the training loop may be given.
LEMMA SplicedGenerations ==
  ASSUME NEW s, Sound(s), NEW g \in EvalTurn(s), loop = "spliced", s.force = 0
  PROVE  ~NeedsForcing(s) /\ [tags |-> g.tags, len |-> g.len] \in Generation
<1>1. ~NeedsForcing(s)
  BY DEF NeedsForcing, Sound, Sample
<1>2. g.tags \in Texts
  BY <1>1, UnforcedTurns
<1>3. g.len \in 1..MaxResponseLen
  <2>1. g.len # 0
    BY DEF EvalTurn
  <2>2. s.tokens \in Nat /\ g.len \in Nat /\ s.tokens + g.len <= MaxResponseLen
    BY TurnsAreTags DEF Sound, Sample
  <2> QED BY <2>1, <2>2, ConstantsAreNat
<1> QED BY <1>1, <1>2, <1>3 DEF Generation

\* One ingest of the training loop, as far as the two records are compared.
LEMMA RefusalFacts ==
  ASSUME NEW s \in Rollout
  PROVE  /\ Refuse(s).numHints = s.numHints /\ Refuse(s).hints = s.hints
         /\ Refuse(s).turns = s.turns /\ Refuse(s).malformed = s.malformed
         /\ ~Refuse(s).truncated => ~s.truncated
         /\ ~Refuse(s).completed => Refuse(s).resp < MaxResponseLen
<1> DEFINE ts == <<"<response>", "</response>">>
           t == Extended(s, ts, RefusalLen)
<1>1. /\ t.numHints = s.numHints /\ t.hints = s.hints /\ t.turns = s.turns
      /\ t.malformed = s.malformed /\ t.truncated = s.truncated
      /\ t.resp = s.resp
  BY DEF Rollout, Extended
<1>2. t \in Rollout
  <2>1. RefusalLen \in Nat
    BY RulesAssumption DEF RulesAssumption
  <2> HIDE DEF ts
  <2> QED BY <2>1, RepliesAreTags, ExtendedFacts DEF ts
<1>3. Refuse(s) = IF t.total >= MaxModelLen \/ t.resp >= MaxResponseLen THEN CutShort(t) ELSE t
  BY DEF Refuse, EnvironmentTurn
<1> HIDE DEF t
<1>4. /\ CutShort(t).numHints = t.numHints /\ CutShort(t).hints = t.hints
      /\ CutShort(t).turns = t.turns /\ CutShort(t).malformed = t.malformed
      /\ CutShort(t).truncated /\ CutShort(t).completed
  BY <1>2 DEF CutShort, Rollout
<1>5. t.resp \in Nat
  BY <1>2 DEF Rollout
<1> QED BY <1>1, <1>3, <1>4, <1>5, ConstantsAreNat

\* A reply to a training rollout: it gets the next hint, or it is cut short.
LEMMA InjectionFacts ==
  ASSUME NEW s \in Rollout
  PROVE  LET x == InjectHint(s) IN
         /\ x.numHints = s.numHints /\ x.hints = s.hints
         /\ x.turns = s.turns /\ x.malformed = s.malformed
         /\ x.tags = s.tags \o Reply /\ x.resp = s.resp
         /\ x.given = IF s.given < s.hints THEN s.given + 1 ELSE s.given
         /\ x.truncated \/ (~s.truncated /\ x.completed = s.completed)
         /\ ~x.completed => x.resp < MaxResponseLen
<1> DEFINE given == IF s.given < s.hints THEN s.given + 1 ELSE s.given
           u == [s EXCEPT !.given = given]
           t == Extended(u, Reply, HintLen)
<1>1. given \in Nat
  BY DEF Rollout
<1>2. /\ u \in Rollout /\ u.given = given
      /\ u.numHints = s.numHints /\ u.hints = s.hints /\ u.turns = s.turns
      /\ u.malformed = s.malformed /\ u.truncated = s.truncated
      /\ u.completed = s.completed /\ u.resp = s.resp /\ u.tags = s.tags
  <2> HIDE DEF given
  <2> QED BY <1>1 DEF Rollout
<1> HIDE DEF u
<1>3. /\ t.given = u.given /\ t.tags = u.tags \o Reply /\ t.completed = u.completed
      /\ t.numHints = u.numHints /\ t.hints = u.hints /\ t.turns = u.turns
      /\ t.malformed = u.malformed /\ t.truncated = u.truncated /\ t.resp = u.resp
  BY <1>2 DEF Rollout, Extended
<1>4. t \in Rollout
  BY <1>2, RepliesAreTags, ConstantsAreNat, ExtendedFacts
<1>5. InjectHint(s) = IF t.total >= MaxModelLen \/ t.resp >= MaxResponseLen
                      THEN CutShort(t) ELSE t
  BY DEF InjectHint, EnvironmentTurn, u
<1> HIDE DEF t
<1>6. /\ CutShort(t).given = t.given /\ CutShort(t).tags = t.tags
      /\ CutShort(t).numHints = t.numHints /\ CutShort(t).hints = t.hints
      /\ CutShort(t).turns = t.turns /\ CutShort(t).malformed = t.malformed
      /\ CutShort(t).truncated /\ CutShort(t).completed /\ CutShort(t).resp = t.resp
  BY <1>4 DEF CutShort, Rollout
<1>7. t.resp \in Nat
  BY <1>4 DEF Rollout
<1> HIDE DEF given
<1>8. CASE t.total >= MaxModelLen \/ t.resp >= MaxResponseLen
  BY <1>2, <1>3, <1>5, <1>6, <1>8 DEF given
<1>9. CASE ~(t.total >= MaxModelLen \/ t.resp >= MaxResponseLen)
  BY <1>2, <1>3, <1>5, <1>7, <1>9, ConstantsAreNat DEF given
<1> QED BY <1>8, <1>9

\* What ingest keeps of the marks and counts, unless it completes the rollout.
Counted(s, x) ==
  /\ x.turns = s.turns + 1 /\ x.hints = s.hints
  /\ x.numHints \in Nat /\ s.numHints <= x.numHints
  /\ ~x.truncated => ~s.truncated
  /\ ~x.malformed => ~s.malformed
  /\ ~x.completed => x.resp < MaxResponseLen

\* What it makes of the tape, unless the comparison ends here.
Followed(s, g, x) ==
  \/ x.truncated \/ x.malformed \/ x.numHints > MaxHints
  \/ /\ Contains(g.tags, "</request>") /\ ~x.completed
     /\ x.tags = (s.tags \o g.tags) \o Reply /\ x.resp = s.resp + g.len
     /\ x.numHints = s.numHints + 1
     /\ x.given = IF s.given < s.hints THEN s.given + 1 ELSE s.given
  \/ /\ ~Contains(g.tags, "</request>") /\ x.completed
     /\ x.tags = s.tags \o g.tags /\ x.resp = s.resp + g.len
     /\ x.numHints = s.numHints /\ x.given = s.given

\* One ingest, in these terms.
LEMMA IngestFacts ==
  ASSUME NEW s \in Rollout, NEW g \in Generation, ~s.completed
  PROVE  Counted(s, Ingest(s, g)) /\ Followed(s, g, Ingest(s, g))
<1> DEFINE tags == s.tags \o g.tags
           total == s.total + g.len
           resp == s.resp + g.len
           turns == s.turns + 1
           t == [s EXCEPT !.tags = tags, !.total = total, !.turns = turns, !.resp = resp]
           asked == Contains(g.tags, "</request>")
           malformed == \/ Contains(g.tags, "</response>")
                        \/ asked /\ ~Contains(g.tags, "<request>")
           x == Ingest(s, g)
<1>1. tags \in Seq(Tag) /\ total \in Nat /\ turns \in Nat /\ resp \in Nat
  <2>1. g.tags \in Seq(Tag) /\ g.len \in Nat
    BY RulesAssumption DEF RulesAssumption, Generation
  <2>2. s.tags \in Seq(Tag) /\ s.total \in Nat /\ s.turns \in Nat /\ s.resp \in Nat
    BY DEF Rollout
  <2> QED BY <2>1, <2>2
<1>2. x = IF t.resp >= MaxResponseLen THEN CutShort(t)
          ELSE IF malformed THEN [t EXCEPT !.malformed = TRUE, !.completed = TRUE]
          ELSE IF asked THEN AnswerRequest(t)
          ELSE Completed(t)
  BY DEF Ingest, Extended, Rollout
<1> HIDE DEF tags, total, resp, turns, malformed, asked, x
<1>3. /\ t \in Rollout /\ t.tags = tags /\ t.resp = resp /\ t.turns = turns
      /\ t.hints = s.hints /\ t.numHints = s.numHints /\ t.given = s.given
      /\ t.truncated = s.truncated /\ t.malformed = s.malformed
      /\ t.completed = s.completed
  BY <1>1 DEF Rollout
<1> HIDE DEF t
<1>4. s.numHints \in Nat /\ t.numHints \in Nat
  BY <1>3 DEF Rollout
<1> SUFFICES Counted(s, x) /\ Followed(s, g, x)
  BY DEF x
<1>5. CASE t.resp >= MaxResponseLen
  <2>1. /\ x = CutShort(t)
        /\ CutShort(t).turns = t.turns /\ CutShort(t).hints = t.hints
        /\ CutShort(t).numHints = t.numHints /\ CutShort(t).truncated
        /\ CutShort(t).malformed = t.malformed /\ CutShort(t).completed
    BY <1>2, <1>3, <1>5 DEF CutShort, Rollout
  <2>2. x.numHints \in Nat /\ s.numHints <= x.numHints
    BY <1>3, <1>4, <2>1
  <2> QED BY <1>3, <2>1, <2>2, Zenon DEF turns, Counted, Followed
<1>6. CASE ~(t.resp >= MaxResponseLen) /\ malformed
  <2> DEFINE y == [t EXCEPT !.malformed = TRUE, !.completed = TRUE]
  <2>1. /\ x = y
        /\ y.turns = t.turns /\ y.hints = t.hints /\ y.numHints = t.numHints
        /\ y.truncated = t.truncated /\ y.malformed /\ y.completed
    BY <1>2, <1>3, <1>6 DEF Rollout
  <2> HIDE DEF y
  <2>2. x.numHints \in Nat /\ s.numHints <= x.numHints
    BY <1>3, <1>4, <2>1
  <2> QED BY <1>3, <2>1, <2>2, Zenon DEF turns, Counted, Followed
<1>7. CASE ~(t.resp >= MaxResponseLen) /\ ~malformed /\ asked
  <2> DEFINE n == t.numHints + 1
             u == [t EXCEPT !.numHints = n]
  <2>1. /\ u \in Rollout /\ u.tags = t.tags /\ u.resp = t.resp /\ u.turns = t.turns
        /\ u.hints = t.hints /\ u.numHints = n /\ u.given = t.given
        /\ u.truncated = t.truncated /\ u.malformed = t.malformed
        /\ u.completed = t.completed
    <3>1. n \in Nat
      BY <1>4
    <3> HIDE DEF n
    <3> QED BY <1>3, <3>1 DEF Rollout
  <2>2. x = IF u.numHints > MaxHints THEN Refuse(u) ELSE InjectHint(u)
    BY <1>2, <1>7 DEF AnswerRequest
  <2> HIDE DEF u
  <2>3. n = s.numHints + 1 /\ n \in Nat /\ s.numHints <= n
    BY <1>3, <1>4
  <2> HIDE DEF n
  <2>4. CASE u.numHints > MaxHints
    BY <1>3, <2>1, <2>2, <2>3, <2>4, RefusalFacts DEF turns, Counted, Followed
  <2>5. CASE ~(u.numHints > MaxHints)
    <3>1. x = InjectHint(u)
      BY <2>2, <2>5
    <3>2. /\ x.numHints = u.numHints /\ x.hints = u.hints
          /\ x.turns = u.turns /\ x.malformed = u.malformed
          /\ x.tags = u.tags \o Reply /\ x.resp = u.resp
          /\ x.given = IF u.given < u.hints THEN u.given + 1 ELSE u.given
          /\ x.truncated \/ (~u.truncated /\ x.completed = u.completed)
          /\ ~x.completed => x.resp < MaxResponseLen
      BY <2>1, <3>1, InjectionFacts
    <3> QED BY <1>3, <1>7, <2>1, <2>3, <3>2 DEF turns, tags, resp, asked, Counted, Followed
  <2> QED BY <2>4, <2>5
<1>8. CASE ~(t.resp >= MaxResponseLen) /\ ~malformed /\ ~asked
  <2>1. /\ x = Completed(t)
        /\ Completed(t).turns = t.turns /\ Completed(t).hints = t.hints
        /\ Completed(t).numHints = t.numHints /\ Completed(t).truncated = t.truncated
        /\ Completed(t).malformed = t.malformed /\ Completed(t).completed
        /\ Completed(t).tags = t.tags /\ Completed(t).resp = t.resp
        /\ Completed(t).given = t.given
    BY <1>2, <1>3, <1>8 DEF Completed, Rollout
  <2>2. x.numHints \in Nat /\ s.numHints <= x.numHints
    BY <1>3, <1>4, <2>1
  <2> QED BY <1>3, <1>8, <2>1, <2>2, Zenon DEF turns, tags, resp, asked, Counted, Followed
<1> QED BY <1>5, <1>6, <1>7, <1>8

-----------------------------------------------------------------------------
(***************************************************************************)
(* The spliced loop beside the training loop.                              *)
(***************************************************************************)
\* The spliced loop's record s and the training loop's record r of the same
\* generations.  An answer on an open tape would have ended the loop, the
\* training loop is never ahead in turns, and it has budget left while it runs.
SameTape(s, r) ==
  /\ r.tags = s.tags /\ r.resp = s.tokens
  /\ r.numHints = s.numHints /\ r.given = s.given
  /\ r.completed <=> s.finish # "open"

Compares(s, r) ==
  /\ r.turns = s.turns
  /\ ~r.truncated /\ ~r.malformed /\ r.numHints <= MaxHints /\ s.closed = 0

Beside(s, r) ==
  /\ s.force = 0 /\ r.hints = s.hints /\ r.turns <= s.turns
  /\ s.finish = "open" => ~Contains(s.tags, "</answer>")
  /\ ~r.completed => r.resp < MaxResponseLen
  /\ Compares(s, r) => SameTape(s, r)

\* What neither a reply nor an unanswered turn brings onto the tape.
LEMMA NoAnswerOn ==
  ASSUME NEW s \in Seq(Tag), NEW u \in Seq(Tag)
  PROVE  /\ Contains(s \o u, "</answer>") <=>
              Contains(s, "</answer>") \/ Contains(u, "</answer>")
         /\ ~Contains(Reply, "</answer>") /\ ~Contains(<<"</think>">>, "</answer>")
<1>1. /\ Len(s \o u) = Len(s) + Len(u) /\ Len(s) \in Nat /\ Len(u) \in Nat
      /\ \A i \in 1..(Len(s) + Len(u)) :
           (s \o u)[i] = IF i <= Len(s) THEN s[i] ELSE u[i - Len(s)]
  BY ConcatProperties
<1>2. ASSUME NEW i \in 1..Len(s), s[i] = "</answer>" PROVE Contains(s \o u, "</answer>")
  <2>1. i \in 1..(Len(s) + Len(u)) /\ i <= Len(s)
    BY <1>1
  <2>2. i \in 1..Len(s \o u) /\ (s \o u)[i] = "</answer>"
    BY <1>1, <1>2, <2>1
  <2> QED BY <2>2 DEF Contains
<1>3. ASSUME NEW i \in 1..Len(u), u[i] = "</answer>" PROVE Contains(s \o u, "</answer>")
  <2>1. PICK j \in 1..(Len(s) + Len(u)) : j = Len(s) + i
    BY <1>1
  <2>2. ~(j <= Len(s)) /\ j - Len(s) = i
    BY <1>1, <2>1
  <2>3. j \in 1..Len(s \o u) /\ (s \o u)[j] = "</answer>"
    BY <1>1, <1>3, <2>2
  <2> QED BY <2>3 DEF Contains
<1>4. ASSUME NEW j \in 1..Len(s \o u), (s \o u)[j] = "</answer>"
      PROVE  Contains(s, "</answer>") \/ Contains(u, "</answer>")
  <2>1. CASE j <= Len(s)
    BY <1>1, <1>4, <2>1 DEF Contains
  <2>2. CASE ~(j <= Len(s))
    <3>1. j - Len(s) \in 1..Len(u) /\ u[j - Len(s)] = "</answer>"
      BY <1>1, <1>4, <2>2
    <3> QED BY <3>1 DEF Contains
  <2> QED BY <2>1, <2>2
<1>5. ~Contains(Reply, "</answer>")
  <2>1. CASE Nested
    BY <2>1 DEF Contains, Reply
  <2>2. CASE ~Nested
    BY <2>2 DEF Contains, Reply
  <2> QED BY <2>1, <2>2
<1>6. ~Contains(<<"</think>">>, "</answer>")
  BY DEF Contains
<1> QED BY <1>2, <1>3, <1>4, <1>5, <1>6 DEF Contains

\* One turn of the spliced loop, and what the training loop makes of it.
Trained(r, g) ==
  IF r.completed \/ r.turns = MaxTurns THEN r
  ELSE IF ~HasRoom(r) \/ ~Fits(r, g) THEN CutShort(r)
  ELSE Ingest(r, g)

\* The training record keeps the promises of a rollout that takes turns.
LEMMA TrainedIsTurning ==
  ASSUME NEW r, Turning(r), NEW g \in Generation
  PROVE  Turning(Trained(r, g))
<1>1. r.turns \in Nat /\ r.turns <= MaxTurns
  BY DEF Turning, Rollout
<1>2. CASE r.completed \/ r.turns = MaxTurns
  BY <1>2 DEF Trained
<1>3. CASE ~r.completed /\ r.turns # MaxTurns /\ (~HasRoom(r) \/ ~Fits(r, g))
  BY <1>3, CutShortKeepsTurning DEF Trained
<1>4. CASE ~r.completed /\ r.turns # MaxTurns /\ HasRoom(r) /\ Fits(r, g)
  <2>1. r.turns < MaxTurns
    BY <1>1, <1>4, ConstantsAreNat
  <2> QED BY <1>4, <2>1, IngestKeepsTurning DEF Trained
<1> QED BY <1>2, <1>3, <1>4

\* A generation of training ends at its first stop: it asks or answers, not both.
LEMMA AnswerEndsTurn ==
  ASSUME NEW g \in Generation
  PROVE  ~(Contains(g.tags, "</request>") /\ Contains(g.tags, "</answer>"))
<1>1. {"</request>", "</answer>"} \subseteq StopTag
  BY DEF StopTag
<1> QED BY <1>1, StopsAtStopTag

\* One generation, given to both loops, keeps them side by side.
LEMMA BesideTurn ==
  ASSUME NEW s, Sound(s), NEW r \in Rollout, Beside(s, r), s.finish = "open",
         NEW g \in EvalTurn(s), loop = "spliced"
  PROVE  Beside(Spliced(s, g), Trained(r, [tags |-> g.tags, len |-> g.len]))
<1> DEFINE t == Taken(s, g)
           x == Spliced(s, g)
           h == [tags |-> g.tags, len |-> g.len]
           y == Trained(r, h)
           answered == Contains(s.tags \o g.tags, "</answer>")
           asked == Contains(g.tags, "</request>")
           ended == [t EXCEPT !.finish = "stop"]
           cut == [t EXCEPT !.finish = "length"]
<1>1. ~NeedsForcing(s) /\ h \in Generation /\ h.tags = g.tags /\ h.len = g.len
  BY SplicedGenerations DEF Beside
<1>2. s.tags \in Seq(Tag) /\ g.tags \in Seq(Tag) /\ g.reason \in {"stop", "length"}
      /\ s.turns \in Nat /\ s.closed \in Nat /\ r.turns \in Nat /\ r.numHints \in Nat
  BY TurnsAreTags DEF Sound, Sample, Rollout
<1>3. /\ Sound(t) /\ t.tags = s.tags \o g.tags /\ t.tokens = s.tokens + g.len
      /\ t.turns = s.turns + 1 /\ t.hints = s.hints /\ t.force = s.force
      /\ t.given = s.given /\ t.numHints = s.numHints
      /\ t.closed = s.closed /\ t.finish = "open"
  BY TakenFacts
<1>4. \/ answered /\ x = ended
      \/ ~answered /\ asked /\ x = Serve(t)
      \/ ~answered /\ ~asked /\ g.reason = "stop" /\ x = Close(t)
      \/ ~answered /\ ~asked /\ g.reason = "length" /\ x = cut
  BY SplicedFacts
<1>5. answered <=> Contains(g.tags, "</answer>")
  BY <1>2, NoAnswerOn DEF Beside
<1>6. ~(asked /\ answered)
  BY <1>1, <1>5, AnswerEndsTurn
<1> HIDE DEF t, x, answered, asked
<1>7. /\ ended.finish = "stop" /\ ended.tags = t.tags /\ ended.tokens = t.tokens
      /\ ended.hints = t.hints /\ ended.force = t.force /\ ended.turns = t.turns
      /\ ended.given = t.given /\ ended.numHints = t.numHints /\ ended.closed = t.closed
  BY <1>3, FinishedFacts
<1>8. /\ cut.finish = "length" /\ cut.tags = t.tags /\ cut.tokens = t.tokens
      /\ cut.hints = t.hints /\ cut.force = t.force /\ cut.turns = t.turns
      /\ cut.given = t.given /\ cut.numHints = t.numHints /\ cut.closed = t.closed
  BY <1>3, FinishedFacts
<1>9. Markup = 0
  BY DEF Markup
<1>10. /\ Serve(t).tags = t.tags \o Reply /\ Serve(t).tokens = t.tokens
       /\ Serve(t).numHints = t.numHints + 1
       /\ Serve(t).given = IF t.given < t.hints THEN t.given + 1 ELSE t.given
       /\ Serve(t).hints = t.hints /\ Serve(t).force = t.force
       /\ Serve(t).turns = t.turns
       /\ Serve(t).closed = t.closed /\ Serve(t).finish = "open"
  <2>1. t.tokens \in Nat
    BY <1>3 DEF Sound, Sample
  <2>2. t.tokens + 0 = t.tokens
    BY <2>1
  <2> QED BY <1>3, <1>9, <2>2, ServeFacts
<1>11. /\ Close(t).closed = t.closed + 1
       /\ Close(t).hints = t.hints /\ Close(t).force = t.force
       /\ Close(t).turns = t.turns /\ Close(t).finish = "open"
       /\ Close(t).tags = t.tags \o <<"</think>">>
  BY <1>3, CloseFacts
<1> HIDE DEF ended, cut
<1>12. /\ x.force = 0 /\ x.hints = s.hints /\ x.turns = s.turns + 1
       /\ x.closed \in {s.closed, s.closed + 1}
  BY <1>3, <1>4, <1>7, <1>8, <1>10, <1>11, Zenon DEF Beside
<1>13. x.finish = "open" => ~Contains(x.tags, "</answer>")
  <2>1. t.tags \in Seq(Tag) /\ Reply \in Seq(Tag) /\ <<"</think>">> \in Seq(Tag)
    <3>1. <<"</think>">> \in Seq(Tag)
      <4>1. "</think>" \in Tag
        BY DEF Tag
      <4> QED BY <4>1
    <3>2. t.tags \in Seq(Tag)
      BY <1>3 DEF Sound, Sample
    <3> QED BY <3>1, <3>2, RepliesAreTags
  <2>2. ~answered => /\ ~Contains(t.tags \o Reply, "</answer>")
                     /\ ~Contains(t.tags \o <<"</think>">>, "</answer>")
    <3>1. answered <=> Contains(t.tags, "</answer>")
      BY <1>3 DEF answered
    <3> QED BY <2>1, <3>1, NoAnswerOn
  <2>3. x.finish # "open" \/ (~answered /\ x = Serve(t)) \/ (~answered /\ x = Close(t))
    BY <1>4, <1>7, <1>8
  <2> QED BY <1>10, <1>11, <2>2, <2>3, Zenon
<1>14. SUFFICES Beside(x, y)
  BY DEF x
<1> HIDE DEF h
<1>15. r.hints = s.hints /\ r.turns <= s.turns /\ (~r.completed => r.resp < MaxResponseLen)
  BY DEF Beside
<1>16. CASE r.completed \/ r.turns = MaxTurns
  <2>1. y = r
    BY <1>16 DEF Trained
  <2>2. r.turns <= x.turns /\ r.turns # x.turns
    BY <1>2, <1>12, <1>15
  <2> QED BY <1>12, <1>13, <1>15, <2>1, <2>2, Zenon DEF Beside, Compares
<1>17. CASE ~(r.completed \/ r.turns = MaxTurns) /\ (~HasRoom(r) \/ ~Fits(r, h))
  <2>1. /\ y = CutShort(r)
        /\ CutShort(r).truncated /\ CutShort(r).completed
        /\ CutShort(r).hints = r.hints /\ CutShort(r).turns = r.turns
    BY <1>17 DEF Trained, CutShort, Rollout
  <2>2. r.turns <= x.turns
    BY <1>2, <1>12, <1>15
  <2> QED BY <1>12, <1>13, <1>15, <2>1, <2>2, Zenon DEF Beside, Compares
<1>18. CASE ~(r.completed \/ r.turns = MaxTurns) /\ HasRoom(r) /\ Fits(r, h)
  <2>1. y = Ingest(r, h)
    BY <1>18 DEF Trained
  <2> HIDE DEF y
  <2>2. Counted(r, y) /\ Followed(r, h, y)
    BY <1>1, <1>18, <2>1, IngestFacts
  <2>3. y.turns <= x.turns
    BY <1>2, <1>12, <1>15, <2>2 DEF Counted
  <2>4. ASSUME Compares(x, y) PROVE SameTape(x, y)
    <3>1. r.numHints <= y.numHints /\ y.numHints <= MaxHints
      BY <2>2, <2>4 DEF Counted, Compares
    <3>2. r.numHints <= MaxHints
      <4>1. y.numHints \in Nat
        BY <2>2 DEF Counted
      <4> QED BY <1>2, <3>1, <4>1, ConstantsAreNat
    <3>3. r.turns = s.turns
      BY <1>2, <1>12, <2>2, <2>4 DEF Counted, Compares
    <3>4. s.closed = 0 /\ x.closed = 0
      BY <1>2, <1>12, <2>4 DEF Compares
    <3>5. SameTape(s, r)
      <4>1. ~r.truncated /\ ~r.malformed
        BY <2>2, <2>4 DEF Counted, Compares
      <4>2. Compares(s, r)
        BY <3>2, <3>3, <3>4, <4>1 DEF Compares
      <4> QED BY <4>2 DEF Beside
    <3>6. ~(y.truncated \/ y.malformed \/ y.numHints > MaxHints)
      <4>1. y.numHints \in Nat
        BY <2>2 DEF Counted
      <4>2. ~(y.numHints > MaxHints)
        BY <3>1, <4>1, ConstantsAreNat
      <4> QED BY <2>4, <4>2 DEF Compares
    <3>7. CASE asked
      <4>1. x = Serve(t)
        BY <1>4, <1>6, <3>7
      <4>2. /\ ~y.completed /\ y.tags = (r.tags \o g.tags) \o Reply
            /\ y.resp = r.resp + g.len /\ y.numHints = r.numHints + 1
            /\ y.given = IF r.given < r.hints THEN r.given + 1 ELSE r.given
        BY <1>1, <2>2, <3>6, <3>7, Zenon DEF Followed, asked
      <4> QED BY <1>3, <1>10, <1>15, <3>5, <4>1, <4>2, Zenon DEF SameTape
    <3>8. CASE ~asked
      <4>1. x = ended \/ x = cut
        <5>1. Close(t).closed # 0
          BY <1>2, <1>3, <1>11
        <5> QED BY <1>4, <3>4, <3>8, <5>1
      <4>2. /\ y.completed /\ y.tags = r.tags \o g.tags
            /\ y.resp = r.resp + g.len /\ y.numHints = r.numHints
            /\ y.given = r.given
        BY <1>1, <2>2, <3>6, <3>8, Zenon DEF Followed, asked
      <4>3. x.finish # "open"
        BY <1>7, <1>8, <4>1
      <4>4. /\ x.tags = t.tags /\ x.tokens = t.tokens
            /\ x.numHints = t.numHints /\ x.given = t.given
        BY <1>7, <1>8, <4>1, Zenon
      <4>5. /\ x.tags = s.tags \o g.tags /\ x.tokens = s.tokens + g.len
            /\ x.numHints = s.numHints /\ x.given = s.given
        BY <1>3, <4>4, Zenon
      <4> HIDE DEF y
      <4> QED BY <3>5, <4>2, <4>3, <4>5, Zenon DEF SameTape
    <3> QED BY <3>7, <3>8
  <2> QED BY <1>12, <1>13, <1>15, <2>2, <2>3, <2>4, Zenon DEF Beside, Counted
<1> QED BY <1>16, <1>17, <1>18

-----------------------------------------------------------------------------
(***************************************************************************)
(* The loops' invariants.                                                  *)
(***************************************************************************)
EvalInv ==
  /\ loop \in Loops
  /\ Sound(e) /\ Turning(train)
  /\ loop = "spliced" => e.force = 0

BesideInv == MaxResponseLen > 0 /\ loop = "spliced" => Beside(e, train)

\* They hold of a new sample.
LEMMA InitIsSound == Init => EvalInv /\ BesideInv /\ CutSpentItsBudget
<1> SUFFICES ASSUME Init PROVE EvalInv /\ BesideInv /\ CutSpentItsBudget
  OBVIOUS
<1>1. PICK h \in HintCounts, f \in IF loop = "spliced" THEN {0} ELSE Forces :
        e = [hints |-> h, force |-> f, tags |-> <<>>, tokens |-> 0, turns |-> 0,
             given |-> 0, numHints |-> 0, closed |-> 0, finish |-> "open"]
  BY DEF Init
<1>2. PICK p \in IF loop = "spliced" THEN PromptLens ELSE {0} : train = Fresh(p, e.hints)
  BY DEF Init
<1>3. h \in Nat /\ f \in Nat /\ p \in Nat /\ e.hints = h
  <2>1. HintCounts \subseteq Nat /\ Forces \subseteq Nat /\ PromptLens \subseteq Nat
    BY EvalAssumption DEF EvalAssumption
  <2>2. h \in Nat
    BY <2>1
  <2>3. f \in Nat
    BY <2>1
  <2>4. p \in Nat
    BY <2>1
  <2>5. e.hints = h
    BY <1>1
  <2> QED BY <2>2, <2>3, <2>4, <2>5
<1>4. Sound(e) /\ e.finish = "open" /\ (loop = "spliced" => e.force = 0)
  BY <1>1, <1>3 DEF Sound, Sample
<1>5. Turning(train)
  BY <1>2, <1>3, FreshIsTurning
<1>6. BesideInv
  <2> SUFFICES ASSUME MaxResponseLen > 0, loop = "spliced" PROVE Beside(e, train)
    BY DEF BesideInv
  <2>1. e.force = 0 /\ ~Contains(e.tags, "</answer>")
    BY <1>1, <1>4 DEF Contains
  <2>2. train.hints = e.hints /\ train.turns <= e.turns /\ train.resp < MaxResponseLen
    BY <1>1, <1>2, <1>3 DEF Fresh
  <2>3. SameTape(e, train)
    BY <1>1, <1>2, <1>3 DEF Fresh, SameTape
  <2> QED BY <2>1, <2>2, <2>3 DEF Beside
<1> QED BY <1>4, <1>5, <1>6 DEF Init, EvalInv, CutSpentItsBudget

\* Every step of every loop keeps them.
LEMMA StepIsSound ==
  ASSUME EvalInv, BesideInv, CutSpentItsBudget, [Next]_vars
  PROVE  EvalInv' /\ BesideInv' /\ CutSpentItsBudget'
<1> USE DEF Open, Goes
<1>1. Sound(e) /\ Turning(train) /\ loop \in Loops /\ (loop = "spliced" => e.force = 0)
  BY DEF EvalInv
<1>2. ASSUME OutOfBudget PROVE EvalInv' /\ BesideInv' /\ CutSpentItsBudget'
  <2>1. /\ e' = [e EXCEPT !.finish = "length"] /\ loop' = loop /\ train' = train
        /\ e.finish = "open" /\ e.tokens >= MaxResponseLen
    BY <1>2 DEF OutOfBudget
  <2>2. /\ Sound(e') /\ e'.finish = "length" /\ e'.tags = e.tags /\ e'.tokens = e.tokens
        /\ e'.hints = e.hints /\ e'.force = e.force /\ e'.turns = e.turns
        /\ e'.given = e.given /\ e'.numHints = e.numHints /\ e'.closed = e.closed
    BY <1>1, <2>1, FinishedFacts
  <2>3. ASSUME MaxResponseLen > 0, loop = "spliced" PROVE Beside(e', train)
    <3>1. Beside(e, train)
      BY <2>3 DEF BesideInv
    <3>2. ~Compares(e, train)
      <4>1. ASSUME Compares(e, train) PROVE FALSE
        <5>1. SameTape(e, train)
          BY <3>1, <4>1 DEF Beside
        <5>2. train.resp < MaxResponseLen /\ train.resp = e.tokens
          BY <2>1, <3>1, <5>1 DEF Beside, SameTape
        <5>3. e.tokens \in Nat
          BY <1>1 DEF Sound, Sample
        <5> QED BY <2>1, <5>2, <5>3, ConstantsAreNat
      <4> QED BY <4>1
    <3>3. ~Compares(e', train)
      BY <2>2, <3>2 DEF Compares
    <3> QED BY <2>2, <3>1, <3>3, Zenon DEF Beside
  <2> QED BY <1>1, <2>1, <2>2, <2>3 DEF EvalInv, BesideInv, CutSpentItsBudget
<1>3. ASSUME SplicedTurn PROVE EvalInv' /\ BesideInv' /\ CutSpentItsBudget'
  <2>1. PICK g \in EvalTurn(e) : e' = Spliced(e, g) /\ TrainOn(g)
    BY <1>3 DEF SplicedTurn
  <2>2. loop = "spliced" /\ loop' = loop /\ e.finish = "open" /\ e.force = 0
    BY <1>1, <1>3 DEF SplicedTurn
  <2> DEFINE h == [tags |-> g.tags, len |-> g.len]
  <2>3. h \in Generation /\ ~NeedsForcing(e)
    BY <1>1, <2>2, SplicedGenerations
  <2>4. train' = Trained(train, h)
    <3>1. h.tags = g.tags /\ h.len = g.len
      OBVIOUS
    <3>2. Fits(train, h) = Fits(train, g) /\ Ingest(train, h) = Ingest(train, g)
      <4> HIDE DEF h
      <4> QED BY <3>1, Zenon DEF Fits, Ingest
    <3> HIDE DEF h
    <3> QED BY <2>1, <3>2, Zenon DEF TrainOn, Trained
  <2>5. Turning(train')
    BY <1>1, <2>3, <2>4, TrainedIsTurning
  <2>6. Sound(e')
    BY <1>1, <2>1, SplicedIsSound
  <2>7. e'.force = 0
    <3>1. Sound(Taken(e, g)) /\ Taken(e, g).force = 0
      BY <1>1, <2>2, TakenFacts
    <3>2. /\ [Taken(e, g) EXCEPT !.finish = "stop"].force = 0
          /\ [Taken(e, g) EXCEPT !.finish = "length"].force = 0
          /\ Serve(Taken(e, g)).force = 0 /\ Close(Taken(e, g)).force = 0
      BY <3>1, FinishedFacts, ServeFacts, CloseFacts
    <3>3. e' \in {[Taken(e, g) EXCEPT !.finish = "stop"],
                  [Taken(e, g) EXCEPT !.finish = "length"],
                  Serve(Taken(e, g)), Close(Taken(e, g))}
      BY <1>1, <2>1, SplicedIsOneOf, Zenon
    <3> QED BY <3>2, <3>3, Zenon
  <2>8. ASSUME MaxResponseLen > 0 PROVE Beside(e', train')
    <3>1. Beside(e, train) /\ train \in Rollout
      BY <1>1, <2>2, <2>8 DEF BesideInv, Turning
    <3> QED BY <1>1, <2>1, <2>2, <2>4, <3>1, BesideTurn
  <2>9. CutSpentItsBudget'
    BY <1>1, <2>1, <2>2, <2>3, CutSpends DEF CutSpentItsBudget
  <2> QED BY <1>1, <2>2, <2>5, <2>6, <2>7, <2>8, <2>9 DEF EvalInv, BesideInv
<1>4. ASSUME AsyncTurn PROVE EvalInv' /\ BesideInv' /\ CutSpentItsBudget'
  <2>1. PICK g \in EvalTurn(e) : e' \in AsyncText(e, g)
    BY <1>4 DEF AsyncTurn
  <2>2. loop = "async text" /\ loop' = loop /\ train' = train /\ e.finish = "open"
    BY <1>4 DEF AsyncTurn
  <2>3. Sound(e') /\ (e'.finish = "length" => e'.tokens >= MaxResponseLen)
    BY <1>1, <2>1, <2>2, AsyncFacts
  <2> QED BY <1>1, <2>2, <2>3 DEF EvalInv, BesideInv, CutSpentItsBudget
<1>5. ASSUME SyncTurn PROVE EvalInv' /\ BesideInv' /\ CutSpentItsBudget'
  <2>1. PICK g \in EvalTurn(e) : e' \in SyncText(e, g)
    BY <1>5 DEF SyncTurn
  <2>2. loop = "sync text" /\ loop' = loop /\ train' = train
    BY <1>5 DEF SyncTurn
  <2>3. Sound(e')
    BY <1>1, <2>1, SyncFacts
  <2> QED BY <1>1, <2>2, <2>3 DEF EvalInv, BesideInv, CutSpentItsBudget
<1>6. ASSUME UNCHANGED vars PROVE EvalInv' /\ BesideInv' /\ CutSpentItsBudget'
  BY <1>6 DEF vars, EvalInv, BesideInv, CutSpentItsBudget
<1> QED BY <1>2, <1>3, <1>4, <1>5, <1>6 DEF Next

\* So they always hold.
LEMMA AlwaysSound == Spec => [](EvalInv /\ BesideInv /\ CutSpentItsBudget)
BY InitIsSound, StepIsSound, PTL DEF Spec

\* The evaluation loops have their type; no hint is given that was not there.
THEOREM TypeCorrect == Spec => []TypeOK
<1>1. EvalInv => TypeOK
  BY DEF EvalInv, TypeOK, Sound, Turning
<1> QED BY <1>1, AlwaysSound, PTL

\* The spliced loop of evaluation is the training loop: on the same generations
\* it has the same tape, hints and budget, and is done at the same turn.
THEOREM EvaluationMatchesTraining ==
  Spec => [](MaxResponseLen > 0 => AgreesWithTraining)
<1>1. BesideInv => (MaxResponseLen > 0 => AgreesWithTraining)
  BY Zenon DEF BesideInv, Beside, Compares, SameTape, AgreesWithTraining, Comparable, Open
<1> QED BY <1>1, AlwaysSound, PTL

\* A sample reported as cut spent its own budget, and no one else's.
THEOREM CutSamplesSpentTheirBudget == Spec => []CutSpentItsBudget
BY AlwaysSound, PTL

-----------------------------------------------------------------------------
(***************************************************************************)
(* Forced hints leave the committed transcript alone.                      *)
(***************************************************************************)
\* Cutting a longer tape behind its last reply keeps what was committed.
LEMMA KeepsTheCommitted ==
  ASSUME NEW s \in Seq(Tag), NEW u \in Seq(Tag), NEW k \in Seq(Tag),
         NEW n \in 0..Len(s \o u), n >= LastOf(s, "</response>")
  PROVE  IsPrefix(SubSeq(s, 1, LastOf(s, "</response>")), SubSeq(s \o u, 1, n) \o k)
<1> DEFINE m == LastOf(s, "</response>")
           p == SubSeq(s, 1, m)
           t == s \o u
           w == SubSeq(t, 1, n) \o k
<1>1. m \in 0..Len(s)
  BY LastOfIs
<1> HIDE DEF m
<1>2. p \in Seq(Tag) /\ Len(p) = m /\ \A i \in 1..m : p[i] = s[i]
  BY <1>1
<1>3. t \in Seq(Tag) /\ Len(t) = Len(s) + Len(u) /\ \A i \in 1..Len(s) : t[i] = s[i]
  BY ConcatProperties
<1>4. SubSeq(t, 1, n) \in Seq(Tag) /\ Len(SubSeq(t, 1, n)) = n
      /\ \A i \in 1..n : SubSeq(t, 1, n)[i] = t[i]
  <2> HIDE DEF t
  <2> QED BY <1>3
<1>5. w \in Seq(Tag) /\ Len(w) >= n /\ \A i \in 1..n : w[i] = t[i]
  <2> HIDE DEF t
  <2> QED BY <1>4, ConcatProperties
<1>6. n >= m
  BY DEF m
<1> HIDE DEF p, t, w
<1>7. \A i \in 1..m : w[i] = p[i]
  <2>1. ASSUME NEW i \in 1..m PROVE w[i] = p[i]
    <3>1. i \in 1..n /\ i \in 1..Len(s)
      BY <1>1, <1>6
    <3> QED BY <1>2, <1>3, <1>5, <3>1
  <2> QED BY <2>1
<1>8. Len(p) <= Len(w)
  BY <1>1, <1>2, <1>5, <1>6
<1>9. SubSeq(p, 1, Len(p)) = SubSeq(w, 1, Len(p))
  <2>1. m \in Nat /\ m <= Len(w)
    BY <1>1, <1>2, <1>8
  <2>2. Len(SubSeq(p, 1, m)) = m /\ Len(SubSeq(w, 1, m)) = m
    BY <1>2, <1>5, <2>1
  <2>3. \A i \in 1..m : SubSeq(p, 1, m)[i] = p[i] /\ SubSeq(w, 1, m)[i] = w[i]
    BY <1>2, <1>5, <2>1
  <2>4. SubSeq(p, 1, m) \in Seq(Tag) /\ SubSeq(w, 1, m) \in Seq(Tag)
    BY <1>2, <1>5, <2>1
  <2>5. \A i \in 1..m : SubSeq(p, 1, m)[i] = SubSeq(w, 1, m)[i]
    BY <1>7, <2>3
  <2>6. SubSeq(p, 1, m) = SubSeq(w, 1, m)
    BY <2>2, <2>4, <2>5, SeqEqual
  <2> QED BY <1>2, <2>6
<1>10. IsPrefix(p, w)
  BY <1>8, <1>9 DEF IsPrefix
<1> QED BY <1>10 DEF p, w, t, m

\* Texts appended to the tape, the simplest case.
LEMMA GrowingKeepsTheCommitted ==
  ASSUME NEW s \in Seq(Tag), NEW u \in Seq(Tag)
  PROVE  IsPrefix(SubSeq(s, 1, LastOf(s, "</response>")), s \o u)
<1>1. s \o u \in Seq(Tag) /\ Len(s \o u) = Len(s) + Len(u)
      /\ Len(s) \in Nat /\ Len(u) \in Nat
  BY ConcatProperties
<1>2. LastOf(s, "</response>") \in 0..Len(s)
  BY LastOfIs
<1>3. Len(s \o u) \in 0..Len(s \o u) /\ Len(s \o u) >= LastOf(s, "</response>")
  BY <1>1, <1>2
<1>4. SubSeq(s \o u, 1, Len(s \o u)) \o <<>> = s \o u
  BY <1>1
<1>5. <<>> \in Seq(Tag)
  OBVIOUS
<1>6. IsPrefix(SubSeq(s, 1, LastOf(s, "</response>")),
               SubSeq(s \o u, 1, Len(s \o u)) \o <<>>)
  BY <1>3, <1>5, KeepsTheCommitted
<1> QED BY <1>4, <1>6

\* A turn that is not forced only appends.
LEMMA SplicedKeepsTheCommitted ==
  ASSUME NEW s, Sound(s), NEW g \in EvalTurn(s)
  PROVE  IsPrefix(Committed(s), Spliced(s, g).tags)
<1> DEFINE t == Taken(s, g)
<1>1. s.tags \in Seq(Tag) /\ g.tags \in Seq(Tag)
  BY TurnsAreTags DEF Sound, Sample
<1>2. Sound(t) /\ t.tags = s.tags \o g.tags
  BY TakenFacts
<1>3. PICK u \in Seq(Tag) : Spliced(s, g).tags = s.tags \o u
  <2>1. <<"</think>">> \in Seq(Tag)
    <3>1. "</think>" \in Tag
      BY DEF Tag
    <3> QED BY <3>1
  <2>2. /\ [t EXCEPT !.finish = "stop"].tags = t.tags
        /\ [t EXCEPT !.finish = "length"].tags = t.tags
        /\ Serve(t).tags = t.tags \o Reply
        /\ Close(t).tags = t.tags \o <<"</think>">>
    <3> HIDE DEF t
    <3> QED BY <1>2, FinishedFacts, ServeFacts, CloseFacts
  <2>3. /\ g.tags \o Reply \in Seq(Tag) /\ g.tags \o <<"</think>">> \in Seq(Tag)
        /\ (s.tags \o g.tags) \o Reply = s.tags \o (g.tags \o Reply)
        /\ (s.tags \o g.tags) \o <<"</think>">> = s.tags \o (g.tags \o <<"</think>">>)
    <3>1. ASSUME NEW v \in Seq(Tag)
          PROVE  /\ g.tags \o v \in Seq(Tag)
                 /\ (s.tags \o g.tags) \o v = s.tags \o (g.tags \o v)
      BY <1>1, Joined
    <3> QED BY <2>1, <3>1, RepliesAreTags
  <2>4. Spliced(s, g) \in {[t EXCEPT !.finish = "stop"], [t EXCEPT !.finish = "length"],
                          Serve(t), Close(t)}
    BY SplicedIsOneOf, Zenon
  <2>5. Spliced(s, g).tags \in {t.tags, t.tags \o Reply, t.tags \o <<"</think>">>}
    <3> HIDE DEF t
    <3> QED BY <2>2, <2>4, Zenon
  <2> QED BY <1>1, <1>2, <2>3, <2>5, Zenon
<1> QED BY <1>1, <1>3, GrowingKeepsTheCommitted DEF Committed

\* A longer tape has its last reply where it was, or later.
LEMMA LaterReply ==
  ASSUME NEW s \in Seq(Tag), NEW u \in Seq(Tag)
  PROVE  LastOf(s \o u, "</response>") >= LastOf(s, "</response>")
<1> DEFINE ts == s \o u
           m == LastOf(s, "</response>")
           n == LastOf(ts, "</response>")
<1>1. ts \in Seq(Tag) /\ Len(ts) = Len(s) + Len(u) /\ Len(s) \in Nat /\ Len(u) \in Nat
      /\ \A i \in 1..Len(s) : ts[i] = s[i]
  BY Joined
<1>2. m \in 0..Len(s) /\ (m # 0 => s[m] = "</response>")
  BY LastOfIs
<1>3. n \in 0..Len(ts) /\ \A j \in (n + 1)..Len(ts) : ts[j] # "</response>"
  <2> HIDE DEF ts
  <2> QED BY <1>1, LastOfIs
<1> HIDE DEF m, n, ts
<1>4. ASSUME ~(n >= m) PROVE FALSE
  <2>1. m \in 1..Len(s) /\ m \in (n + 1)..Len(ts)
    BY <1>1, <1>2, <1>3, <1>4
  <2> QED BY <1>1, <1>2, <1>3, <2>1
<1> QED BY <1>4 DEF m, n, ts

\* A forced one is cut behind the last reply.
LEMMA ForcedKeepsTheCommitted ==
  ASSUME NEW s, Sound(s), NEW g \in EvalTurn(s), NEW x \in Forced(Taken(s, g)),
         NeedsForcing(s)
  PROVE  IsPrefix(Committed(s), x.tags)
<1> DEFINE t == Taken(s, g)
<1>1. s.tags \in Seq(Tag) /\ g.tags \in Seq(Tag)
  BY TurnsAreTags DEF Sound, Sample
<1>2. Sound(t) /\ t.tags = s.tags \o g.tags /\ NeedsForcing(t)
  BY TakenFacts DEF NeedsForcing
<1>3. PICK k \in Seq(Tag) : x.tags = SubSeq(t.tags, 1, TurnBegin(t.tags)) \o k
  <2> HIDE DEF t
  <2>1. x \in Forced(t)
    BY DEF t
  <2> QED BY <1>2, <2>1, ForcedFacts
<1> HIDE DEF t
<1> DEFINE ts == s.tags \o g.tags
<1>4. ts \in Seq(Tag) /\ Len(ts) = Len(s.tags) + Len(g.tags)
      /\ \A i \in 1..Len(s.tags) : ts[i] = s.tags[i]
  BY <1>1, Joined
<1>5. TurnBegin(ts) \in 0..Len(ts) /\ TurnBegin(ts) >= LastOf(ts, "</response>")
  <2> HIDE DEF ts
  <2> QED BY <1>4, TurnBeginIs
<1>6. LastOf(ts, "</response>") >= LastOf(s.tags, "</response>")
  BY <1>1, LaterReply
<1>7. TurnBegin(ts) >= LastOf(s.tags, "</response>")
  <2>1. LastOf(s.tags, "</response>") \in Int /\ LastOf(ts, "</response>") \in Int
    <3> HIDE DEF ts
    <3> QED BY <1>1, <1>4, LastOfIs
  <2> HIDE DEF ts
  <2> QED BY <1>5, <1>6, <2>1
<1> QED BY <1>1, <1>2, <1>3, <1>5, <1>7, KeepsTheCommitted DEF Committed

\* A loop that cuts only the turn being generated never rewrites a committed turn.
THEOREM CommittedTurnsAreKept == Spec => TurnsAreCutAlone
<1>1. ASSUME EvalInv, [Next]_vars, loop # "sync text" PROVE IsPrefix(Committed(e), e'.tags)
  <2>1. Sound(e) /\ e.tags \in Seq(Tag)
    BY <1>1 DEF EvalInv, Sound, Sample
  <2>2. IsPrefix(Committed(e), e.tags)
    <3>1. <<>> \in Seq(Tag) /\ e.tags \o <<>> = e.tags
      BY <2>1
    <3> QED BY <2>1, <3>1, GrowingKeepsTheCommitted DEF Committed
  <2>3. CASE OutOfBudget
    <3>1. e'.tags = e.tags
      BY <2>1, <2>3, FinishedFacts DEF OutOfBudget
    <3> QED BY <2>2, <3>1
  <2>4. CASE SplicedTurn
    BY <2>1, <2>4, SplicedKeepsTheCommitted DEF SplicedTurn
  <2>5. CASE AsyncTurn
    <3>1. PICK g \in EvalTurn(e) : e' \in AsyncText(e, g)
      BY <2>5 DEF AsyncTurn
    <3>2. e.finish = "open"
      BY <2>5 DEF AsyncTurn, Goes, Open
    <3>3. e' = Spliced(e, g) \/ (NeedsForcing(e) /\ e' \in Forced(Taken(e, g)))
      BY <2>1, <3>1, <3>2, AsyncFacts
    <3> QED BY <2>1, <3>3, SplicedKeepsTheCommitted, ForcedKeepsTheCommitted
  <2>6. CASE SyncTurn
    BY <1>1, <2>6 DEF SyncTurn
  <2>7. CASE UNCHANGED vars
    BY <2>2, <2>7 DEF vars
  <2> QED BY <1>1, <2>3, <2>4, <2>5, <2>6, <2>7 DEF Next
<1>2. EvalInv /\ [Next]_vars => [loop # "sync text" => IsPrefix(Committed(e), e'.tags)]_vars
  BY <1>1
<1> QED BY <1>2, AlwaysSound, PTL DEF Spec, TurnsAreCutAlone

-----------------------------------------------------------------------------
(***************************************************************************)
(* A policy that writes tidy turns.                                        *)
(***************************************************************************)
\* Each of its texts is reasoning, a closed block, a request, or an ending.
TidyTexts == {<<>>, Ask, <<"</think>">>} \cup Ending
Tidy == Texts \subseteq TidyTexts

\* A tape between two of its turns: whole exchanges, the last thing on it a reply.
Whole(s) ==
  /\ Tight(s) /\ ~Contains(s, "</answer>")
  /\ s = <<>> \/ \E u \in Seq(Tag) : s = u \o Reply
  /\ \E k \in 0..Len(s) : Exchanges(s, k) /\ After(s, k) = <<>>

\* The tapes its turns leave, while the loop has closed no text itself.
WholeInv ==
  Tidy /\ loop # "sync text" /\ e.closed = 0 =>
    /\ e.finish = "open" => Whole(e.tags)
    /\ e.finish = "stop" => WellFormed(e.tags)

\* The pieces the loop writes are tags.
LEMMA ThinkIsTag == <<"</think>">> \in Seq(Tag) /\ <<"<request>", "</request>">> \in Seq(Tag)
<1>1. {"</think>", "<request>", "</request>"} \subseteq Tag
  BY DEF Tag
<1>2. <<"</think>">> \in Seq(Tag)
  BY <1>1
<1>3. <<"<request>", "</request>">> \in Seq(Tag)
  BY <1>1
<1> QED BY <1>2, <1>3

\* An exchange after whole exchanges, or an ending.
LEMMA WholeExtended ==
  ASSUME NEW s \in Seq(Tag), Whole(s)
  PROVE  /\ Whole((s \o Ask) \o Reply)
         /\ \A v \in Ending : WellFormed(s \o v)
<1>1. PICK k \in 0..Len(s) : Exchanges(s, k) /\ After(s, k) = <<>>
  BY DEF Whole
<1>2. /\ Ask \in Seq(Tag) /\ Reply \in Seq(Tag) /\ Exchange \in Seq(Tag)
      /\ Exchange = Ask \o Reply
  BY ExchangeTags DEF Exchange
<1>3. Tight(s) /\ Tight(Exchange) /\ ~Contains(s, "</answer>")
  <2>1. CASE Nested
    BY <2>1 DEF Whole, Tight, Exchange, Ask, Reply, Loose
  <2>2. CASE ~Nested
    BY <2>2 DEF Whole, Tight, Exchange, Ask, Reply, Loose
  <2> QED BY <2>1, <2>2
<1>4. (s \o Ask) \o Reply = s \o Exchange /\ s \o Ask \in Seq(Tag)
  BY <1>2, Joined
<1>5. Whole(s \o Exchange)
  <2> DEFINE t == s \o Exchange
  <2>1. t \in Seq(Tag) /\ Tight(t)
    BY <1>2, <1>3, AppendTight, Joined
  <2>2. ~Contains(t, "</answer>")
    <3>1. ~Contains(Ask, "</answer>") /\ ~Contains(Reply, "</answer>")
      <4>1. CASE Nested
        BY <4>1 DEF Contains, Ask, Reply
      <4>2. CASE ~Nested
        BY <4>2 DEF Contains, Ask, Reply
      <4> QED BY <4>1, <4>2
    <3>2. ~Contains(s \o Ask, "</answer>")
      BY <1>2, <1>3, <3>1, NoAnswerOn
    <3> QED BY <1>2, <1>4, <3>1, <3>2, NoAnswerOn
  <2>3. \E u \in Seq(Tag) : t = u \o Reply
    BY <1>4
  <2>4. /\ Exchanges(t, k) /\ After(t, k) = After(s, k) \o Exchange
        /\ k \in 0..Len(t)
    BY <1>1, <1>2, AppendAfter
  <2>5. After(t, k) = Exchange \o <<>>
    BY <1>1, <1>2, <2>4
  <2>6. k + 1 \in 0..Len(t) /\ Exchanges(t, k + 1) /\ After(t, k + 1) = <<>>
    <3>1. <<>> \in Seq(Tag)
      OBVIOUS
    <3> HIDE DEF t
    <3> QED BY <2>1, <2>4, <2>5, <3>1, OneMoreExchange
  <2> HIDE DEF t
  <2>7. Whole(t)
    BY <2>1, <2>2, <2>3, <2>6 DEF Whole
  <2> QED BY <2>7 DEF t
<1>6. ASSUME NEW v \in Ending PROVE WellFormed(s \o v)
  <2>1. v \in Seq(Tag) /\ Tight(v)
    BY EndingsAreTags
  <2>2. After(s, k) \o v = v
    BY <1>1, <2>1
  <2>3. After(s, k) \o v \in Ending
    BY <2>2
  <2> QED BY <1>1, <1>3, <2>1, <2>3, EndingAccepted
<1> QED BY <1>4, <1>5, <1>6

\* On such a tape a turn begins at the end, whatever tidy text follows.
LEMMA TurnBeginsAtTheEnd ==
  ASSUME NEW s \in Seq(Tag), s = <<>> \/ \E u \in Seq(Tag) : s = u \o Reply,
         NEW v \in Seq(Tag), ~Contains(v, "</response>"), ~Contains(v, "<think>")
  PROVE  TurnBegin(s \o v) = Len(s)
<1> DEFINE ts == s \o v
           n == LastOf(ts, "</response>")
           tail == SubSeq(ts, n + 1, Len(ts))
           reopen == FirstOf(tail, {"<think>"})
<1>1. /\ ts \in Seq(Tag) /\ Len(ts) = Len(s) + Len(v) /\ Len(s) \in Nat /\ Len(v) \in Nat
      /\ \A i \in 1..Len(s) : ts[i] = s[i]
      /\ \A i \in 1..Len(v) : ts[Len(s) + i] = v[i]
  BY ConcatProperties
<1>2. /\ n \in 0..Len(ts) /\ (n # 0 => ts[n] = "</response>")
      /\ \A j \in (n + 1)..Len(ts) : ts[j] # "</response>"
  <2> HIDE DEF ts
  <2> QED BY <1>1, LastOfIs
<1>3. TurnBegin(ts) = IF Nested \/ reopen = 0 THEN n ELSE n + reopen
  BY DEF TurnBegin
<1>4. tail \in Seq(Tag) /\ Len(tail) = Len(ts) - n /\ \A i \in 1..Len(tail) : tail[i] = ts[n + i]
  <2> HIDE DEF ts, n
  <2> QED BY <1>1, <1>2
<1>5. /\ reopen \in 0..Len(tail)
      /\ reopen = 0 => \A j \in 1..Len(tail) : tail[j] # "<think>"
      /\ reopen # 0 => tail[reopen] = "<think>"
      /\ \A j \in 1..(reopen - 1) : tail[j] # "<think>"
  <2> HIDE DEF tail
  <2>1. /\ reopen \in 0..Len(tail)
        /\ reopen = 0 => \A j \in 1..Len(tail) : tail[j] \notin {"<think>"}
        /\ reopen # 0 => tail[reopen] \in {"<think>"}
        /\ \A j \in 1..(reopen - 1) : tail[j] \notin {"<think>"}
    BY <1>4, FirstOfIs
  <2> HIDE DEF reopen
  <2> QED BY <2>1
<1>6. /\ \A i \in 1..Len(v) : v[i] # "</response>"
      /\ \A i \in 1..Len(v) : v[i] # "<think>"
  BY DEF Contains
<1> HIDE DEF ts, n, tail, reopen
<1>7. n <= Len(s)
  <2>1. ASSUME n > Len(s) PROVE FALSE
    <3>1. PICK i \in 1..Len(v) : n = Len(s) + i
      <4>1. n - Len(s) \in 1..Len(v) /\ n = Len(s) + (n - Len(s))
        BY <1>1, <1>2, <2>1
      <4> QED BY <4>1
    <3>2. ts[n] = "</response>"
      BY <1>1, <1>2, <2>1
    <3> QED BY <1>1, <1>6, <3>1, <3>2
  <2> QED BY <1>1, <1>2, <2>1
<1>8. CASE s = <<>>
  <2>1. Len(s) = 0 /\ n = 0
    BY <1>1, <1>2, <1>7, <1>8
  <2>2. reopen = 0
    <3>1. ASSUME reopen # 0 PROVE FALSE
      <4>1. reopen \in 1..Len(v) /\ tail[reopen] = ts[reopen] /\ ts[reopen] = v[reopen]
        BY <1>1, <1>4, <1>5, <2>1, <3>1
      <4> QED BY <1>5, <1>6, <3>1, <4>1
    <3> QED BY <3>1
  <2> QED BY <1>3, <2>1, <2>2 DEF ts
<1>9. CASE s # <<>> /\ Nested
  <2>1. PICK u \in Seq(Tag) : s = u \o Reply
    BY <1>9
  <2>2. Len(s) = Len(u) + 2 /\ Len(u) \in Nat /\ s[Len(u) + 2] = "</response>"
    <3>1. Reply = <<"<response>", "</response>">>
      BY <1>9 DEF Reply
    <3>2. Len(Reply) = 2 /\ Reply[2] = "</response>" /\ Reply \in Seq(Tag)
      BY <3>1, RepliesAreTags
    <3>3. /\ Len(s) = Len(u) + Len(Reply) /\ Len(u) \in Nat
          /\ \A i \in 1..Len(Reply) : s[Len(u) + i] = Reply[i]
      <4>1. /\ Len(u \o Reply) = Len(u) + Len(Reply) /\ Len(u) \in Nat
            /\ \A i \in 1..Len(Reply) : (u \o Reply)[Len(u) + i] = Reply[i]
        BY RepliesAreTags, Joined, Zenon
      <4> QED BY <2>1, <4>1, Zenon
    <3>4. 2 \in 1..Len(Reply) /\ Len(Reply) \in 1..Len(Reply)
      BY <3>2
    <3> QED BY <3>2, <3>3, <3>4
  <2>3. Len(s) \in 1..Len(s) /\ ts[Len(s)] = "</response>"
    BY <1>1, <2>2
  <2>4. n = Len(s)
    <3>1. ASSUME n < Len(s) PROVE FALSE
      <4>1. Len(s) \in (n + 1)..Len(ts)
        BY <1>1, <1>2, <3>1
      <4> QED BY <1>2, <2>3, <4>1
    <3> QED BY <1>1, <1>2, <1>7, <3>1
  <2> QED BY <1>3, <1>9, <2>4 DEF ts
<1>10. CASE s # <<>> /\ ~Nested
  <2>1. PICK u \in Seq(Tag) : s = u \o Reply
    BY <1>10
  <2>2. /\ Len(s) = Len(u) + 3 /\ Len(u) \in Nat
        /\ s[Len(u) + 2] = "</response>" /\ s[Len(u) + 3] = "<think>"
    <3>1. Reply = <<"<response>", "</response>", "<think>">>
      BY <1>10 DEF Reply
    <3>2. /\ Len(Reply) = 3 /\ Reply[2] = "</response>" /\ Reply[3] = "<think>"
          /\ Reply \in Seq(Tag)
      BY <3>1, RepliesAreTags
    <3>3. /\ Len(s) = Len(u) + Len(Reply) /\ Len(u) \in Nat
          /\ \A i \in 1..Len(Reply) : s[Len(u) + i] = Reply[i]
      <4>1. /\ Len(u \o Reply) = Len(u) + Len(Reply) /\ Len(u) \in Nat
            /\ \A i \in 1..Len(Reply) : (u \o Reply)[Len(u) + i] = Reply[i]
        BY RepliesAreTags, Joined, Zenon
      <4> QED BY <2>1, <4>1, Zenon
    <3>4. 2 \in 1..Len(Reply) /\ Len(Reply) \in 1..Len(Reply)
      BY <3>2
    <3> QED BY <3>2, <3>3, <3>4
  <2>3. PICK m \in Nat : m = Len(u) + 2
    BY <2>2
  <2>4. Len(s) = m + 1 /\ ts[m] = "</response>" /\ ts[m + 1] = "<think>"
    <3>1. m \in 1..Len(s) /\ m + 1 \in 1..Len(s) /\ Len(s) = m + 1
      BY <2>2, <2>3
    <3>2. s[m] = "</response>" /\ s[m + 1] = "<think>"
      BY <2>2, <2>3
    <3> QED BY <1>1, <3>1, <3>2
  <2>5. n = m
    <3>1. ASSUME n < m PROVE FALSE
      <4>1. m \in (n + 1)..Len(ts)
        BY <1>1, <1>2, <2>4, <3>1
      <4> QED BY <1>2, <2>4, <4>1
    <3>2. ASSUME n = m + 1 PROVE FALSE
      BY <1>2, <2>4, <3>2
    <3> QED BY <1>2, <1>7, <2>4, <3>1, <3>2
  <2>6. 1 \in 1..Len(tail) /\ tail[1] = "<think>"
    BY <1>1, <1>4, <2>4, <2>5
  <2>7. reopen = 1
    <3>1. reopen # 0
      BY <1>5, <2>6
    <3>2. ASSUME reopen > 1 PROVE FALSE
      <4>1. 1 \in 1..(reopen - 1)
        BY <1>4, <1>5, <3>2
      <4> QED BY <1>5, <2>6, <4>1
    <3> QED BY <1>4, <1>5, <3>1, <3>2
  <2> QED BY <1>3, <1>10, <2>4, <2>5, <2>7 DEF ts
<1> QED BY <1>8, <1>9, <1>10

\* What a turn of a tidy policy consists of: one of its texts or, cut to be
\* forced, less than a request outside the block.
LEMMA StoppedAtOnce ==
  ASSUME NEW t \in Seq(Tag), NEW stops, Len(t) >= 1, t[1] \in stops
  PROVE  Stopped(t, stops) = <<t[1]>>
<1> DEFINE i == FirstOf(t, stops)
<1>1. /\ i \in 0..Len(t) /\ (i = 0 => \A j \in 1..Len(t) : t[j] \notin stops)
      /\ \A j \in 1..(i - 1) : t[j] \notin stops
  BY FirstOfIs
<1> HIDE DEF i
<1>2. i # 0
  BY <1>1
<1>3. ~(i > 1)
  <2>1. ASSUME i > 1 PROVE FALSE
    <3>1. 1 \in 1..(i - 1)
      BY <1>1, <2>1
    <3> QED BY <1>1, <3>1
  <2> QED BY <2>1
<1>4. i = 1
  BY <1>1, <1>2, <1>3
<1>5. SubSeq(t, 1, 1) = <<t[1]>>
  <2>1. SubSeq(t, 1, 1) \in Seq(Tag) /\ Len(SubSeq(t, 1, 1)) = 1
        /\ SubSeq(t, 1, 1)[1] = t[1]
    OBVIOUS
  <2>2. t[1] \in Tag
    OBVIOUS
  <2>3. <<t[1]>> \in Seq(Tag) /\ Len(<<t[1]>>) = 1 /\ <<t[1]>>[1] = t[1]
    BY <2>2
  <2>4. \A j \in 1..1 : SubSeq(t, 1, 1)[j] = <<t[1]>>[j]
    BY <2>1, <2>3
  <2> QED BY <2>1, <2>3, <2>4, SeqEqual
<1> QED BY <1>4, <1>5 DEF Stopped, i

\* The turns of a tidy policy.
LEMMA TidyTurns ==
  ASSUME Tidy, NEW s, Sound(s), NEW g \in EvalTurn(s)
  PROVE  /\ ~NeedsForcing(s) => g.tags \in TidyTexts
         /\ NeedsForcing(s) => \/ g.tags \in {<<>>, <<"</think>">>}
                               \/ Nested /\ g.tags = Ask
<1>1. ASSUME ~NeedsForcing(s) PROVE g.tags \in TidyTexts
  BY <1>1, UnforcedTurns DEF Tidy
<1>2. ASSUME NeedsForcing(s)
      PROVE  g.tags \in {<<>>, <<"</think>">>} \/ (Nested /\ g.tags = Ask)
  <2>1. PICK t \in Texts : g.tags = Stopped(t, StopsAt(s))
    BY DEF EvalTurn
  <2>2. StopsAt(s) = {"</request>", "</think>"}
    BY <1>2 DEF StopsAt
  <2>3. t \in Seq(Tag)
    BY RulesAssumption DEF RulesAssumption
  <2>4. t \in TidyTexts
    BY DEF Tidy
  <2>5. CASE t = <<>>
    <3>1. FirstOf(t, StopsAt(s)) = 0
      <4>1. FirstOf(t, StopsAt(s)) \in 0..Len(t)
        BY <2>3, FirstOfIs
      <4>2. Len(t) = 0
        BY <2>5
      <4> QED BY <4>1, <4>2
    <3> QED BY <2>1, <2>5, <3>1 DEF Stopped
  <2>6. CASE Nested /\ t = Ask
    <3>1. t = <<"<request>", "</request>">>
      BY <2>6 DEF Ask
    <3> DEFINE i == FirstOf(t, StopsAt(s))
    <3>2. i \in 0..Len(t) /\ (i # 0 => t[i] \in StopsAt(s))
      BY <2>3, FirstOfIs
    <3> HIDE DEF i
    <3>3. i \in {0, 2}
      BY <2>2, <3>1, <3>2
    <3>4. SubSeq(t, 1, 2) = t
      <4>1. Len(t) = 2
        BY <3>1
      <4>2. SubSeq(t, 1, Len(t)) = t
        BY <2>3
      <4> QED BY <4>1, <4>2
    <3>5. g.tags = t
      BY <2>1, <3>3, <3>4 DEF Stopped, i
    <3> QED BY <2>6, <3>5
  <2>7. CASE t # <<>> /\ ~(Nested /\ t = Ask)
    <3>1. Len(t) >= 1 /\ t[1] = "</think>"
      <4>1. t \in {<<"</think>">>, <<"</think>", "<answer>", "</answer>">>,
                   <<"</think>", "<abstain>">>, <<"</think>", "<request>", "</request>">>}
        BY <2>4, <2>7 DEF TidyTexts, Ending, Ask
      <4> QED BY <4>1
    <3>2. t[1] \in StopsAt(s)
      BY <2>2, <3>1
    <3>3. g.tags = <<t[1]>>
      BY <2>1, <2>3, <3>1, <3>2, StoppedAtOnce
    <3> QED BY <3>1, <3>3
  <2> QED BY <2>5, <2>6, <2>7
<1> QED BY <1>1, <1>2

\* None of their texts holds a reply; an answer ends one.
LEMMA TidyTags ==
  ASSUME NEW v \in TidyTexts
  PROVE  /\ v \in Seq(Tag) /\ ~Contains(v, "</response>") /\ ~Contains(v, "<think>")
         /\ Contains(v, "</answer>") => v \in Ending
         /\ Contains(v, "</request>") => v = Ask
<1>1. CASE v = <<>>
  BY <1>1 DEF Contains
<1>2. CASE v = <<"</think>">>
  BY <1>2, ThinkIsTag DEF Contains
<1>3. CASE v \in Ending
  <2>1. v \in Seq(Tag)
    BY <1>3, EndingsAreTags
  <2>2. CASE v = <<"</think>", "<answer>", "</answer>">>
    BY <1>3, <2>1, <2>2 DEF Contains
  <2>3. CASE v = <<"</think>", "<abstain>">>
    BY <1>3, <2>1, <2>3 DEF Contains
  <2> QED BY <1>3, <2>2, <2>3 DEF Ending
<1>4. CASE v = Ask
  <2>1. CASE Nested
    <3>1. v = <<"<request>", "</request>">>
      BY <1>4, <2>1 DEF Ask
    <3> QED BY <1>4, <3>1, ExchangeTags DEF Contains
  <2>2. CASE ~Nested
    <3>1. v = <<"</think>", "<request>", "</request>">>
      BY <1>4, <2>2 DEF Ask
    <3> QED BY <1>4, <3>1, ExchangeTags DEF Contains
  <2> QED BY <2>1, <2>2
<1> QED BY <1>1, <1>2, <1>3, <1>4 DEF TidyTexts

\* A turn that is to be forced before it said anything keeps nothing of it.
LEMMA ShortIsTidy ==
  ASSUME NEW v \in {<<>>, <<"</think>">>}
  PROVE  v \in Seq(Tag) /\ v \in TidyTexts
<1>1. CASE v = <<>>
  BY <1>1 DEF TidyTexts
<1>2. CASE v = <<"</think>">>
  BY <1>2, ThinkIsTag DEF TidyTexts
<1> QED BY <1>1, <1>2

\* Of a tidy turn that was cut to be forced, a forced hint keeps nothing.
LEMMA NothingKept ==
  ASSUME NEW v \in {<<>>, <<"</think>">>}
  PROVE  UpTo(UpTo(v, "<answer>"), "</think>") = <<>>
<1>1. v \in Seq(Tag)
  BY ShortIsTidy
<1>2. LastOf(v, "<answer>") = 0
  <2>1. LastOf(v, "<answer>") \in 0..Len(v)
        /\ (LastOf(v, "<answer>") # 0 => v[LastOf(v, "<answer>")] = "<answer>")
    BY <1>1, LastOfIs
  <2> QED BY <2>1
<1>3. UpTo(v, "<answer>") = v
  BY <1>2 DEF UpTo
<1> SUFFICES UpTo(v, "</think>") = <<>>
  BY <1>3
<1> DEFINE i == LastOf(v, "</think>")
<1>4. /\ i \in 0..Len(v) /\ \A j \in (i + 1)..Len(v) : v[j] # "</think>"
  BY <1>1, LastOfIs
<1> HIDE DEF i
<1>5. CASE v = <<>>
  <2>1. i = 0
    BY <1>4, <1>5
  <2> QED BY <1>5, <2>1 DEF UpTo, i
<1>6. CASE v = <<"</think>">>
  <2>1. i = 1
    BY <1>4, <1>6
  <2>2. SubSeq(v, 1, i - 1) = <<>>
    BY <1>6, <2>1
  <2> QED BY <2>1, <2>2 DEF UpTo, i
<1>7. v = <<>> \/ v = <<"</think>">>
  OBVIOUS
<1> QED BY <1>5, <1>6, <1>7, Zenon

\* So after whole exchanges a forced hint reads like one that was asked for.
LEMMA ForcedAfterTidy ==
  ASSUME NEW s \in Seq(Tag), Whole(s), NEW v \in {<<>>, <<"</think>">>},
         NEW ts \in ClosedForRequest(s \o v)
  PROVE  ts \o <<"<request>", "</request>">> = s \o Ask
<1> DEFINE t == s \o v
           last == IF Nested THEN <<>> ELSE <<"</think>">>
<1>1. v \in Seq(Tag) /\ v \in TidyTexts
  BY ShortIsTidy
<1>2. TurnBegin(t) = Len(s)
  BY <1>1, TidyTags, TurnBeginsAtTheEnd DEF Whole
<1>3. SubSeq(t, 1, Len(s)) = s /\ SubSeq(t, Len(s) + 1, Len(t)) = v
  BY <1>1
<1> DEFINE kept == UpTo(UpTo(v, "<answer>"), "</think>")
<1>4. kept = <<>>
  BY NothingKept
<1>5. \E k \in Prefixes(kept) \cup {kept} : ts = s \o k \o last
  <2> HIDE DEF kept
  <2>1. \E k \in Prefixes(kept) \cup {kept} :
          ts = SubSeq(t, 1, TurnBegin(t)) \o k \o last
    BY <1>2, <1>3 DEF ClosedForRequest, kept
  <2> QED BY <1>2, <1>3, <2>1
<1>6. ASSUME NEW k \in Prefixes(<<>>) PROVE k = <<>>
  <2>1. PICK l \in 0..Len(<<>>) : k = SubSeq(<<>>, 1, l)
    BY DEF Prefixes
  <2>2. l = 0
    BY <2>1
  <2> QED BY <2>1, <2>2
<1>7. ts = s \o <<>> \o last
  BY <1>4, <1>5, <1>6
<1>8. s \o <<>> = s
  OBVIOUS
<1>9. last \in Seq(Tag)
  BY ThinkIsTag
<1>10. last \o <<"<request>", "</request>">> = Ask
  <2>1. CASE Nested
    BY <2>1, ThinkIsTag DEF Ask
  <2>2. CASE ~Nested
    <3>1. <<"</think>">> \o <<"<request>", "</request>">> = <<"</think>", "<request>", "</request>">>
      <4>1. {"</think>", "<request>", "</request>"} \subseteq Tag
        BY DEF Tag
      <4> QED BY <4>1, OneAndTwo
    <3> QED BY <2>2, <3>1 DEF Ask
  <2> QED BY <2>1, <2>2
<1> HIDE DEF last
<1>11. (s \o last) \o <<"<request>", "</request>">> = s \o (last \o <<"<request>", "</request>">>)
  BY <1>9, ThinkIsTag, Joined
<1> QED BY <1>7, <1>8, <1>10, <1>11

\* A tidy turn of the spliced loop, or an unforced one of the text loop.
LEMMA TidySpliced ==
  ASSUME Tidy, NEW s, Sound(s), s.finish = "open", Whole(s.tags), NEW g \in EvalTurn(s),
         Spliced(s, g).closed = 0
  PROVE  /\ Spliced(s, g).finish = "open" => Whole(Spliced(s, g).tags)
         /\ Spliced(s, g).finish = "stop" => WellFormed(Spliced(s, g).tags)
<1> DEFINE t == Taken(s, g)
           x == Spliced(s, g)
<1>1. s.tags \in Seq(Tag) /\ g.tags \in Seq(Tag) /\ s.closed \in Nat
  BY TurnsAreTags DEF Sound, Sample
<1>2. Sound(t) /\ t.tags = s.tags \o g.tags /\ t.closed = s.closed /\ t.finish = "open"
  BY TakenFacts
<1>3. /\ [t EXCEPT !.finish = "stop"].tags = t.tags
      /\ [t EXCEPT !.finish = "stop"].finish = "stop"
      /\ [t EXCEPT !.finish = "length"].finish = "length"
      /\ Serve(t).tags = t.tags \o Reply /\ Serve(t).finish = "open"
      /\ Close(t).closed = t.closed + 1
  <2> HIDE DEF t
  <2> QED BY <1>2, FinishedFacts, ServeFacts, CloseFacts
<1>4. \/ x.finish = "stop" /\ x.tags = t.tags /\ Contains(t.tags, "</answer>")
      \/ x.finish = "open" /\ x.tags = t.tags \o Reply /\ Contains(g.tags, "</request>")
      \/ x.finish = "length"
  <2>1. Close(t).closed # 0
    BY <1>1, <1>2, <1>3
  <2>2. \/ Contains(s.tags \o g.tags, "</answer>") /\ x = [t EXCEPT !.finish = "stop"]
        \/ Contains(g.tags, "</request>") /\ x = Serve(t)
        \/ x = Close(t)
        \/ x = [t EXCEPT !.finish = "length"]
    BY SplicedFacts
  <2>3. x.closed = 0
    OBVIOUS
  <2> HIDE DEF t, x
  <2> QED BY <1>2, <1>3, <2>1, <2>2, <2>3, Zenon
<1> HIDE DEF t, x
<1>5. g.tags \in TidyTexts
  <2>1. \/ g.tags \in TidyTexts
        \/ g.tags \in {<<>>, <<"</think>">>}
        \/ g.tags = Ask
    BY TidyTurns
  <2> QED BY <2>1, ShortIsTidy DEF TidyTexts
<1>6. Contains(t.tags, "</answer>") => g.tags \in Ending
  <2>1. Contains(t.tags, "</answer>") => Contains(g.tags, "</answer>")
    BY <1>1, <1>2, NoAnswerOn DEF Whole
  <2> QED BY <1>5, <2>1, TidyTags
<1>7. Contains(g.tags, "</request>") => g.tags = Ask
  BY <1>5, TidyTags
<1>8. /\ Whole((s.tags \o Ask) \o Reply)
      /\ \A v \in Ending : WellFormed(s.tags \o v)
  BY <1>1, WholeExtended
<1>9. /\ x.finish = "open" => Whole(x.tags)
      /\ x.finish = "stop" => WellFormed(x.tags)
  <2>1. CASE x.finish = "stop" /\ x.tags = t.tags /\ Contains(t.tags, "</answer>")
    BY <1>2, <1>6, <1>8, <2>1
  <2>2. CASE x.finish = "open" /\ x.tags = t.tags \o Reply /\ Contains(g.tags, "</request>")
    BY <1>2, <1>7, <1>8, <2>2
  <2>3. CASE x.finish = "length"
    BY <2>3
  <2> QED BY <1>4, <2>1, <2>2, <2>3
<1> QED BY <1>9 DEF x

\* A forced turn: its request and hint complete one more exchange.
LEMMA TidyForced ==
  ASSUME Tidy, NEW s, Sound(s), s.finish = "open", Whole(s.tags), NEW g \in EvalTurn(s),
         NeedsForcing(s), ForcesHere(Taken(s, g), g), NEW x \in Forced(Taken(s, g))
  PROVE  x.finish = "open" /\ Whole(x.tags)
<1> DEFINE t == Taken(s, g)
<1>1. s.tags \in Seq(Tag) /\ g.tags \in Seq(Tag)
  BY TurnsAreTags DEF Sound, Sample
<1>2. Sound(t) /\ t.tags = s.tags \o g.tags /\ t.finish = "open" /\ NeedsForcing(t)
  BY TakenFacts DEF NeedsForcing
<1>3. g.tags \in {<<>>, <<"</think>">>}
  <2>1. g.tags \in {<<>>, <<"</think>">>} \/ (Nested /\ g.tags = Ask)
    BY TidyTurns
  <2>2. ASSUME Nested, g.tags = Ask PROVE FALSE
    <3>1. Ask = <<"<request>", "</request>">>
      BY <2>2 DEF Ask
    <3>2. Contains(Ask, "</request>") /\ ~Contains(Ask, "</answer>")
      BY <3>1 DEF Contains
    <3>3. ~Contains(t.tags, "</answer>")
      BY <1>1, <1>2, <2>2, <3>2, NoAnswerOn DEF Whole
    <3>4. g.reason = "length"
      BY <2>2, <3>2, <3>3 DEF ForcesHere
    <3>5. "</request>" \in StopsAt(s)
      BY DEF StopsAt
    <3>6. \A i \in DOMAIN g.tags : g.tags[i] \notin StopsAt(s)
      BY <3>4 DEF EvalTurn
    <3>7. DOMAIN g.tags = 1..Len(g.tags)
      BY <1>1
    <3> QED BY <2>2, <3>2, <3>5, <3>6, <3>7 DEF Contains
  <2> QED BY <2>1, <2>2
<1>4. x.finish = "open" /\ \E ts \in ClosedForRequest(t.tags) :
        x.tags = ts \o <<"<request>", "</request>">> \o Reply
  <2> HIDE DEF t
  <2>1. x \in Forced(t)
    BY DEF t
  <2> QED BY <1>2, <2>1, ForcedFacts
<1>5. PICK ts \in ClosedForRequest(s.tags \o g.tags) :
        x.tags = (ts \o <<"<request>", "</request>">>) \o Reply
  BY <1>2, <1>4
<1>6. ts \o <<"<request>", "</request>">> = s.tags \o Ask
  BY <1>1, <1>3, ForcedAfterTidy
<1>7. x.tags = (s.tags \o Ask) \o Reply
  BY <1>5, <1>6, Zenon
<1> QED BY <1>1, <1>4, <1>7, WholeExtended

\* No text is opened again: with none closed after a turn, there was none before.
LEMMA ClosedNeverDrops ==
  ASSUME NEW s, Sound(s), s.finish = "open", NEW g \in EvalTurn(s), NEW x,
         \/ x = Spliced(s, g)
         \/ NeedsForcing(s) /\ x \in Forced(Taken(s, g)),
         x.closed = 0
  PROVE  s.closed = 0
<1> DEFINE t == Taken(s, g)
<1>1. Sound(t) /\ t.closed = s.closed /\ s.closed \in Nat
      /\ (NeedsForcing(t) <=> NeedsForcing(s))
  BY TakenFacts DEF NeedsForcing, Sound, Sample
<1>2. CASE x = Spliced(s, g)
  <2>1. x.closed \in {s.closed, s.closed + 1}
    <3>1. /\ [t EXCEPT !.finish = "stop"].closed = t.closed
          /\ [t EXCEPT !.finish = "length"].closed = t.closed
          /\ Serve(t).closed = t.closed /\ Close(t).closed = t.closed + 1
      <4> HIDE DEF t
      <4> QED BY <1>1, FinishedFacts, ServeFacts, CloseFacts
    <3>2. x \in {[t EXCEPT !.finish = "stop"], [t EXCEPT !.finish = "length"],
                Serve(t), Close(t)}
      BY <1>2, SplicedIsOneOf, Zenon
    <3> HIDE DEF t
    <3> QED BY <1>1, <3>1, <3>2, Zenon
  <2> QED BY <1>1, <2>1
<1>3. CASE NeedsForcing(s) /\ x \in Forced(t)
  <2> HIDE DEF t
  <2> QED BY <1>1, <1>3, ForcedFacts
<1> QED BY <1>2, <1>3

\* A new sample has no turns.
LEMMA WholeInitially == Init => WholeInv
<1> SUFFICES ASSUME Init PROVE WholeInv
  OBVIOUS
<1>1. e.tags = <<>> /\ e.finish = "open"
  BY DEF Init
<1>2. Whole(<<>>)
  <2>1. Tight(<<>>) /\ ~Contains(<<>>, "</answer>")
    BY DEF Tight, Contains
  <2>2. Len(Exchange) \in {4, 6}
    BY ExchangeTags
  <2>3. 0 * Len(Exchange) = 0
    BY <2>2
  <2>4. 0 \in 0..Len(<<>>) /\ Exchanges(<<>>, 0)
    <3>1. Len(<<>>) = 0
      OBVIOUS
    <3> QED BY <2>3, <3>1 DEF Exchanges
  <2>5. After(<<>>, 0) = <<>>
    <3>1. SubSeq(<<>>, 0 + 1, Len(<<>>)) = <<>>
      OBVIOUS
    <3> QED BY <2>3, <3>1 DEF After
  <2> QED BY <2>1, <2>4, <2>5 DEF Whole
<1> QED BY <1>1, <1>2 DEF WholeInv

\* Every step keeps whole what is open, and ends it well formed.
LEMMA WholeStays ==
  ASSUME EvalInv, WholeInv, [Next]_vars
  PROVE  WholeInv'
<1> SUFFICES ASSUME Tidy, loop' # "sync text", e'.closed = 0
             PROVE  /\ e'.finish = "open" => Whole(e'.tags)
                    /\ e'.finish = "stop" => WellFormed(e'.tags)
  BY DEF WholeInv
<1>1. Sound(e)
  BY DEF EvalInv
<1>2. loop' = loop
  BY DEF Next, OutOfBudget, SplicedTurn, AsyncTurn, SyncTurn, vars
<1>3. CASE OutOfBudget
  <2>1. e'.finish = "length"
    BY <1>1, <1>3, FinishedFacts DEF OutOfBudget
  <2> QED BY <2>1
<1>4. CASE SplicedTurn \/ AsyncTurn
  <2>1. e.finish = "open"
    BY <1>4 DEF SplicedTurn, AsyncTurn, Goes, Open
  <2>2. PICK g \in EvalTurn(e) :
          \/ e' = Spliced(e, g)
          \/ /\ NeedsForcing(e) /\ ForcesHere(Taken(e, g), g)
             /\ e' \in Forced(Taken(e, g))
    <3>1. CASE SplicedTurn
      BY <3>1 DEF SplicedTurn
    <3>2. CASE AsyncTurn
      <4>1. PICK g \in EvalTurn(e) : e' \in AsyncText(e, g)
        BY <3>2 DEF AsyncTurn
      <4> QED BY <1>1, <2>1, <4>1, AsyncFacts
    <3> QED BY <1>4, <3>1, <3>2
  <2>3. e.closed = 0
    BY <1>1, <2>1, <2>2, ClosedNeverDrops
  <2>4. Whole(e.tags)
    BY <1>2, <2>1, <2>3 DEF WholeInv
  <2>5. CASE e' = Spliced(e, g)
    BY <1>1, <2>1, <2>4, <2>5, TidySpliced
  <2>6. CASE NeedsForcing(e) /\ ForcesHere(Taken(e, g), g) /\ e' \in Forced(Taken(e, g))
    BY <1>1, <2>1, <2>4, <2>6, TidyForced
  <2> QED BY <2>2, <2>5, <2>6
<1>5. CASE SyncTurn
  BY <1>2, <1>5 DEF SyncTurn
<1>6. CASE UNCHANGED vars
  <2>1. e' = e /\ loop' = loop
    BY <1>6 DEF vars
  <2> QED BY <2>1 DEF WholeInv
<1> QED BY <1>3, <1>4, <1>5, <1>6 DEF Next

\* From a policy that writes tidy turns, a sample that stops on an answer is one
\* the reward's validator accepts, forced hints and all, unless the loop closed a
\* text for it or, in the synchronous text loop, cut into the transcript.
THEOREM TidyStopsAreWellFormed == Spec => [](Tidy => StoppedIsWellFormed)
<1>1. Init => WholeInv
  BY WholeInitially
<1>2. EvalInv /\ WholeInv /\ [Next]_vars => WholeInv'
  BY WholeStays
<1>3. WholeInv => (Tidy => StoppedIsWellFormed)
  BY DEF WholeInv, StoppedIsWellFormed
<1> QED BY <1>1, <1>2, <1>3, AlwaysSound, PTL DEF Spec

-----------------------------------------------------------------------------
(***************************************************************************)
(* How long a sample may go on: every step uses up a hint, tokens of the   *)
(* budget, or the sample itself.                                           *)
(***************************************************************************)
RoomLeft(s) == IF s.tokens >= MaxResponseLen THEN 0 ELSE MaxResponseLen - s.tokens

\* A forced hint may hand back the tokens of the text it cuts, and so weighs
\* more than the whole budget.
StepsLeft ==
  (e.hints - e.given) * (MaxResponseLen + 2) + (IF Open(e) THEN RoomLeft(e) + 1 ELSE 0)

ComesNearer == StepsLeft' \in Nat /\ StepsLeft' < StepsLeft

\* What a step leaves of a sample it does not end: a hint less, or less budget.
GoesOn(s, x) ==
  /\ x.hints = s.hints /\ x.given >= s.given
  /\ x.given > s.given \/ ~Open(x) \/ x.tokens > s.tokens

\* One hint less outweighs any budget.
LEMMA HintsOutweigh ==
  ASSUME NEW m \in Nat, NEW w \in Nat, NEW b \in Nat, m > b
  PROVE  m * w \in Nat /\ b * w \in Nat /\ m * w >= b * w + w
<1> DEFINE d == m - b - 1
<1>1. d \in Nat /\ m = b + 1 + d
  OBVIOUS
<1> HIDE DEF d
<1>2. d * w \in Nat /\ b * w \in Nat
  BY <1>1
<1>3. m * w = b * w + w + d * w
  BY <1>1
<1> QED BY <1>2, <1>3

LEMMA RoomIsBounded ==
  ASSUME NEW n \in Nat, NEW m \in Nat, NEW k, k = IF n >= m THEN 0 ELSE m - n
  PROVE  k \in Nat /\ k <= m
OBVIOUS

LEMMA RoomShrinks ==
  ASSUME NEW m \in Nat, NEW n \in Nat, NEW k \in Nat, n < m, k > n
  PROVE  (IF k >= m THEN 0 ELSE m - k) < (IF n >= m THEN 0 ELSE m - n)
OBVIOUS

\* A sample that goes on in this way comes nearer to its end.
LEMMA GoingOnComesNearer ==
  ASSUME Sound(e), Open(e), Sound(e'), GoesOn(e, e'),
         e'.given > e.given \/ ~Open(e)' \/ e.tokens < MaxResponseLen
  PROVE  ComesNearer
<1> DEFINE w == MaxResponseLen + 2
           a == e.hints - e.given
           b == e'.hints - e'.given
           x == RoomLeft(e) + 1
           y == IF Open(e)' THEN RoomLeft(e)' + 1 ELSE 0
<1>1. /\ e.tokens \in Nat /\ e'.tokens \in Nat /\ e.hints \in Nat /\ e'.hints \in Nat
      /\ e.given \in Nat /\ e'.given \in Nat
      /\ e.given <= e.hints /\ e'.given <= e'.hints
  BY DEF Sound, Sample
<1>2. MaxResponseLen \in Nat
  BY ConstantsAreNat
<1>3. /\ RoomLeft(e) \in Nat /\ RoomLeft(e) <= MaxResponseLen
      /\ RoomLeft(e)' \in Nat /\ RoomLeft(e)' <= MaxResponseLen
  BY <1>1, <1>2, RoomIsBounded DEF RoomLeft
<1>4. a \in Nat /\ b \in Nat /\ w \in Nat
  BY <1>1, <1>2
<1>5. x \in Nat /\ y \in Nat /\ x >= 1 /\ y < w
  BY <1>2, <1>3
<1>6. a > b \/ (a = b /\ y < x)
  <2>1. CASE e'.given > e.given
    BY <1>1, <2>1 DEF GoesOn
  <2>2. CASE e'.given = e.given /\ ~Open(e)'
    BY <1>1, <1>3, <2>2 DEF GoesOn
  <2>3. CASE e'.given = e.given /\ Open(e)'
    <3>1. e'.tokens > e.tokens /\ e.tokens < MaxResponseLen
      BY <1>1, <2>3 DEF GoesOn, Open
    <3>2. RoomLeft(e)' < RoomLeft(e)
      BY <1>1, <1>2, <3>1, RoomShrinks DEF RoomLeft
    <3>3. a = b
      BY <1>1, <2>3 DEF GoesOn
    <3> QED BY <1>3, <3>2, <3>3
  <2> QED BY <1>1, <2>1, <2>2, <2>3 DEF GoesOn
<1>7. StepsLeft = a * w + x /\ StepsLeft' = b * w + y
  BY DEF StepsLeft
<1> HIDE DEF w, a, b, x, y
<1>8. a * w \in Nat /\ b * w \in Nat /\ (a > b => a * w >= b * w + w)
  BY <1>4, HintsOutweigh
<1>9. b * w + y \in Nat /\ b * w + y < a * w + x
  <2>1. CASE a > b
    BY <1>4, <1>5, <1>8, <2>1
  <2>2. CASE a = b /\ y < x
    BY <1>5, <1>8, <2>2
  <2> QED BY <1>6, <2>1, <2>2
<1> QED BY <1>7, <1>9 DEF ComesNearer

LEMMA SomethingIsCharged ==
  ASSUME NEW a \in Nat, NEW n \in Nat, NEW m \in Nat, n # 0 \/ m >= 1
  PROVE  (a + n) + m > a
OBVIOUS

\* A turn that was cut, or closed, or asked for a hint: the budget shrinks, for
\* a text without tokens is one that a text loop closes, at the cost of the tag.
LEMMA SplicedGoesOn ==
  ASSUME NEW s, Sound(s), Open(s), NEW g \in EvalTurn(s)
  PROVE  GoesOn(s, Spliced(s, g))
<1> DEFINE t == Taken(s, g)
           x == Spliced(s, g)
<1>1. /\ Sound(t) /\ t.given = s.given /\ t.hints = s.hints /\ t.finish = "open"
      /\ t.tokens = s.tokens + g.len /\ s.given \in Nat /\ s.tokens \in Nat
      /\ g.len \in Nat
  BY TakenFacts, TurnsAreTags DEF Sound, Sample, Open
<1>2. g.len = 0 => loop # "spliced" /\ g.tags = <<>> /\ g.reason = "stop"
  BY DEF EvalTurn
<1>3. Markup \in Nat /\ (loop # "spliced" => Markup >= 1)
  <2>1. MarkupLen \in Nat /\ MarkupLen >= 1
    <3>1. MarkupLen \in Nat \ {0}
      BY EvalAssumption, Zenon DEF EvalAssumption
    <3> QED BY <3>1
  <2> QED BY <2>1, MarkupIsNat DEF Markup
<1>4. \/ x = [t EXCEPT !.finish = "stop"]
      \/ x = [t EXCEPT !.finish = "length"]
      \/ Contains(g.tags, "</request>") /\ x = Serve(t)
      \/ x = Close(t)
  BY SplicedFacts, Zenon
<1> HIDE DEF t, x
<1>5. CASE x = [t EXCEPT !.finish = "stop"] \/ x = [t EXCEPT !.finish = "length"]
  <2>1. x.hints = t.hints /\ x.given = t.given /\ x.finish # "open"
    <3>1. \A how \in {"stop", "length"} :
            /\ [t EXCEPT !.finish = how].finish = how
            /\ [t EXCEPT !.finish = how].hints = t.hints
            /\ [t EXCEPT !.finish = how].given = t.given
      BY <1>1, FinishedFacts
    <3>2. CASE x = [t EXCEPT !.finish = "stop"]
      BY <3>1, <3>2
    <3>3. CASE x = [t EXCEPT !.finish = "length"]
      BY <3>1, <3>3
    <3> QED BY <1>5, <3>2, <3>3
  <2> QED BY <1>1, <2>1 DEF GoesOn, Open, x
<1>6. CASE Contains(g.tags, "</request>") /\ x = Serve(t)
  <2>1. x.hints = t.hints /\ x.given >= t.given /\ x.tokens = t.tokens + Markup
    BY <1>1, <1>6, ServeFacts
  <2>2. g.len # 0
    BY <1>2, <1>6 DEF Contains
  <2>3. x.tokens > s.tokens
    BY <1>1, <1>3, <2>1, <2>2, SomethingIsCharged
  <2> QED BY <1>1, <2>1, <2>3 DEF GoesOn, x
<1>7. CASE x = Close(t)
  <2>1. x.hints = t.hints /\ x.given = t.given /\ x.tokens = t.tokens + Markup
    BY <1>1, <1>7, CloseFacts
  <2>2. g.len # 0 \/ Markup >= 1
    BY <1>2, <1>3
  <2>3. x.tokens > s.tokens
    BY <1>1, <1>3, <2>1, <2>2, SomethingIsCharged
  <2> QED BY <1>1, <2>1, <2>3 DEF GoesOn, x
<1> QED BY <1>4, <1>5, <1>6, <1>7

\* A forced hint is one of the puzzle's.
LEMMA ForcedGoesOn ==
  ASSUME NEW s, Sound(s), NEW x, x.given = s.given + 1, x.hints = s.hints
  PROVE  GoesOn(s, x) /\ x.given > s.given
BY DEF GoesOn, Sound, Sample

\* What is kept of the sample takes no step that leaves more of it to do.
LEMMA StepComesNearer == EvalInv /\ EvalInv' /\ [Next]_vars => [ComesNearer]_vars
<1> SUFFICES ASSUME EvalInv, EvalInv', Next PROVE ComesNearer
  OBVIOUS
<1>1. Sound(e)
  BY DEF EvalInv
<1>2. Sound(e')
  BY DEF EvalInv
<1>3. CASE OutOfBudget
  <2>1. Open(e) /\ e' = [e EXCEPT !.finish = "length"]
    BY <1>3 DEF OutOfBudget
  <2>2. e'.hints = e.hints /\ e'.given = e.given /\ e'.finish = "length"
    BY <1>1, <2>1, FinishedFacts
  <2>3. GoesOn(e, e') /\ ~Open(e)'
    BY <1>1, <2>2 DEF GoesOn, Open, Sound, Sample
  <2> QED BY <1>1, <1>2, <2>1, <2>3, GoingOnComesNearer
<1>4. CASE SplicedTurn \/ AsyncTurn \/ SyncTurn
  <2>1. Open(e) /\ e.tokens < MaxResponseLen
    BY <1>4 DEF SplicedTurn, AsyncTurn, SyncTurn, Goes
  <2>2. e.finish = "open"
    BY <2>1 DEF Open
  <2>3. GoesOn(e, e')
    <3>1. CASE SplicedTurn
      BY <1>1, <2>1, <3>1, SplicedGoesOn DEF SplicedTurn
    <3>2. CASE AsyncTurn
      <4>1. PICK g \in EvalTurn(e) : e' \in AsyncText(e, g)
        BY <3>2 DEF AsyncTurn
      <4>2. CASE e' = Spliced(e, g)
        BY <1>1, <2>1, <4>2, SplicedGoesOn
      <4>3. CASE NeedsForcing(e) /\ e' \in Forced(Taken(e, g))
        <5> DEFINE t == Taken(e, g)
        <5>1. /\ Sound(t) /\ t.given = e.given /\ t.hints = e.hints
              /\ NeedsForcing(t) /\ e' \in Forced(t)
          BY <1>1, <4>3, TakenFacts DEF NeedsForcing
        <5> HIDE DEF t
        <5>2. e'.given = t.given + 1 /\ e'.hints = t.hints
          BY <5>1, ForcedFacts
        <5> QED BY <1>1, <5>1, <5>2, ForcedGoesOn
      <4> QED BY <1>1, <2>2, <4>1, <4>2, <4>3, AsyncFacts
    <3>3. CASE SyncTurn
      <4>1. PICK g \in EvalTurn(e) : e' \in SyncText(e, g)
        BY <3>3 DEF SyncTurn
      <4>2. e' = Spliced(e, g) \/ (e'.given = e.given + 1 /\ e'.hints = e.hints)
        BY <1>1, <4>1, SyncFacts
      <4> QED BY <1>1, <2>1, <4>1, <4>2, SplicedGoesOn, ForcedGoesOn
    <3> QED BY <1>4, <3>1, <3>2, <3>3
  <2> QED BY <1>1, <1>2, <2>1, <2>3, GoingOnComesNearer
<1> QED BY <1>3, <1>4 DEF Next

\* The while True of every loop can go round only so often: at first there are
\* hints * (MaxResponseLen + 2) + MaxResponseLen + 1 steps at the most, whatever
\* is generated and wherever a forced hint cuts, and every step leaves fewer.
THEOREM EverySampleComesNearer ==
  Spec => /\ StepsLeft = e.hints * (MaxResponseLen + 2) + MaxResponseLen + 1
          /\ [][ComesNearer]_vars
<1>1. Init => StepsLeft = e.hints * (MaxResponseLen + 2) + MaxResponseLen + 1
  <2> SUFFICES ASSUME Init
               PROVE  StepsLeft = e.hints * (MaxResponseLen + 2) + MaxResponseLen + 1
    OBVIOUS
  <2>1. /\ e.given = 0 /\ e.tokens = 0 /\ e.finish = "open" /\ e.hints \in Nat
    <3>1. PICK h \in HintCounts, f \in IF loop = "spliced" THEN {0} ELSE Forces :
             e = [hints |-> h, force |-> f, tags |-> <<>>, tokens |-> 0, turns |-> 0,
                  given |-> 0, numHints |-> 0, closed |-> 0, finish |-> "open"]
      BY DEF Init
    <3>2. h \in Nat
      BY EvalAssumption DEF EvalAssumption
    <3> QED BY <3>1, <3>2
  <2>2. MaxResponseLen \in Nat
    BY ConstantsAreNat
  <2>3. RoomLeft(e) = MaxResponseLen
    BY <2>1, <2>2 DEF RoomLeft
  <2>4. e.hints - e.given = e.hints
    BY <2>1
  <2> DEFINE all == e.hints * (MaxResponseLen + 2)
  <2>5. StepsLeft = all + (MaxResponseLen + 1)
    BY <2>1, <2>3, <2>4 DEF StepsLeft, Open
  <2>6. all \in Nat
    BY <2>1, <2>2
  <2> HIDE DEF all
  <2>7. StepsLeft = all + MaxResponseLen + 1
    BY <2>2, <2>5, <2>6
  <2> QED BY <2>7 DEF all
<1>2. EvalInv /\ EvalInv' /\ [Next]_vars => [ComesNearer]_vars
  BY StepComesNearer
<1> QED BY <1>1, <1>2, AlwaysSound, PTL DEF Spec

-----------------------------------------------------------------------------
\* A sample can be ended, or has a turn to take, in the loop that runs.
CanGoOn ==
  \/ e.tokens >= MaxResponseLen
  \/ loop = "spliced" /\ EvalTurn(e) # {}
  \/ loop = "async text" /\ \E g \in EvalTurn(e) : AsyncText(e, g) # {}
  \/ loop = "sync text" /\ \E g \in EvalTurn(e) : SyncText(e, g) # {}

NotStuck == Open(e) => CanGoOn

\* While there is budget, a text of one token fits.
LEMMA SomeTurnFits ==
  ASSUME NEW s, Sound(s), s.tokens < MaxResponseLen, Texts # {}
  PROVE  EvalTurn(s) # {}
<1>1. PICK text \in Texts : TRUE
  OBVIOUS
<1> DEFINE g == [tags |-> Stopped(text, StopsAt(s)), len |-> 1, reason |-> "stop"]
<1>2. Remaining(s) \in Nat /\ 1 \in 0..Remaining(s)
  BY ConstantsAreNat DEF Remaining, Sound, Sample
<1>3. Stopped(text, StopsAt(s)) \in {Stopped(t, StopsAt(s)) : t \in Texts}
  OBVIOUS
<1>4. g \in [tags : {Stopped(t, StopsAt(s)) : t \in Texts}, len : 0..Remaining(s),
             reason : {"stop", "length"}]
  BY <1>2, <1>3
<1>5. g.len # 0 /\ g.reason # "length"
  OBVIOUS
<1> HIDE DEF g
<1>6. g \in EvalTurn(s)
  BY <1>4, <1>5, Zenon DEF EvalTurn
<1> QED BY <1>6

\* Wherever the reasoning is trimmed to, there is a place to put a request.
LEMMA SomePlaceToForce ==
  ASSUME NEW s, s.tags \in Seq(Tag), s.tokens \in Nat
  PROVE  Forced(s) # {}
<1> DEFINE ts == s.tags
           head == SubSeq(ts, 1, TurnBegin(ts))
           tail == SubSeq(ts, TurnBegin(ts) + 1, Len(ts))
           kept == UpTo(UpTo(tail, "<answer>"), "</think>")
           trims == Nested \/ ~Contains(tail, "</think>") \/ ~HintTransition
           ends == IF Nested THEN <<>> ELSE <<"</think>">>
<1>1. tail \in Seq(Tag)
  BY TurnBeginIs, Cuts
<1>2. kept \in Seq(Tag)
  <2> HIDE DEF tail
  <2> QED BY <1>1, Cuts
<1>3. \E k : k \in IF trims THEN Prefixes(kept) ELSE {kept}
  <2> HIDE DEF kept, trims
  <2>1. 0 \in 0..Len(kept)
    BY <1>2
  <2>2. SubSeq(kept, 1, 0) \in Prefixes(kept)
    BY <2>1 DEF Prefixes
  <2> QED BY <2>2
<1>4. \E us : us \in ClosedForRequest(ts)
  <2>1. ClosedForRequest(ts) = {head \o k \o ends : k \in IF trims THEN Prefixes(kept) ELSE {kept}}
    BY Zenon DEF ClosedForRequest
  <2> HIDE DEF head, ends, kept, trims
  <2> QED BY <1>3, <2>1
<1>5. 0 \in 0..s.tokens
  OBVIOUS
<1>6. PICK us \in ClosedForRequest(ts) : TRUE
  BY <1>4
<1>7. ForcedAfter(s, us, 0) \in Forced(s)
  BY <1>5, <1>6 DEF Forced
<1> QED BY <1>7

\* Whatever a text loop is given, it makes something of it.
LEMMA TextLoopsGoOn ==
  ASSUME NEW s, Sound(s), NEW g \in EvalTurn(s)
  PROVE  AsyncText(s, g) # {} /\ SyncText(s, g) # {}
<1> DEFINE t == Taken(s, g)
           cuts == IF Contains(t.tags, "</answer>") THEN {UpTo(t.tags, "<answer>")}
                   ELSE IF Contains(g.tags, "</think>") THEN {t.tags}
                   ELSE {Append(p, "</think>") : p \in Prefixes(t.tags)}
<1>1. t \in Sample /\ t.tags \in Seq(Tag) /\ t.tokens \in Nat
  BY TakenFacts DEF Sound, Sample
<1>2. AsyncText(s, g) # {}
  BY <1>1, SomePlaceToForce DEF AsyncText
<1>3. \E c \in Seq(Tag) : c \in cuts
  <2>1. t.tags \in Seq(Tag) /\ UpTo(t.tags, "<answer>") \in Seq(Tag)
    BY <1>1, Cuts
  <2> DEFINE u == t.tags
  <2>2. u \in Seq(Tag)
    BY <2>1
  <2>3. Append(SubSeq(u, 1, 0), "</think>") \in {Append(p, "</think>") : p \in Prefixes(u)}
    <3> HIDE DEF u
    <3>1. SubSeq(u, 1, 0) \in Prefixes(u)
      BY <2>2 DEF Prefixes
    <3> QED BY <3>1
  <2>4. Append(SubSeq(u, 1, 0), "</think>") \in Seq(Tag)
    <3> HIDE DEF u
    <3>1. SubSeq(u, 1, 0) \in Seq(Tag)
      BY <2>2, Cuts
    <3> QED BY <3>1, ThinkIsTag
  <2> QED BY <2>1, <2>3, <2>4, Zenon
<1>4. PICK c \in Seq(Tag) : c \in cuts
  BY <1>3
<1> DEFINE y == [t EXCEPT !.tags = c]
<1>5. y.tags \in Seq(Tag) /\ y.tokens \in Nat
  <2> HIDE DEF t
  <2> QED BY <1>1 DEF Sample
<1>6. Forced(y) # {}
  <2> HIDE DEF y
  <2> QED BY <1>5, SomePlaceToForce
<1>7. SyncText(s, g) = IF ForcesHere(t, g)
                       THEN UNION {Forced([t EXCEPT !.tags = d]) : d \in cuts}
                       ELSE {Spliced(s, g)}
  BY Zenon DEF SyncText
<1>8. UNION {Forced([t EXCEPT !.tags = d]) : d \in cuts} # {}
  <2>1. PICK x : x \in Forced([t EXCEPT !.tags = c])
    BY <1>6
  <2> HIDE DEF cuts, t, y
  <2> QED BY <1>4, <2>1
<1> QED BY <1>2, <1>7, <1>8

\* The future of a prompt is never waited for in vain: a sample that is not
\* finished can be ended, or takes a turn.
THEOREM SamplesAreNeverStuck ==
  ASSUME Texts # {}
  PROVE  Spec => []NotStuck
<1>1. EvalInv => NotStuck
  <2> SUFFICES ASSUME EvalInv, Open(e), ~(e.tokens >= MaxResponseLen) PROVE CanGoOn
    BY DEF NotStuck, CanGoOn
  <2>1. Sound(e) /\ loop \in {"spliced", "async text", "sync text"}
    BY EvalAssumption DEF EvalInv, EvalAssumption
  <2>2. e.tokens < MaxResponseLen
    <3>1. e.tokens \in Nat
      BY <2>1 DEF Sound, Sample
    <3>2. MaxResponseLen \in Nat
      BY ConstantsAreNat
    <3> QED BY <3>1, <3>2
  <2>3. PICK g \in EvalTurn(e) : TRUE
    BY <2>1, <2>2, SomeTurnFits
  <2>4. AsyncText(e, g) # {} /\ SyncText(e, g) # {}
    BY <2>1, TextLoopsGoOn
  <2> QED BY <2>1, <2>3, <2>4 DEF CanGoOn
<1> QED BY <1>1, AlwaysSound, PTL
=============================================================================
