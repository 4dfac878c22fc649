----------------------- MODULE ContinuousDriverProofs ------------------------
(***************************************************************************)
(* Proofs about the continuous driver, for any number of rollouts, every   *)
(* value of the constants, and an engine that finishes requests in any     *)
(* order and may drop some: what is in hand is one fresh request for each  *)
(* rollout waited for, and each step of the driver or of the engine is a   *)
(* step of the abstract batch (HintRollout), or none.                      *)
(***************************************************************************)
EXTENDS ContinuousDriver, TurnRulesProofs

Requests == [id : Nat, prompt : Nat, budget : Int]

Typed ==
  /\ st \in [Rollouts -> Rollout]
  /\ phase \in {"start", "loop", "submit", "finalize", "forcing", "done"}
  /\ nextId \in Nat
  /\ again \in Rollouts \cup {0}
  /\ \A i \in DOMAIN pending : i \in Nat /\ i < nextId /\ pending[i] \in Rollouts
  /\ engine \subseteq Requests /\ IsFiniteSet(engine)
  /\ arrived \in Seq(Requests)

Waited(r) == \E i \in DOMAIN pending : pending[i] = r

\* Who waits for what, phase by phase.
Waiting ==
  /\ phase = "start" => DOMAIN pending = {}
  /\ phase \in {"start", "finalize", "forcing", "done"} => InHand = {}
  /\ phase \in {"loop", "submit", "finalize"} =>
       \A i \in DOMAIN pending : MayGoOn(pending[i]) /\ HasRoom(st[pending[i]])
  /\ phase \in {"loop", "finalize"} =>
       \A r \in Rollouts : MayGoOn(r) => Waited(r)
  /\ phase = "submit" =>
       /\ again \in Rollouts /\ ~st[again].completed /\ ~Waited(again)
       /\ \A r \in Rollouts \ {again} : MayGoOn(r) => Waited(r)

\* The inductive invariant.
IInv ==
  /\ Typed
  /\ InFlightFresh
  /\ Waiting
  /\ phase # "done" => \A r \in Rollouts : Turning(st[r])

-----------------------------------------------------------------------------
(***************************************************************************)
(* The first ids are 0, 1, ... in batch order, one for each live rollout.  *)
(***************************************************************************)
LEMMA LiveIsFinite ==
  /\ IsFiniteSet(Live) /\ Cardinality(Live) \in Nat
  /\ \A r \in Rollouts : FirstId(r) \in Nat
<1>1. IsFiniteSet(Rollouts)
  BY FS_Interval, ContinuousAssumption DEF Rollouts, ContinuousAssumption
<1>2. IsFiniteSet(Live)
  BY <1>1, FS_Subset DEF Live
<1>3. ASSUME NEW r \in Rollouts PROVE FirstId(r) \in Nat
  <2>1. IsFiniteSet({q \in Live : q < r})
    BY <1>2, FS_Subset
  <2> QED BY <2>1, FS_CardinalityType DEF FirstId
<1> QED BY <1>2, <1>3, FS_CardinalityType

LEMMA FirstIdsGrow ==
  ASSUME NEW r \in Live, NEW q \in Live, q < r
  PROVE  FirstId(q) < FirstId(r)
<1> DEFINE A == {p \in Live : p < q}
           B == {p \in Live : p < r}
<1>1. IsFiniteSet(A) /\ IsFiniteSet(B)
  BY LiveIsFinite, FS_Subset
<1>2. A \cup {q} \subseteq B /\ q \notin A
  <2>1. Live \subseteq Int
    BY ContinuousAssumption DEF Live, Rollouts, ContinuousAssumption
  <2>2. ASSUME NEW p \in Live, p < q PROVE p < r
    BY <2>1, <2>2
  <2>3. ~(q < q)
    BY <2>1
  <2> QED BY <2>2, <2>3
<1>3. Cardinality(A \cup {q}) = Cardinality(A) + 1 /\ IsFiniteSet(A \cup {q})
  BY <1>1, <1>2, FS_AddElement
<1>4. Cardinality(A \cup {q}) <= Cardinality(B)
  BY <1>1, <1>2, FS_Subset
<1>5. Cardinality(A) \in Nat /\ Cardinality(B) \in Nat
  BY <1>1, FS_CardinalityType
<1> QED BY <1>3, <1>4, <1>5 DEF FirstId

LEMMA FirstIdsAreInOrder ==
  /\ \A r \in Live : FirstId(r) \in 0..(Cardinality(Live) - 1)
  /\ \A r, q \in Live : FirstId(r) = FirstId(q) => r = q
  /\ \A i \in 0..(Cardinality(Live) - 1) : \E r \in Live : FirstId(r) = i
<1> DEFINE n == Cardinality(Live)
           T == 0..(n - 1)
           f == [r \in Live |-> FirstId(r)]
<1>1. n \in Nat /\ Live \subseteq Rollouts /\ Live \subseteq Int
  BY LiveIsFinite, ContinuousAssumption DEF Live, Rollouts, ContinuousAssumption
<1>2. ASSUME NEW r \in Live PROVE FirstId(r) \in T
  <2> DEFINE A == {q \in Live : q < r}
  <2>1. A \in SUBSET Live /\ A # Live /\ IsFiniteSet(A)
    BY <1>1, LiveIsFinite, FS_Subset
  <2>2. Cardinality(A) <= n /\ Cardinality(A) # n
    BY <2>1, LiveIsFinite, FS_Subset
  <2>3. Cardinality(A) \in Nat
    BY <2>1, FS_CardinalityType
  <2> QED BY <1>1, <2>2, <2>3 DEF FirstId
<1>3. ASSUME NEW r \in Live, NEW q \in Live, FirstId(r) = FirstId(q) PROVE r = q
  <2>1. r \in Int /\ q \in Int /\ FirstId(r) \in Nat /\ FirstId(q) \in Nat
    BY <1>1, LiveIsFinite
  <2>2. ~(r < q) /\ ~(q < r)
    BY <1>3, <2>1, FirstIdsGrow
  <2> QED BY <2>1, <2>2
<1>4. f \in Injection(Live, T)
  BY <1>2, <1>3 DEF Injection, IsInjective
<1>5. IsFiniteSet(T) /\ Cardinality(T) = n
  <2>1. Cardinality(T) = IF 0 > n - 1 THEN 0 ELSE n - 1 - 0 + 1
    BY <1>1, FS_Interval
  <2> QED BY <1>1, <2>1, FS_Interval
<1>6. f \in Surjection(Live, T)
  BY <1>4, <1>5, FS_Injection
<1> QED BY <1>2, <1>3, <1>6 DEF Surjection

-----------------------------------------------------------------------------
\* A step's results: some of the engine's requests, each once, in some order.
LEMMA ResultsAreDistinct ==
  ASSUME NEW S, IsFiniteSet(S), NEW order \in SetToSeqs(S)
  PROVE  order \in Seq(S) /\ ToSet(order) \subseteq S /\ IsInjective(order)
<1>1. Cardinality(S) \in Nat
  BY FS_CardinalityType
<1>2. /\ order \in [1..Cardinality(S) -> S]
      /\ \A i, j \in 1..Cardinality(S) : i # j => order[i] # order[j]
  BY DEF SetToSeqs
<1> QED BY <1>1, <1>2 DEF ToSet, IsInjective

\* Taking the first result leaves the others.
LEMMA TailOfResults ==
  ASSUME NEW S, NEW s \in Seq(S), s # <<>>, IsInjective(s)
  PROVE  /\ Tail(s) \in Seq(S) /\ IsInjective(Tail(s))
         /\ Head(s) \in ToSet(s)
         /\ ToSet(Tail(s)) = ToSet(s) \ {Head(s)}
<1>1. Len(s) \in Nat /\ Len(s) > 0 /\ DOMAIN s = 1..Len(s)
  OBVIOUS
<1>2. /\ Tail(s) \in Seq(S) /\ Len(Tail(s)) = Len(s) - 1
      /\ \A i \in 1..(Len(s) - 1) : Tail(s)[i] = s[i + 1]
      /\ DOMAIN Tail(s) = 1..(Len(s) - 1)
  BY <1>1
<1>3. Head(s) = s[1]
  BY <1>1
<1>4. IsInjective(Tail(s))
  <2>1. ASSUME NEW i \in 1..(Len(s) - 1), NEW j \in 1..(Len(s) - 1), s[i + 1] = s[j + 1]
        PROVE  i = j
    <3>1. i + 1 \in DOMAIN s /\ j + 1 \in DOMAIN s
      BY <1>1
    <3>2. i + 1 = j + 1
      BY <2>1, <3>1 DEF IsInjective
    <3> QED BY <3>2
  <2> QED BY <1>2, <2>1 DEF IsInjective
<1>5. ASSUME NEW x \in ToSet(Tail(s)) PROVE x \in ToSet(s) \ {Head(s)}
  <2>1. PICK i \in 1..(Len(s) - 1) : x = s[i + 1]
    BY <1>2 DEF ToSet
  <2>2. i + 1 \in DOMAIN s /\ 1 \in DOMAIN s /\ i + 1 # 1
    BY <1>1
  <2> QED BY <1>3, <2>1, <2>2 DEF ToSet, IsInjective
<1>6. ASSUME NEW x \in ToSet(s) \ {Head(s)} PROVE x \in ToSet(Tail(s))
  <2>1. PICK i \in 1..Len(s) : x = s[i]
    BY <1>1 DEF ToSet
  <2>2. i # 1
    BY <1>3, <1>6, <2>1
  <2>3. i - 1 \in 1..(Len(s) - 1) /\ s[i - 1 + 1] = x
    BY <1>1, <2>1, <2>2
  <2> QED BY <1>2, <2>3 DEF ToSet
<1>7. Head(s) \in ToSet(s)
  BY <1>1, <1>3 DEF ToSet
<1> QED BY <1>2, <1>4, <1>5, <1>6, <1>7

LEMMA NoResults == ToSet(<<>>) = {} /\ IsInjective(<<>>)
BY DEF ToSet, IsInjective

LEMMA NothingIn ==
  ASSUME NEW S, NEW s \in Seq(S), ToSet(s) = {}
  PROVE  s = <<>>
<1>1. CASE Len(s) > 0
  <2>1. 1 \in DOMAIN s
    BY <1>1
  <2> QED BY <2>1 DEF ToSet
<1>2. CASE Len(s) = 0
  BY <1>2
<1>3. Len(s) \in Nat
  OBVIOUS
<1> QED BY <1>1, <1>2, <1>3

-----------------------------------------------------------------------------
(***************************************************************************)
(* The invariant.                                                          *)
(***************************************************************************)
LEMMA InitIsInductive == Init => IInv
<1> SUFFICES ASSUME Init PROVE IInv
  OBVIOUS
<1>1. ASSUME NEW r \in Rollouts PROVE Turning(st[r])
  <2>1. PICK p \in PromptLens, h \in HintCounts : st[r] = Fresh(p, h)
    BY DEF Init
  <2>2. p \in Nat /\ h \in Nat
    BY ContinuousAssumption DEF ContinuousAssumption
  <2> QED BY <2>1, <2>2, FreshIsTurning
<1>2. st \in [Rollouts -> Rollout]
  <2>1. \A r \in Rollouts : st[r] \in Rollout
    BY <1>1 DEF Turning
  <2> QED BY <2>1 DEF Init
<1>3. /\ phase = "start" /\ nextId = 0 /\ again = 0 /\ engine = {} /\ arrived = <<>>
      /\ DOMAIN pending = {}
  BY DEF Init
<1>4. InHand = {} /\ IsInjective(arrived)
  BY <1>3, NoResults DEF InHand
<1>5. Typed
  BY <1>2, <1>3, FS_EmptySet DEF Typed
<1>6. InFlightFresh
  BY <1>3, <1>4 DEF InFlightFresh, OneRequestEach
<1>7. Waiting
  BY <1>3, <1>4 DEF Waiting
<1> QED BY <1>1, <1>5, <1>6, <1>7 DEF IInv

\* The first submissions: one request for each live rollout.
LEMMA SubmitAllStep ==
  ASSUME IInv, SubmitAll
  PROVE  IInv'
<1> DEFINE n == Cardinality(Live)
<1>1. /\ phase = "start" /\ phase' = "loop" /\ nextId' = n
      /\ again' = again /\ arrived' = arrived
      /\ pending' = [i \in 0..(n - 1) |-> CHOOSE r \in Live : FirstId(r) = i]
      /\ engine' = {Sent(FirstId(r), r) : r \in Live}
      /\ st' = [r \in Rollouts |-> IF MayGoOn(r) /\ r \notin Live THEN CutShort(st[r])
                                                                ELSE st[r]]
  BY DEF SubmitAll
<1>2. /\ st \in [Rollouts -> Rollout] /\ InHand = {}
      /\ \A r \in Rollouts : Turning(st[r])
      /\ arrived \in Seq(Requests) /\ again \in Rollouts \cup {0}
  BY <1>1 DEF IInv, Typed, Waiting
<1>3. arrived = <<>>
  <2>1. ToSet(arrived) = {}
    BY <1>2 DEF InHand
  <2> QED BY <1>2, <2>1, NothingIn
<1>4. n \in Nat /\ IsFiniteSet(Live) /\ Live \subseteq Rollouts
  BY LiveIsFinite DEF Live
<1>5. /\ DOMAIN pending' = 0..(n - 1)
      /\ \A i \in 0..(n - 1) : pending'[i] \in Live /\ FirstId(pending'[i]) = i
  <2> HIDE DEF n
  <2>1. \A i \in 0..(n - 1) : \E r \in Live : FirstId(r) = i
    BY FirstIdsAreInOrder DEF n
  <2> QED BY <1>1, <2>1
<1>6. \A r \in Live : /\ FirstId(r) \in 0..(n - 1) /\ pending'[FirstId(r)] = r
                      /\ st'[r] = st[r]
  <2>1. \A r \in Live : st'[r] = st[r]
    BY <1>1, <1>4
  <2> QED BY <1>5, <2>1, FirstIdsAreInOrder
<1>7. ASSUME NEW r \in Rollouts
      PROVE  /\ Turning(st'[r])
             /\ ~st'[r].completed /\ st'[r].turns < MaxTurns => r \in Live
  <2>1. CASE MayGoOn(r) /\ r \notin Live
    <3>1. st'[r] = CutShort(st[r]) /\ ~st[r].completed
      BY <1>1, <2>1 DEF MayGoOn
    <3>2. Turning(CutShort(st[r])) /\ CutShort(st[r]).completed
      BY <1>2, <3>1, CutShortKeepsTurning, CutShortFacts
    <3> QED BY <3>1, <3>2
  <2>2. CASE ~(MayGoOn(r) /\ r \notin Live)
    <3>1. st'[r] = st[r]
      BY <1>1, <2>2
    <3> QED BY <1>2, <2>2, <3>1 DEF MayGoOn
  <2> QED BY <2>1, <2>2
<1>8. InHand' = engine'
  BY <1>1, <1>3, NoResults DEF InHand
<1> HIDE DEF n
<1>9. Typed'
  <2>1. ASSUME NEW r \in Live PROVE Sent(FirstId(r), r) \in Requests
    <3>1. FirstId(r) \in Nat
      BY <1>4, <1>6
    <3>2. st[r] \in Rollout
      BY <1>2, <1>4
    <3>3. st[r].total \in Nat /\ st[r].resp \in Nat
      BY <3>2 DEF Rollout
    <3>4. MaxResponseLen \in Nat
      BY ConstantsAreNat
    <3> QED BY <3>1, <3>3, <3>4 DEF Sent, Requests
  <2>2. IsFiniteSet(engine')
    <3> DEFINE f == [r \in Live |-> Sent(FirstId(r), r)]
    <3>1. f \in Surjection(Live, engine')
      BY <1>1 DEF Surjection
    <3> QED BY <1>4, <3>1, FS_Surjection
  <2>3. \A r \in Rollouts : st'[r] \in Rollout
    BY <1>7 DEF Turning
  <2>4. st' \in [Rollouts -> Rollout]
    BY <1>1, <2>3
  <2>5. \A i \in DOMAIN pending' : i \in Nat /\ i < nextId' /\ pending'[i] \in Rollouts
    BY <1>1, <1>4, <1>5
  <2> QED BY <1>1, <1>2, <1>4, <2>1, <2>2, <2>4, <2>5 DEF Typed
<1>10. InFlightFresh'
  <2>1. ASSUME NEW q \in engine' PROVE UpToDate(q)'
    <3>1. PICK r \in Live : q = Sent(FirstId(r), r)
      BY <1>1
    <3>2. /\ q.id = FirstId(r) /\ q.prompt = st[r].total
          /\ q.budget = MaxResponseLen - st[r].resp
      BY <3>1 DEF Sent
    <3>3. q.id \in DOMAIN pending' /\ pending'[q.id] = r /\ st'[r] = st[r]
      BY <1>5, <1>6, <3>2
    <3> QED BY <3>2, <3>3 DEF UpToDate
  <2>2. \A i, j \in DOMAIN pending' : pending'[i] = pending'[j] => i = j
    BY <1>5
  <2>3. \A p, q \in engine' : p.id = q.id => p = q
    <3>1. \A r \in Live : Sent(FirstId(r), r).id = FirstId(r)
      BY DEF Sent
    <3> QED BY <1>1, <3>1, FirstIdsAreInOrder
  <2>4. IsInjective(arrived') /\ engine' \cap ToSet(arrived') = {}
    BY <1>1, <1>3, NoResults
  <2> QED BY <1>1, <1>8, <2>1, <2>2, <2>3, <2>4 DEF InFlightFresh, OneRequestEach
<1>11. Waiting'
  <2>1. \A i \in DOMAIN pending' : (MayGoOn(pending[i]) /\ HasRoom(st[pending[i]]))'
    BY <1>5, <1>6 DEF Live, MayGoOn, HasRoom
  <2>2. \A r \in Rollouts : MayGoOn(r)' => Waited(r)'
    BY <1>5, <1>6, <1>7 DEF MayGoOn, Waited
  <2> QED BY <1>1, <2>1, <2>2 DEF Waiting
<1> QED BY <1>1, <1>7, <1>9, <1>10, <1>11 DEF IInv

LEMMA EngineFacts ==
  ASSUME IInv, EngineStep
  PROVE  /\ phase = "loop" /\ UNCHANGED <<st, phase, pending, nextId, again>>
         /\ InHand' = InHand
         /\ arrived' \in Seq(Requests) /\ IsInjective(arrived')
         /\ engine' \subseteq engine /\ engine' \cap ToSet(arrived') = {}
<1>1. /\ phase = "loop" /\ arrived = <<>>
      /\ UNCHANGED <<st, phase, pending, nextId, again>>
  BY DEF EngineStep, AtLoopHead
<1>2. PICK S \in SUBSET engine : \E order \in SetToSeqs(S) :
        arrived' = order /\ engine' = engine \ ToSet(order)
  BY DEF EngineStep
<1>3. PICK order \in SetToSeqs(S) : arrived' = order /\ engine' = engine \ ToSet(order)
  BY <1>2
<1>4. IsFiniteSet(S) /\ engine \subseteq Requests
  BY <1>2, FS_Subset DEF IInv, Typed
<1>5. order \in Seq(S) /\ ToSet(order) \subseteq S /\ IsInjective(order)
  BY <1>4, ResultsAreDistinct
<1>6. order \in Seq(Requests)
  BY <1>2, <1>4, <1>5
<1>7. InHand = engine
  BY <1>1, NoResults DEF InHand
<1>8. InHand' = engine
  BY <1>2, <1>3, <1>5 DEF InHand
<1> QED BY <1>1, <1>3, <1>5, <1>6, <1>7, <1>8

LEMMA EngineStepStep ==
  ASSUME IInv, EngineStep
  PROVE  IInv'
<1>1. /\ phase = "loop" /\ UNCHANGED <<st, phase, pending, nextId, again>>
      /\ InHand' = InHand
      /\ arrived' \in Seq(Requests) /\ IsInjective(arrived')
      /\ engine' \subseteq engine /\ engine' \cap ToSet(arrived') = {}
  BY EngineFacts
<1>2. Typed'
  <2>1. IsFiniteSet(engine')
    BY <1>1, FS_Subset DEF IInv, Typed
  <2> QED BY <1>1, <2>1 DEF IInv, Typed
<1>3. InFlightFresh'
  BY <1>1 DEF IInv, InFlightFresh, OneRequestEach, UpToDate
<1>4. Waiting'
  BY <1>1 DEF IInv, Waiting, MayGoOn, HasRoom, Waited
<1> QED BY <1>1, <1>2, <1>3, <1>4 DEF IInv

LEMMA EngineDropStep ==
  ASSUME IInv, EngineDrop
  PROVE  IInv'
<1>1. PICK q \in engine : engine' = engine \ {q}
  BY DEF EngineDrop
<1>2. /\ phase = "loop" /\ UNCHANGED <<st, phase, pending, nextId, again, arrived>>
  BY DEF EngineDrop, AtLoopHead
<1>3. InHand' \subseteq InHand
  BY <1>1, <1>2 DEF InHand
<1>4. Typed'
  <2>1. IsFiniteSet(engine')
    BY <1>1, FS_Subset DEF IInv, Typed
  <2> QED BY <1>1, <1>2, <2>1 DEF IInv, Typed
<1>5. InFlightFresh'
  BY <1>1, <1>2, <1>3 DEF IInv, InFlightFresh, OneRequestEach, UpToDate
<1>6. Waiting'
  BY <1>2 DEF IInv, Waiting, MayGoOn, HasRoom, Waited
<1> QED BY <1>2, <1>4, <1>5, <1>6 DEF IInv

\* What the driver knows of the result it takes.
LEMMA ResultFacts ==
  ASSUME IInv, TakeResult
  PROVE  \E q, r, g :
           /\ q = Head(arrived) /\ r = pending[q.id] /\ g \in Generation
           /\ q \in InHand /\ q.id \in DOMAIN pending /\ r \in Rollouts
           /\ MayGoOn(r) /\ HasRoom(st[r]) /\ Fits(st[r], g)
           /\ phase = "loop" /\ arrived' = Tail(arrived) /\ UNCHANGED <<nextId, engine>>
           /\ st' = [st EXCEPT ![r] = Ingest(st[r], g)]
           /\ IF st'[r].completed THEN phase' = "loop" /\ again' = 0
                                  ELSE phase' = "submit" /\ again' = r
           /\ pending' = [i \in DOMAIN pending \ {q.id} |-> pending[i]]
           /\ InHand' = InHand \ {q} /\ IsInjective(arrived')
           /\ arrived' \in Seq(Requests) /\ ToSet(arrived') \subseteq ToSet(arrived)
<1> DEFINE q == Head(arrived)
           r == pending[q.id]
<1>1. /\ phase = "loop" /\ arrived # <<>>
      /\ arrived' = Tail(arrived) /\ UNCHANGED <<nextId, engine>>
  BY DEF TakeResult
<1>2. PICK g \in Generation :
        /\ Serves(q, g)
        /\ st' = [st EXCEPT ![r] = Ingest(st[r], g)]
        /\ IF st'[r].completed THEN phase' = "loop" /\ again' = 0
                               ELSE phase' = "submit" /\ again' = r
        /\ pending' = [i \in DOMAIN pending \ {q.id} |-> pending[i]]
  BY DEF TakeResult
<1>3. /\ arrived \in Seq(Requests) /\ IsInjective(arrived)
      /\ engine \cap ToSet(arrived) = {}
  BY DEF IInv, Typed, InFlightFresh, OneRequestEach
<1> HIDE DEF q
<1>4. /\ Tail(arrived) \in Seq(Requests) /\ IsInjective(Tail(arrived))
      /\ q \in ToSet(arrived)
      /\ ToSet(Tail(arrived)) = ToSet(arrived) \ {q}
  BY <1>1, <1>3, TailOfResults DEF q
<1>5. q \in InHand
  BY <1>4 DEF InHand
<1>6. InHand' = InHand \ {q}
  BY <1>1, <1>3, <1>4 DEF InHand
<1>7. UpToDate(q) /\ q.id \in DOMAIN pending /\ r \in Rollouts
  BY <1>5 DEF IInv, InFlightFresh, UpToDate, Typed
<1>8. MayGoOn(r) /\ HasRoom(st[r])
  BY <1>1, <1>7 DEF IInv, Waiting
<1>9. Fits(st[r], g)
  <2>1. st[r] \in Rollout
    BY <1>7 DEF IInv, Typed
  <2> QED BY <1>2, <1>7, <2>1, RequestOf DEF UpToDate
<1> QED BY <1>1, <1>2, <1>4, <1>5, <1>6, <1>7, <1>8, <1>9 DEF q

LEMMA TakeResultStep ==
  ASSUME IInv, TakeResult
  PROVE  IInv'
<1>1. PICK q, r, g :
        /\ q = Head(arrived) /\ r = pending[q.id] /\ g \in Generation
        /\ q \in InHand /\ q.id \in DOMAIN pending /\ r \in Rollouts
        /\ MayGoOn(r) /\ HasRoom(st[r]) /\ Fits(st[r], g)
        /\ phase = "loop" /\ arrived' = Tail(arrived) /\ UNCHANGED <<nextId, engine>>
        /\ st' = [st EXCEPT ![r] = Ingest(st[r], g)]
        /\ IF st'[r].completed THEN phase' = "loop" /\ again' = 0
                               ELSE phase' = "submit" /\ again' = r
        /\ pending' = [i \in DOMAIN pending \ {q.id} |-> pending[i]]
        /\ InHand' = InHand \ {q} /\ IsInjective(arrived')
        /\ arrived' \in Seq(Requests) /\ ToSet(arrived') \subseteq ToSet(arrived)
  BY ResultFacts
<1>2. /\ st \in [Rollouts -> Rollout] /\ \A p \in Rollouts : Turning(st[p])
      /\ \A i, j \in DOMAIN pending : pending[i] = pending[j] => i = j
      /\ \A p, o \in InHand : p.id = o.id => p = o
      /\ engine \cap ToSet(arrived) = {}
      /\ \A i \in DOMAIN pending : i \in Nat /\ i < nextId /\ pending[i] \in Rollouts
  BY <1>1 DEF IInv, Typed, InFlightFresh, OneRequestEach
<1>3. /\ DOMAIN pending' = DOMAIN pending \ {q.id}
      /\ \A i \in DOMAIN pending' : pending'[i] = pending[i] /\ pending'[i] # r
  BY <1>1, <1>2
<1>4. \A p \in Rollouts : st'[p] = IF p = r THEN Ingest(st[r], g) ELSE st[p]
  BY <1>1, <1>2
<1>5. \A p \in Rollouts : Turning(st'[p])
  <2>1. Turning(Ingest(st[r], g))
    BY <1>1, <1>2, IngestKeepsTurning DEF MayGoOn
  <2> QED BY <1>2, <1>4, <2>1
<1>6. Typed'
  <2>1. \A p \in Rollouts : st'[p] \in Rollout
    BY <1>5 DEF Turning
  <2>2. st' \in [Rollouts -> Rollout]
    BY <1>1, <1>2, <2>1
  <2>3. \A i \in DOMAIN pending' : i \in Nat /\ i < nextId' /\ pending'[i] \in Rollouts
    BY <1>1, <1>2, <1>3
  <2>4. phase' \in {"loop", "submit"} /\ again' \in Rollouts \cup {0}
    BY <1>1
  <2> QED BY <1>1, <2>2, <2>3, <2>4 DEF IInv, Typed
<1>7. InFlightFresh'
  <2>1. ASSUME NEW p \in InHand' PROVE UpToDate(p)'
    <3>1. p \in InHand /\ p # q /\ UpToDate(p)
      BY <1>1, <2>1 DEF IInv, InFlightFresh
    <3>2. p.id \in DOMAIN pending'
      BY <1>1, <1>2, <1>3, <3>1 DEF UpToDate
    <3>3. pending'[p.id] = pending[p.id] /\ st'[pending[p.id]] = st[pending[p.id]]
      BY <1>2, <1>3, <1>4, <3>1, <3>2 DEF UpToDate
    <3> QED BY <3>1, <3>2, <3>3 DEF UpToDate
  <2>2. \A i, j \in DOMAIN pending' : pending'[i] = pending'[j] => i = j
    BY <1>2, <1>3
  <2>3. \A p, o \in InHand' : p.id = o.id => p = o
    BY <1>1, <1>2
  <2>4. engine' \cap ToSet(arrived') = {}
    BY <1>1, <1>2
  <2> QED BY <1>1, <2>1, <2>2, <2>3, <2>4 DEF InFlightFresh, OneRequestEach
<1>8. Waiting'
  <2>1. \A i \in DOMAIN pending' : (MayGoOn(pending[i]) /\ HasRoom(st[pending[i]]))'
    <3>1. \A i \in DOMAIN pending : MayGoOn(pending[i]) /\ HasRoom(st[pending[i]])
      BY <1>1 DEF IInv, Waiting
    <3>2. \A i \in DOMAIN pending' : /\ pending'[i] \in Rollouts
                                     /\ st'[pending'[i]] = st[pending[i]]
      BY <1>2, <1>3, <1>4
    <3> QED BY <1>3, <3>1, <3>2 DEF MayGoOn, HasRoom
  <2>2. \A p \in Rollouts \ {r} : MayGoOn(p)' => Waited(p)'
    <3>1. ASSUME NEW p \in Rollouts \ {r}, MayGoOn(p)' PROVE Waited(p)'
      <4>1. MayGoOn(p)
        BY <1>4, <3>1 DEF MayGoOn
      <4>2. PICK i \in DOMAIN pending : pending[i] = p
        BY <1>1, <4>1 DEF IInv, Waiting, Waited
      <4>3. i \in DOMAIN pending' /\ pending'[i] = p
        BY <1>1, <1>3, <4>2
      <4> QED BY <4>3 DEF Waited
    <3> QED BY <3>1
  <2>3. ~Waited(r)'
    BY <1>3 DEF Waited
  <2>4. CASE st'[r].completed
    BY <1>1, <2>1, <2>2, <2>4 DEF Waiting, MayGoOn
  <2>5. CASE ~st'[r].completed
    BY <1>1, <2>1, <2>2, <2>3, <2>5 DEF Waiting
  <2> QED BY <2>4, <2>5
<1> QED BY <1>1, <1>5, <1>6, <1>7, <1>8 DEF IInv

LEMMA ResubmitStep ==
  ASSUME IInv, Resubmit
  PROVE  IInv'
<1>a. PICK a : a = again
  OBVIOUS
<1>1. /\ phase = "submit" /\ phase' = "loop" /\ again' = 0 /\ arrived' = arrived
      /\ IF MayGoOn(a) /\ HasRoom(st[a])
         THEN /\ pending' = Put(nextId, a)
              /\ engine' = engine \cup {Sent(nextId, a)}
              /\ nextId' = nextId + 1 /\ st' = st
         ELSE /\ st' = [st EXCEPT ![a] = IF MayGoOn(a) THEN CutShort(@) ELSE @]
              /\ UNCHANGED <<pending, engine, nextId>>
  BY <1>a DEF Resubmit
<1>2. /\ st \in [Rollouts -> Rollout] /\ \A p \in Rollouts : Turning(st[p])
      /\ a \in Rollouts /\ ~st[a].completed /\ ~Waited(a)
      /\ \A r \in Rollouts \ {a} : MayGoOn(r) => Waited(r)
      /\ \A i \in DOMAIN pending : MayGoOn(pending[i]) /\ HasRoom(st[pending[i]])
      /\ \A i \in DOMAIN pending : i \in Nat /\ i < nextId /\ pending[i] \in Rollouts
      /\ engine \subseteq Requests /\ IsFiniteSet(engine) /\ nextId \in Nat
      /\ arrived \in Seq(Requests)
      /\ \A i, j \in DOMAIN pending : pending[i] = pending[j] => i = j
      /\ \A p, q \in InHand : p.id = q.id => p = q
      /\ IsInjective(arrived) /\ engine \cap ToSet(arrived) = {}
      /\ \A q \in InHand : UpToDate(q)
  BY <1>1, <1>a DEF IInv, Typed, InFlightFresh, OneRequestEach, Waiting
<1>3. CASE MayGoOn(a) /\ HasRoom(st[a])
  <2>q. PICK q : q = Sent(nextId, a)
    OBVIOUS
  <2>1. /\ pending' = Put(nextId, a) /\ engine' = engine \cup {q}
        /\ nextId' = nextId + 1 /\ st' = st
    BY <1>1, <1>3, <2>q
  <2>2. /\ DOMAIN pending' = DOMAIN pending \cup {nextId} /\ nextId \notin DOMAIN pending
        /\ pending'[nextId] = a
        /\ \A i \in DOMAIN pending : pending'[i] = pending[i] /\ pending[i] # a
    BY <1>2, <2>1 DEF Put, Waited
  <2>3. /\ q.id = nextId /\ q.prompt = st[a].total
        /\ q.budget = MaxResponseLen - st[a].resp /\ q \in Requests
    <3>1. st[a].total \in Nat /\ st[a].resp \in Nat /\ MaxResponseLen \in Nat
      BY <1>2, ConstantsAreNat DEF Rollout
    <3> QED BY <1>2, <2>q, <3>1 DEF Sent, Requests
  <2>4. \A p \in InHand : p.id \in DOMAIN pending /\ p.id # nextId
    BY <1>2, <2>2 DEF UpToDate
  <2>5. InHand' = InHand \cup {q} /\ q \notin InHand
    BY <1>1, <2>1, <2>3, <2>4 DEF InHand
  <2>6. Typed'
    <3>1. IsFiniteSet(engine')
      BY <1>2, <2>1, FS_AddElement
    <3>2. engine' \subseteq Requests
      BY <1>2, <2>1, <2>3
    <3>3. \A i \in DOMAIN pending' : i \in Nat /\ i < nextId' /\ pending'[i] \in Rollouts
      BY <1>2, <2>1, <2>2
    <3> QED BY <1>1, <1>2, <2>1, <3>1, <3>2, <3>3 DEF Typed
  <2>7. InFlightFresh'
    <3>1. ASSUME NEW p \in InHand PROVE UpToDate(p)'
      BY <1>2, <2>1, <2>2 DEF UpToDate
    <3>2. UpToDate(q)'
      BY <2>1, <2>2, <2>3 DEF UpToDate
    <3>3. \A i, j \in DOMAIN pending' : pending'[i] = pending'[j] => i = j
      BY <1>2, <2>2
    <3>4. \A p, o \in InHand' : p.id = o.id => p = o
      BY <1>2, <2>3, <2>4, <2>5
    <3>5. engine' \cap ToSet(arrived') = {}
      BY <1>1, <1>2, <2>1, <2>5 DEF InHand
    <3> QED BY <1>1, <1>2, <2>5, <3>1, <3>2, <3>3, <3>4, <3>5
            DEF InFlightFresh, OneRequestEach
  <2>8. Waiting'
    <3>1. \A i \in DOMAIN pending' : (MayGoOn(pending[i]) /\ HasRoom(st[pending[i]]))'
      BY <1>2, <1>3, <2>1, <2>2 DEF MayGoOn, HasRoom
    <3>2. ASSUME NEW p \in Rollouts, MayGoOn(p)' PROVE Waited(p)'
      <4>1. CASE p = a
        BY <2>2, <4>1 DEF Waited
      <4>2. CASE p # a
        <5>1. PICK i \in DOMAIN pending : pending[i] = p
          BY <1>2, <2>1, <3>2, <4>2 DEF MayGoOn, Waited
        <5> QED BY <2>2, <5>1 DEF Waited
      <4> QED BY <4>1, <4>2
    <3> QED BY <1>1, <3>1, <3>2 DEF Waiting
  <2> QED BY <1>1, <1>2, <2>1, <2>6, <2>7, <2>8 DEF IInv
<1>4. CASE ~(MayGoOn(a) /\ HasRoom(st[a]))
  <2>1. /\ st' = [st EXCEPT ![a] = IF MayGoOn(a) THEN CutShort(@) ELSE @]
        /\ UNCHANGED <<pending, engine, nextId>>
    BY <1>1, <1>4
  <2>2. /\ \A p \in Rollouts \ {a} : st'[p] = st[p]
        /\ st'[a] = IF MayGoOn(a) THEN CutShort(st[a]) ELSE st[a]
    BY <1>2, <2>1
  <2>3. Turning(st'[a]) /\ ~MayGoOn(a)'
    <3>1. Turning(CutShort(st[a])) /\ CutShort(st[a]).completed
      BY <1>2, CutShortKeepsTurning, CutShortFacts
    <3> QED BY <1>2, <2>2, <3>1 DEF MayGoOn
  <2>4. \A p \in Rollouts : Turning(st'[p])
    BY <1>2, <2>2, <2>3
  <2>5. \A i \in DOMAIN pending : pending[i] \in Rollouts \ {a}
    BY <1>2 DEF Waited
  <2>6. Typed'
    <3>1. \A p \in Rollouts : st'[p] \in Rollout
      BY <2>4 DEF Turning
    <3>2. st' \in [Rollouts -> Rollout]
      BY <1>2, <2>1, <3>1
    <3> QED BY <1>1, <1>2, <2>1, <3>2 DEF Typed
  <2>7. InHand' = InHand
    BY <1>1, <2>1 DEF InHand
  <2>8. InFlightFresh'
    <3>1. ASSUME NEW p \in InHand PROVE UpToDate(p)'
      BY <1>2, <2>1, <2>2, <2>5 DEF UpToDate
    <3> QED BY <1>1, <1>2, <2>1, <2>7, <3>1 DEF InFlightFresh, OneRequestEach
  <2>9. Waiting'
    <3>1. \A i \in DOMAIN pending' : (MayGoOn(pending[i]) /\ HasRoom(st[pending[i]]))'
      BY <1>2, <2>1, <2>2, <2>5 DEF MayGoOn, HasRoom
    <3>2. \A p \in Rollouts : MayGoOn(p)' => Waited(p)'
      BY <1>2, <2>1, <2>2, <2>3 DEF MayGoOn, Waited
    <3> QED BY <1>1, <3>1, <3>2 DEF Waiting
  <2> QED BY <1>1, <2>4, <2>6, <2>8, <2>9 DEF IInv
<1> QED BY <1>3, <1>4

LEMMA LeaveLoopStep ==
  ASSUME IInv, LeaveLoop
  PROVE  IInv'
<1>1. /\ phase = "loop" /\ arrived = <<>> /\ phase' = "finalize"
      /\ DOMAIN pending = {} \/ engine = {}
      /\ UNCHANGED <<st, pending, nextId, again, engine, arrived>>
  BY DEF LeaveLoop, AtLoopHead
<1>2. InHand = engine /\ InHand' = InHand
  BY <1>1, NoResults DEF InHand
<1>3. InHand = {}
  <2>1. \A q \in InHand : q.id \in DOMAIN pending
    BY DEF IInv, InFlightFresh, UpToDate
  <2> QED BY <1>1, <1>2, <2>1
<1>4. Typed'
  BY <1>1 DEF IInv, Typed
<1>5. InFlightFresh'
  BY <1>1, <1>2, <1>3 DEF IInv, InFlightFresh, OneRequestEach
<1>6. Waiting'
  BY <1>1, <1>2, <1>3 DEF IInv, Waiting, MayGoOn, HasRoom, Waited
<1> QED BY <1>1, <1>4, <1>5, <1>6 DEF IInv

\* Finalizing and forcing touch the records only, with nothing in hand.
LEMMA EndingStep ==
  ASSUME IInv, phase \in {"finalize", "forcing"}, phase' \in {"forcing", "done"},
         st' \in [Rollouts -> Rollout],
         UNCHANGED <<pending, nextId, again, engine, arrived>>,
         phase' = "forcing" => \A r \in Rollouts : Turning(st'[r])
  PROVE  IInv'
<1>1. InHand = {} /\ InHand' = {}
  BY DEF IInv, Waiting, InHand
<1>2. Typed'
  BY DEF IInv, Typed
<1>3. InFlightFresh'
  BY <1>1 DEF IInv, InFlightFresh, OneRequestEach
<1>4. Waiting'
  BY <1>1 DEF Waiting
<1> QED BY <1>2, <1>3, <1>4 DEF IInv

LEMMA FinalizeStep ==
  ASSUME IInv, FinalizeUnfinished
  PROVE  IInv'
<1>1. /\ phase = "finalize" /\ phase' = "forcing"
      /\ st' = [r \in Rollouts |-> Finalize(st[r])]
      /\ UNCHANGED <<pending, nextId, again, engine, arrived>>
  BY DEF FinalizeUnfinished
<1>2. \A r \in Rollouts : Turning(st'[r])
  BY <1>1, FinalizeFacts DEF IInv
<1>3. st' \in [Rollouts -> Rollout]
  BY <1>1, <1>2 DEF Turning
<1> QED BY <1>1, <1>2, <1>3, EndingStep

LEMMA ForceAnswersStep ==
  ASSUME IInv, ForceAnswers
  PROVE  IInv'
<1>1. PICK a \in [Rollouts -> Answer] :
        /\ \A r \in Rollouts : MaySample(st[r], a[r])
        /\ st' = [r \in Rollouts |-> Settled(st[r], a[r])]
  BY DEF ForceAnswers
<1>2. /\ phase = "forcing" /\ phase' = "done"
      /\ UNCHANGED <<pending, nextId, again, engine, arrived>>
  BY DEF ForceAnswers
<1>3. ASSUME NEW r \in Rollouts PROVE st'[r] \in Rollout
  <2>1. Turning(st[r]) /\ a[r] \in Answer /\ MaySample(st[r], a[r])
    BY <1>1, <1>2 DEF IInv
  <2> QED BY <1>1, <2>1, SettledFacts DEF Settling
<1>4. st' \in [Rollouts -> Rollout]
  BY <1>1, <1>3
<1> QED BY <1>2, <1>4, EndingStep

LEMMA NextIsInductive == IInv /\ [Next]_vars => IInv'
<1> SUFFICES ASSUME IInv, [Next]_vars PROVE IInv'
  OBVIOUS
<1>1. CASE SubmitAll
  BY <1>1, SubmitAllStep
<1>2. CASE TakeResult
  BY <1>2, TakeResultStep
<1>3. CASE Resubmit
  BY <1>3, ResubmitStep
<1>4. CASE LeaveLoop
  BY <1>4, LeaveLoopStep
<1>5. CASE FinalizeUnfinished
  BY <1>5, FinalizeStep
<1>6. CASE ForceAnswers
  BY <1>6, ForceAnswersStep
<1>7. CASE EngineStep
  BY <1>7, EngineStepStep
<1>8. CASE EngineDrop
  BY <1>8, EngineDropStep
<1>9. CASE UNCHANGED vars
  BY <1>9 DEF vars, IInv, Typed, InFlightFresh, OneRequestEach, UpToDate, Waiting,
              Waited, InHand, MayGoOn, HasRoom
<1> QED BY <1>1, <1>2, <1>3, <1>4, <1>5, <1>6, <1>7, <1>8, <1>9 DEF Next, Driver

LEMMA Inductive == Spec => []IInv
BY InitIsInductive, NextIsInductive, PTL DEF Spec

-----------------------------------------------------------------------------
\* The driver's state is what its fields say, and every request in hand has
\* the headroom can_generate asks for.
THEOREM TypeCorrect == Spec => []TypeOK
<1>1. IInv => TypeOK
  <2> SUFFICES ASSUME IInv PROVE TypeOK
    OBVIOUS
  <2>1. ASSUME NEW q \in InHand
        PROVE  q \in [id : Nat, prompt : 0..(MaxModelLen - MinBuffer),
                      budget : MinBuffer..MaxResponseLen]
    <3>1. phase \in {"loop", "submit"}
      BY DEF IInv, Typed, Waiting
    <3>2. q \in Requests
      BY DEF IInv, Typed, InHand, ToSet
    <3>3. PICK r \in Rollouts : /\ HasRoom(st[r]) /\ q.prompt = st[r].total
                                /\ q.budget = MaxResponseLen - st[r].resp
      BY <3>1 DEF IInv, Typed, InFlightFresh, UpToDate, Waiting
    <3>4. st[r].resp \in Nat /\ MinBuffer \in Nat
      BY RulesAssumption DEF IInv, Typed, Rollout, RulesAssumption
    <3> QED BY <3>2, <3>3, <3>4, ConstantsAreNat DEF Requests, HasRoom
  <2> QED BY <2>1 DEF IInv, Typed, TypeOK
<1> QED BY <1>1, Inductive, PTL

\* Whatever order results come in, and whichever the engine drops: what is in
\* hand is one request for each rollout waited for, made from its present tape
\* and budget.
THEOREM InHandIsFresh == Spec => []InFlightFresh
<1>1. IInv => InFlightFresh
  BY DEF IInv
<1> QED BY <1>1, Inductive, PTL

\* force_answers never waits on a turn's request: the loop leaves the engine
\* nothing.
THEOREM EngineIsIdleWhenForcing == Spec => []ForcingFindsEngineIdle
<1>1. IInv => ForcingFindsEngineIdle
  BY DEF IInv, Waiting, ForcingFindsEngineIdle
<1> QED BY <1>1, Inductive, PTL

\* At the head of the loop every rollout that may go on, and whose request was
\* not dropped, is at the engine.
THEOREM EngineIsKeptFull == Spec => []KeepsEngineFull
<1>1. IInv => KeepsEngineFull
  <2> SUFFICES ASSUME IInv, AtLoopHead
               PROVE  {r \in Rollouts : MayGoOn(r)} \ Lost = {pending[q.id] : q \in engine}
    BY DEF KeepsEngineFull
  <2>1. phase = "loop" /\ InHand = engine
    BY NoResults DEF AtLoopHead, InHand
  <2>2. /\ \A r \in Rollouts : MayGoOn(r) => Waited(r)
        /\ \A i \in DOMAIN pending : MayGoOn(pending[i]) /\ pending[i] \in Rollouts
        /\ \A i, j \in DOMAIN pending : pending[i] = pending[j] => i = j
        /\ \A q \in engine : q.id \in DOMAIN pending
    BY <2>1 DEF IInv, Typed, Waiting, InFlightFresh, OneRequestEach, UpToDate
  <2>3. ASSUME NEW r \in Rollouts, MayGoOn(r), r \notin Lost
        PROVE  \E q \in engine : r = pending[q.id]
    <3>1. PICK i \in DOMAIN pending : pending[i] = r
      BY <2>2, <2>3 DEF Waited
    <3>2. i \in {q.id : q \in InHand}
      BY <2>3, <3>1 DEF Lost
    <3> QED BY <2>1, <3>1, <3>2
  <2>4. ASSUME NEW q \in engine
        PROVE  /\ pending[q.id] \in Rollouts /\ MayGoOn(pending[q.id])
               /\ pending[q.id] \notin Lost
    BY <2>1, <2>2 DEF Lost
  <2> QED BY <2>3, <2>4
<1> QED BY <1>1, Inductive, PTL

-----------------------------------------------------------------------------
(***************************************************************************)
(* The end of a batch.  TLC checks on small instances that it comes        *)
(* (Terminates); what that rests on, but for the fairness of the driver    *)
(* and of the engine, holds for every value of the constants.              *)
(***************************************************************************)
\* The turns not taken yet.
TurnsLeft == {w \in Rollouts \X (1..MaxTurns) : w[2] > st[w[1]].turns}

PhaseSteps ==
  IF phase = "start" THEN 2 * NumRollouts + 4
  ELSE IF phase = "submit" THEN 6
  ELSE IF phase = "loop" THEN 3
  ELSE IF phase = "finalize" THEN 2
  ELSE IF phase = "forcing" THEN 1
  ELSE 0

\* How many steps the driver and the engine have left at most: three for a turn
\* (finish its request, take the result, submit the next), two of them still to
\* come for a request at the engine, one for a result.
StepsLeft ==
  3 * Cardinality(TurnsLeft) + 2 * Cardinality(engine) + Len(arrived) + PhaseSteps

ComesNearer == StepsLeft' \in Nat /\ StepsLeft' < StepsLeft

\* These are numbers.
Counted ==
  /\ IsFiniteSet(TurnsLeft) /\ Cardinality(TurnsLeft) \in Nat
  /\ Cardinality(engine) \in Nat /\ Len(arrived) \in Nat
  /\ PhaseSteps \in Nat /\ StepsLeft \in Nat

LEMMA TypedIsCounted == Typed => Counted
<1> SUFFICES ASSUME Typed PROVE Counted
  OBVIOUS
<1>1. IsFiniteSet(TurnsLeft)
  <2>1. IsFiniteSet(Rollouts) /\ IsFiniteSet(1..MaxTurns)
    BY FS_Interval, ConstantsAreNat, ContinuousAssumption DEF Rollouts, ContinuousAssumption
  <2>2. IsFiniteSet(Rollouts \X (1..MaxTurns))
    BY <2>1, FS_Product
  <2> QED BY <2>2, FS_Subset DEF TurnsLeft
<1>2. Cardinality(TurnsLeft) \in Nat /\ Cardinality(engine) \in Nat
  BY <1>1, FS_CardinalityType DEF Typed
<1>3. Len(arrived) \in Nat
  BY DEF Typed
<1>4. PhaseSteps \in Nat
  BY ContinuousAssumption DEF ContinuousAssumption, PhaseSteps
<1> QED BY <1>1, <1>2, <1>3, <1>4 DEF StepsLeft, Counted

\* The bookkeeping of one step.
Moves(t, e, n, k) ==
  /\ t \in Int /\ e \in Int /\ n \in Int /\ k \in Int
  /\ Cardinality(TurnsLeft') = Cardinality(TurnsLeft) + t
  /\ Cardinality(engine') = Cardinality(engine) + e
  /\ Len(arrived') = Len(arrived) + n
  /\ PhaseSteps' = PhaseSteps + k
  /\ 3 * t + 2 * e + n + k < 0

LEMMA MovesNearer ==
  ASSUME Counted, Counted', NEW t, NEW e, NEW n, NEW k, Moves(t, e, n, k)
  PROVE  ComesNearer
<1>1. /\ Cardinality(TurnsLeft) \in Nat /\ Cardinality(engine) \in Nat /\ Len(arrived) \in Nat
      /\ PhaseSteps \in Nat /\ StepsLeft' \in Nat
  BY DEF Counted
<1>2. /\ StepsLeft = 3 * Cardinality(TurnsLeft) + 2 * Cardinality(engine) + Len(arrived)
                     + PhaseSteps
      /\ StepsLeft' = 3 * (Cardinality(TurnsLeft) + t) + 2 * (Cardinality(engine) + e)
                      + (Len(arrived) + n) + (PhaseSteps + k)
  BY DEF StepsLeft, Moves
<1>3. StepsLeft' < StepsLeft
  <2> DEFINE a == Cardinality(TurnsLeft)
             b == Cardinality(engine)
             c == Len(arrived)
             d == PhaseSteps
  <2>1. a \in Nat /\ b \in Nat /\ c \in Nat /\ d \in Nat
    BY <1>1
  <2>2. /\ StepsLeft = 3 * a + 2 * b + c + d
        /\ StepsLeft' = 3 * (a + t) + 2 * (b + e) + (c + n) + (d + k)
    BY <1>2
  <2>3. t \in Int /\ e \in Int /\ n \in Int /\ k \in Int /\ 3 * t + 2 * e + n + k < 0
    BY DEF Moves
  <2> HIDE DEF a, b, c, d
  <2> QED BY <2>1, <2>2, <2>3
<1> QED BY <1>1, <1>3 DEF ComesNearer

LEMMA TurnsLeftSame ==
  ASSUME \A r \in Rollouts : st'[r].turns = st[r].turns
  PROVE  TurnsLeft' = TurnsLeft
BY DEF TurnsLeft

\* The first submissions fill the engine once.
LEMMA SubmitAllNearer ==
  ASSUME IInv, SubmitAll, Counted, Counted'
  PROVE  ComesNearer
<1>1. /\ phase = "start" /\ phase' = "loop" /\ arrived' = arrived
      /\ engine' = {Sent(FirstId(r), r) : r \in Live}
      /\ st' = [r \in Rollouts |-> IF MayGoOn(r) /\ r \notin Live THEN CutShort(st[r])
                                                                ELSE st[r]]
  BY DEF SubmitAll
<1>2. Typed /\ engine = {}
  BY <1>1 DEF IInv, Waiting, InHand
<1>3. TurnsLeft' = TurnsLeft
  <2>1. ASSUME NEW r \in Rollouts PROVE st'[r].turns = st[r].turns
    <3>1. st[r] \in Rollout
      BY <1>2 DEF Typed
    <3>2. CutShort(st[r]).turns = st[r].turns
      BY <3>1, CutShortFacts DEF SameCounts
    <3> QED BY <1>1, <3>2
  <2> QED BY <2>1, TurnsLeftSame
<1>4. Cardinality(engine') <= NumRollouts
  <2>1. IsFiniteSet(Rollouts) /\ Cardinality(Rollouts) = NumRollouts /\ NumRollouts \in Nat
    BY FS_Interval, ContinuousAssumption DEF Rollouts, ContinuousAssumption
  <2>2. Cardinality(Live) <= NumRollouts /\ IsFiniteSet(Live) /\ Cardinality(Live) \in Nat
    BY <2>1, FS_Subset, LiveIsFinite DEF Live
  <2> DEFINE f == [r \in Live |-> Sent(FirstId(r), r)]
  <2>3. f \in Surjection(Live, engine')
    BY <1>1 DEF Surjection
  <2> HIDE DEF f
  <2>4. Cardinality(engine') <= Cardinality(Live) /\ IsFiniteSet(engine')
    BY <2>2, <2>3, FS_Surjection
  <2>5. Cardinality(engine') \in Nat
    BY <2>4, FS_CardinalityType
  <2> QED BY <2>1, <2>2, <2>4, <2>5
<1>5. Cardinality(engine) = 0
  BY <1>2, FS_EmptySet
<1>6. NumRollouts \in Nat
  BY ContinuousAssumption DEF ContinuousAssumption
<1>7. PhaseSteps = 2 * NumRollouts + 4 /\ PhaseSteps' = 3
  BY <1>1 DEF PhaseSteps
<1> DEFINE e == Cardinality(engine')
           k == -(2 * NumRollouts + 1)
<1>8. /\ e \in Nat /\ k \in Int
      /\ Cardinality(engine') = Cardinality(engine) + e /\ PhaseSteps' = PhaseSteps + k
      /\ 3 * 0 + 2 * e + 0 + k < 0
  BY <1>4, <1>5, <1>6, <1>7 DEF Counted
<1> HIDE DEF e, k
<1>9. Len(arrived') = Len(arrived) + 0 /\ Cardinality(TurnsLeft') = Cardinality(TurnsLeft) + 0
  BY <1>1, <1>3 DEF Counted
<1>10. Moves(0, e, 0, k)
  BY <1>8, <1>9 DEF Moves
<1> QED BY <1>10, MovesNearer, Zenon

\* An engine step turns requests into results.
LEMMA EngineStepNearer ==
  ASSUME IInv, EngineStep, Counted, Counted'
  PROVE  ComesNearer
<1>1. arrived = <<>> /\ UNCHANGED <<st, phase>>
  BY DEF EngineStep, AtLoopHead
<1>2. PICK S \in (SUBSET engine) \ {{}} : \E order \in SetToSeqs(S) :
        arrived' = order /\ engine' = engine \ ToSet(order)
  BY DEF EngineStep
<1>3. PICK order \in SetToSeqs(S) : arrived' = order /\ engine' = engine \ ToSet(order)
  BY <1>2
<1>4. IsFiniteSet(engine) /\ IsFiniteSet(S)
  BY <1>2, FS_Subset DEF IInv, Typed
<1> DEFINE n == Cardinality(S)
<1>5. n \in Nat /\ n # 0
  BY <1>2, <1>4, FS_CardinalityType, FS_EmptySet
<1>6. /\ order \in [1..n -> S] /\ \A i, j \in 1..n : i # j => order[i] # order[j]
  BY <1>3 DEF SetToSeqs
<1>7. Len(arrived') = n
  BY <1>3, <1>5, <1>6
<1>8. ToSet(order) = S
  <2>1. order \in Injection(1..n, S)
    BY <1>6 DEF Injection, IsInjective
  <2>2. IsFiniteSet(1..n) /\ Cardinality(1..n) = n
    <3> HIDE DEF n
    <3> QED BY <1>5, FS_Interval
  <2>3. order \in Surjection(1..n, S)
    BY <1>4, <2>1, <2>2, FS_Injection
  <2>4. \A x \in S : \E i \in 1..n : order[i] = x
    BY <2>3 DEF Surjection
  <2>5. DOMAIN order = 1..n
    BY <1>6
  <2> HIDE DEF n
  <2> QED BY <1>6, <2>4, <2>5 DEF ToSet
<1>9. Cardinality(engine') = Cardinality(engine) - n
  <2>1. engine \cap S = S /\ engine' = engine \ S
    BY <1>2, <1>3, <1>8
  <2> QED BY <1>4, <2>1, FS_Difference
<1>10. TurnsLeft' = TurnsLeft /\ PhaseSteps' = PhaseSteps /\ Len(arrived) = 0
  BY <1>1 DEF TurnsLeft, PhaseSteps
<1> HIDE DEF n
<1>11. Moves(0, 0 - n, n, 0)
  <2>1. Cardinality(TurnsLeft') = Cardinality(TurnsLeft) + 0 /\ PhaseSteps' = PhaseSteps + 0
    BY <1>10 DEF Counted
  <2>2. Cardinality(engine') = Cardinality(engine) + (0 - n) /\ Len(arrived') = Len(arrived) + n
    BY <1>5, <1>7, <1>9, <1>10 DEF Counted
  <2>3. 3 * 0 + 2 * (0 - n) + n + 0 < 0 /\ n \in Int /\ 0 - n \in Int
    BY <1>5
  <2> QED BY <2>1, <2>2, <2>3 DEF Moves
<1> QED BY <1>11, MovesNearer, Zenon

\* A dropped request brings no result.
LEMMA EngineDropNearer ==
  ASSUME IInv, EngineDrop, Counted, Counted'
  PROVE  ComesNearer
<1>1. PICK q \in engine : engine' = engine \ {q}
  BY DEF EngineDrop
<1>2. UNCHANGED <<st, phase, arrived>>
  BY DEF EngineDrop
<1>3. Cardinality(engine') = Cardinality(engine) + (0 - 1)
  <2>1. IsFiniteSet(engine)
    BY DEF IInv, Typed
  <2>2. Cardinality(engine') = Cardinality(engine) - 1
    BY <1>1, <2>1, FS_RemoveElement
  <2> QED BY <2>2 DEF Counted
<1>4. /\ Cardinality(TurnsLeft') = Cardinality(TurnsLeft) + 0 /\ PhaseSteps' = PhaseSteps + 0
      /\ Len(arrived') = Len(arrived) + 0
  <2>1. TurnsLeft' = TurnsLeft /\ PhaseSteps' = PhaseSteps
    BY <1>2 DEF TurnsLeft, PhaseSteps
  <2> QED BY <1>2, <2>1 DEF Counted
<1>5. Moves(0, 0 - 1, 0, 0)
  BY <1>3, <1>4 DEF Moves
<1> QED BY <1>5, MovesNearer, Zenon

\* A result is a turn taken.
LEMMA TakeResultNearer ==
  ASSUME IInv, TakeResult, Counted, Counted'
  PROVE  ComesNearer
<1>1. PICK q, r, g :
        /\ q = Head(arrived) /\ r = pending[q.id] /\ g \in Generation
        /\ q \in InHand /\ q.id \in DOMAIN pending /\ r \in Rollouts
        /\ MayGoOn(r) /\ HasRoom(st[r]) /\ Fits(st[r], g)
        /\ phase = "loop" /\ arrived' = Tail(arrived) /\ UNCHANGED <<nextId, engine>>
        /\ st' = [st EXCEPT ![r] = Ingest(st[r], g)]
        /\ IF st'[r].completed THEN phase' = "loop" /\ again' = 0
                               ELSE phase' = "submit" /\ again' = r
        /\ pending' = [i \in DOMAIN pending \ {q.id} |-> pending[i]]
        /\ InHand' = InHand \ {q} /\ IsInjective(arrived')
        /\ arrived' \in Seq(Requests) /\ ToSet(arrived') \subseteq ToSet(arrived)
  BY ResultFacts
<1>2. st \in [Rollouts -> Rollout] /\ arrived \in Seq(Requests)
  BY DEF IInv, Typed
<1>3. Len(arrived') = Len(arrived) + (0 - 1)
  <2>1. arrived # <<>>
    BY DEF TakeResult
  <2>2. Len(Tail(arrived)) = Len(arrived) - 1
    BY <1>2, <2>1
  <2> QED BY <1>1, <2>2 DEF Counted
<1> DEFINE k == st[r].turns + 1
<1>4. /\ st[r].turns \in Nat /\ k \in 1..MaxTurns /\ st'[r].turns = k
      /\ \A p \in Rollouts \ {r} : st'[p] = st[p]
  <2>1. st[r] \in Rollout /\ st[r].turns < MaxTurns
    BY <1>1, <1>2 DEF MayGoOn
  <2>2. st[r].turns \in Nat
    BY <2>1 DEF Rollout
  <2>3. Ingest(st[r], g).turns = k
    <3>1. g \in Generation /\ Turning(st[r])
      BY <1>1 DEF IInv
    <3>2. Ingest(st[r], g).turns = st[r].turns + 1
      BY <2>1, <3>1, IngestCountsTurn, Zenon
    <3> QED BY <3>2
  <2>4. k \in 1..MaxTurns
    BY <2>1, <2>2, ConstantsAreNat
  <2> HIDE DEF k
  <2> QED BY <1>1, <1>2, <2>2, <2>3, <2>4
<1>5. Cardinality(TurnsLeft') = Cardinality(TurnsLeft) + (0 - 1)
  <2>1. <<r, k>> \in TurnsLeft
    BY <1>1, <1>4 DEF TurnsLeft
  <2>2. TurnsLeft' = TurnsLeft \ {<<r, k>>}
    <3>1. ASSUME NEW p \in Rollouts, NEW j \in 1..MaxTurns
          PROVE  j > st'[p].turns <=> j > st[p].turns /\ <<p, j>> # <<r, k>>
      <4>1. CASE p = r
        BY <1>4, <4>1
      <4>2. CASE p # r
        BY <1>4, <4>2
      <4> QED BY <4>1, <4>2
    <3> HIDE DEF k
    <3> QED BY <3>1 DEF TurnsLeft
  <2>3. IsFiniteSet(TurnsLeft) /\ Cardinality(TurnsLeft) \in Nat
    BY DEF Counted
  <2> HIDE DEF k
  <2>4. Cardinality(TurnsLeft') = Cardinality(TurnsLeft) - 1
    BY <2>1, <2>2, <2>3, FS_RemoveElement
  <2> QED BY <2>3, <2>4
<1>6. Cardinality(engine') = Cardinality(engine) + 0
  BY <1>1 DEF Counted
<1>7. CASE phase' = "submit"
  <2>1. PhaseSteps' = PhaseSteps + 3
    BY <1>1, <1>7 DEF PhaseSteps
  <2>2. Moves(0 - 1, 0, 0 - 1, 3)
    BY <1>3, <1>5, <1>6, <2>1 DEF Moves
  <2> QED BY <2>2, MovesNearer, Zenon
<1>8. CASE phase' = "loop"
  <2>1. PhaseSteps' = PhaseSteps + 0
    BY <1>1, <1>8 DEF PhaseSteps
  <2>2. Moves(0 - 1, 0, 0 - 1, 0)
    BY <1>3, <1>5, <1>6, <2>1 DEF Moves
  <2> QED BY <2>2, MovesNearer, Zenon
<1> QED BY <1>1, <1>7, <1>8

\* A submission is the last of the three steps.
LEMMA ResubmitNearer ==
  ASSUME IInv, Resubmit, Counted, Counted'
  PROVE  ComesNearer
<1>1. /\ phase = "submit" /\ phase' = "loop" /\ arrived' = arrived
      /\ \/ engine' = engine \cup {Sent(nextId, again)} /\ st' = st
         \/ /\ engine' = engine
            /\ st' = [st EXCEPT ![again] = IF MayGoOn(again) THEN CutShort(@) ELSE @]
  BY DEF Resubmit
<1>2. st \in [Rollouts -> Rollout] /\ IsFiniteSet(engine)
  BY DEF IInv, Typed
<1>3. PhaseSteps' = PhaseSteps + (0 - 3)
  BY <1>1 DEF PhaseSteps
<1>4. Len(arrived') = Len(arrived) + 0
  BY <1>1 DEF Counted
<1>5. Cardinality(TurnsLeft') = Cardinality(TurnsLeft) + 0
  <2>1. ASSUME NEW p \in Rollouts PROVE st'[p].turns = st[p].turns
    <3>1. CutShort(st[p]).turns = st[p].turns
      BY <1>2, CutShortFacts DEF SameCounts
    <3> QED BY <1>1, <1>2, <3>1
  <2>2. TurnsLeft' = TurnsLeft
    BY <2>1, TurnsLeftSame
  <2> QED BY <2>2 DEF Counted
<1>6. Cardinality(engine') = Cardinality(engine) + 0 \/ Cardinality(engine') = Cardinality(engine) + 1
  BY <1>1, <1>2, FS_AddElement DEF Counted
<1>7. Moves(0, 0, 0, 0 - 3) \/ Moves(0, 1, 0, 0 - 3)
  BY <1>3, <1>4, <1>5, <1>6 DEF Moves
<1> QED BY <1>7, MovesNearer, Zenon

\* What is left is done once.
LEMMA EndingNearer ==
  ASSUME IInv, LeaveLoop \/ FinalizeUnfinished \/ ForceAnswers, Counted, Counted'
  PROVE  ComesNearer
<1>1. UNCHANGED <<engine, arrived>>
  BY DEF LeaveLoop, FinalizeUnfinished, ForceAnswers
<1>2. PhaseSteps' = PhaseSteps + (0 - 1)
  <2>1. \/ phase = "loop" /\ phase' = "finalize"
        \/ phase = "finalize" /\ phase' = "forcing"
        \/ phase = "forcing" /\ phase' = "done"
    BY DEF LeaveLoop, AtLoopHead, FinalizeUnfinished, ForceAnswers
  <2> QED BY <2>1 DEF PhaseSteps
<1>3. TurnsLeft' = TurnsLeft
  <2>1. ASSUME NEW r \in Rollouts PROVE st'[r].turns = st[r].turns
    <3>1. CASE LeaveLoop
      BY <3>1 DEF LeaveLoop
    <3>2. CASE FinalizeUnfinished
      <4>1. st'[r] = Finalize(st[r]) /\ Turning(st[r])
        BY <3>2 DEF FinalizeUnfinished, IInv
      <4> QED BY <4>1, FinalizeFacts
    <3>3. CASE ForceAnswers
      <4>1. PICK a \in [Rollouts -> Answer] :
              /\ \A p \in Rollouts : MaySample(st[p], a[p])
              /\ st' = [p \in Rollouts |-> Settled(st[p], a[p])]
        BY <3>3 DEF ForceAnswers
      <4>2. Turning(st[r]) /\ a[r] \in Answer /\ MaySample(st[r], a[r])
        BY <3>3, <4>1 DEF ForceAnswers, IInv
      <4> QED BY <4>1, <4>2, SettledFacts
    <3> QED BY <3>1, <3>2, <3>3
  <2> QED BY <2>1, TurnsLeftSame
<1>4. Moves(0, 0, 0, 0 - 1)
  BY <1>1, <1>2, <1>3 DEF Moves, Counted
<1> QED BY <1>4, MovesNearer, Zenon

LEMMA StepComesNearer == IInv /\ Counted /\ Counted' /\ [Next]_vars => [ComesNearer]_vars
<1> SUFFICES ASSUME IInv, Counted, Counted', Next PROVE ComesNearer
  OBVIOUS
<1>1. CASE SubmitAll
  BY <1>1, SubmitAllNearer
<1>2. CASE EngineStep
  BY <1>2, EngineStepNearer
<1>3. CASE EngineDrop
  BY <1>3, EngineDropNearer
<1>4. CASE TakeResult
  BY <1>4, TakeResultNearer
<1>5. CASE Resubmit
  BY <1>5, ResubmitNearer
<1>6. CASE LeaveLoop \/ FinalizeUnfinished \/ ForceAnswers
  BY <1>6, EndingNearer
<1> QED BY <1>1, <1>2, <1>3, <1>4, <1>5, <1>6 DEF Next, Driver

\* Every step of the driver, and every one of the engine that answers or drops a
\* request, brings the end of the batch nearer, in whatever order results arrive.
THEOREM EveryStepComesNearer ==
  Spec => StepsLeft = 3 * (NumRollouts * MaxTurns) + 2 * NumRollouts + 4
          /\ [][ComesNearer]_vars
<1>1. Init => StepsLeft = 3 * (NumRollouts * MaxTurns) + 2 * NumRollouts + 4
  <2> SUFFICES ASSUME Init
               PROVE  StepsLeft = 3 * (NumRollouts * MaxTurns) + 2 * NumRollouts + 4
    OBVIOUS
  <2>1. NumRollouts \in Nat /\ MaxTurns \in Nat
    BY ContinuousAssumption, ConstantsAreNat DEF ContinuousAssumption
  <2>2. \A r \in Rollouts : st[r].turns = 0
    BY DEF Init, Fresh
  <2>3. TurnsLeft = Rollouts \X (1..MaxTurns)
    BY <2>1, <2>2 DEF TurnsLeft
  <2>4. /\ IsFiniteSet(Rollouts) /\ Cardinality(Rollouts) = NumRollouts
        /\ IsFiniteSet(1..MaxTurns) /\ Cardinality(1..MaxTurns) = MaxTurns
    BY <2>1, FS_Interval DEF Rollouts
  <2>5. Cardinality(TurnsLeft) = NumRollouts * MaxTurns
    BY <2>3, <2>4, FS_Product
  <2>6. Cardinality(engine) = 0 /\ Len(arrived) = 0 /\ PhaseSteps = 2 * NumRollouts + 4
    BY FS_EmptySet DEF Init, PhaseSteps
  <2> DEFINE m == NumRollouts * MaxTurns
  <2>7. m \in Nat
    BY <2>1
  <2> HIDE DEF m
  <2>8. StepsLeft = 3 * m + 2 * 0 + 0 + (2 * NumRollouts + 4)
    BY <2>5, <2>6 DEF StepsLeft, m
  <2>9. StepsLeft = 3 * m + 2 * NumRollouts + 4
    BY <2>1, <2>7, <2>8
  <2> QED BY <2>9 DEF m
<1>2. IInv => Counted
  BY TypedIsCounted DEF IInv
<1> QED BY <1>1, <1>2, StepComesNearer, Inductive, PTL DEF Spec

\* What the driver, or the engine for it, needs to take its next step: behind an
\* engine step, a text that answers the next result's request; at the end,
\* answers that fit.
CanGoOn ==
  \/ phase \in {"start", "submit", "finalize"}
  \/ AtLoopHead /\ (DOMAIN pending = {} \/ engine = {})
  \/ /\ AtLoopHead /\ DOMAIN pending # {}
     /\ \E S \in (SUBSET engine) \ {{}} : SetToSeqs(S) # {}
  \/ /\ phase = "loop" /\ arrived # <<>>
     /\ \E g \in Generation : Serves(Head(arrived), g)
  \/ /\ phase = "forcing"
     /\ \E a \in [Rollouts -> Answer] : \A r \in Rollouts : MaySample(st[r], a[r])

NotStuck == phase # "done" => CanGoOn

\* The driver is never stuck before its end: it waits only for an engine that
\* still holds a request, whatever was dropped, and every request it sent is one
\* that can be answered.
THEOREM ContinuousIsNeverStuck ==
  ASSUME Texts # {}
  PROVE  Spec => []NotStuck
<1>1. IInv => NotStuck
  <2> SUFFICES ASSUME IInv, phase # "done" PROVE CanGoOn
    BY DEF NotStuck
  <2>1. Typed
    BY DEF IInv
  <2>2. CASE phase = "loop" /\ arrived = <<>>
    <3>1. ASSUME NEW q \in engine PROVE SetToSeqs({q}) # {}
      <4>1. Cardinality({q}) = 1 /\ 1..1 = {1}
        BY FS_Singleton
      <4> DEFINE f == [i \in 1..1 |-> q]
      <4>2. f \in [1..1 -> {q}] /\ \A i, j \in 1..1 : i # j => f[i] # f[j]
        BY <4>1
      <4> HIDE DEF f
      <4>3. f \in SetToSeqs({q})
        BY <4>1, <4>2 DEF SetToSeqs
      <4> QED BY <4>3
    <3>2. CASE engine = {}
      BY <2>2, <3>2 DEF CanGoOn, AtLoopHead
    <3>3. CASE engine # {}
      <4>1. PICK q \in engine : TRUE
        BY <3>3
      <4>2. {q} \in (SUBSET engine) \ {{}}
        BY <4>1
      <4> QED BY <2>2, <3>1, <4>1, <4>2 DEF CanGoOn, AtLoopHead
    <3> QED BY <3>2, <3>3
  <2>3. CASE phase = "loop" /\ arrived # <<>>
    <3> DEFINE q == Head(arrived)
    <3>1. q \in InHand
      <4>1. arrived \in Seq(Requests) /\ IsInjective(arrived)
        BY <2>1 DEF Typed, IInv, InFlightFresh, OneRequestEach
      <4>2. q \in ToSet(arrived)
        BY <2>3, <4>1, TailOfResults
      <4> QED BY <4>2 DEF InHand
    <3> HIDE DEF q
    <3>2. UpToDate(q) /\ q.id \in DOMAIN pending
      BY <3>1 DEF IInv, InFlightFresh, UpToDate
    <3> DEFINE s == st[pending[q.id]]
    <3>3. s \in Rollout /\ HasRoom(s)
      BY <2>1, <2>3, <3>2 DEF Typed, IInv, Waiting
    <3>4. q.prompt = s.total /\ q.budget = MaxResponseLen - s.resp
      BY <3>2 DEF UpToDate
    <3> HIDE DEF s
    <3>5. \E g \in Generation : Serves(q, g)
      BY <3>3, <3>4, RoomIsServed
    <3> QED BY <2>3, <3>5 DEF CanGoOn, q
  <2>4. CASE phase = "forcing"
    <3>1. \A r \in Rollouts : \E a \in Answer : MaySample(st[r], a)
      BY <2>1, SomeAnswerFits DEF Typed
    <3> DEFINE a == [r \in Rollouts |-> CHOOSE x \in Answer : MaySample(st[r], x)]
    <3>2. \A r \in Rollouts : a[r] \in Answer /\ MaySample(st[r], a[r])
      BY <3>1
    <3>3. a \in [Rollouts -> Answer]
      BY <3>2
    <3> HIDE DEF a
    <3> QED BY <2>4, <3>2, <3>3 DEF CanGoOn
  <2> QED BY <2>1, <2>2, <2>3, <2>4 DEF CanGoOn, Typed
<1> QED BY <1>1, Inductive, PTL

-----------------------------------------------------------------------------
(***************************************************************************)
(* The refinement.  The batch's rules are the driver's rules.              *)
(***************************************************************************)
LEMMA SameRules ==
  /\ \A p, h : Promise!Fresh(p, h) = Fresh(p, h)
  /\ \A s : Promise!HasRoom(s) = HasRoom(s)
  /\ \A s : Promise!CutShort(s) = CutShort(s)
  /\ \A s : Promise!Finalize(s) = Finalize(s)
  /\ \A s, g : Promise!Fits(s, g) = Fits(s, g)
  /\ Promise!Generation = Generation
<1>1. \A p, h : Promise!Fresh(p, h) = Fresh(p, h)
  BY DEF Promise!Fresh, Fresh
<1>2. \A s : Promise!HasRoom(s) = HasRoom(s)
  BY DEF Promise!HasRoom, HasRoom
<1>3. \A s : Promise!CutShort(s) = CutShort(s)
  BY DEF Promise!CutShort, CutShort
<1>4. \A s : Promise!Finalize(s) = Finalize(s)
  BY DEF Promise!Finalize, Finalize
<1>5. \A s, g : Promise!Fits(s, g) = Fits(s, g)
  BY DEF Promise!Fits, Fits
<1>6. Promise!Generation = Generation
  BY DEF Promise!Generation, Generation
<1> QED BY <1>1, <1>2, <1>3, <1>4, <1>5, <1>6

LEMMA SameIngest == \A s, g : Promise!Ingest(s, g) = Ingest(s, g)
BY DEF Promise!Ingest, Ingest, Promise!Contains, Contains, Promise!Extended, Extended,
       Promise!CutShort, CutShort, Promise!Completed, Completed,
       Promise!AnswerRequest, AnswerRequest, Promise!Refuse, Refuse,
       Promise!InjectHint, InjectHint, Promise!EnvironmentTurn, EnvironmentTurn,
       Promise!Reply, Reply

LEMMA SameForcing ==
  /\ Promise!Answer = Answer
  /\ \A s, a : Promise!MaySample(s, a) = MaySample(s, a)
  /\ \A s, a : Promise!Settled(s, a) = Settled(s, a)
<1>1. Promise!Answer = Answer
  BY DEF Promise!Answer, Answer
<1>2. Promise!Rescue = Rescue /\ (\A t, c : Promise!CutAt(t, c) = CutAt(t, c))
      /\ \A t : Promise!Tight(t) = Tight(t)
  BY DEF Promise!Rescue, Rescue, Promise!CutAt, CutAt, Promise!Exchanges, Exchanges,
         Promise!After, After, Promise!Exchange, Exchange, Promise!Ask, Ask,
         Promise!Reply, Reply, Promise!Tight, Tight, Promise!Loose, Loose
<1>3. \A t : Promise!Rescuable(t) = Rescuable(t)
  BY <1>2 DEF Promise!Rescuable, Rescuable
<1>4. \A t : Promise!AnswerScaffold(t) = AnswerScaffold(t)
  BY <1>2 DEF Promise!AnswerScaffold, AnswerScaffold
<1>5. \A s : Promise!AddedLen(s) = AddedLen(s)
  BY <1>4 DEF Promise!AddedLen, AddedLen
<1>6. \A s : Promise!CanForce(s) = CanForce(s)
  BY <1>3, <1>5 DEF Promise!CanForce, CanForce
<1>7. \A s, a : Promise!MaySample(s, a) = MaySample(s, a)
  BY <1>5, <1>6 DEF Promise!MaySample, MaySample, Promise!AnswerFits, AnswerFits
<1>8. \A s, a : Promise!ForceAnswer(s, a) = ForceAnswer(s, a)
  <2>1. \A t : Promise!Reverse(t) = Reverse(t)
    BY DEF Promise!Reverse, Reverse
  <2>2. \A t, u : Promise!IsPrefix(t, u) = IsPrefix(t, u)
    BY DEF Promise!IsPrefix, IsPrefix
  <2>3. \A t, u : Promise!IsSuffix(t, u) = IsSuffix(t, u)
    BY <2>1, <2>2 DEF Promise!IsSuffix, IsSuffix
  <2>4. \A s, ts, n : Promise!Extended(s, ts, n) = Extended(s, ts, n)
    BY DEF Promise!Extended, Extended
  <2> QED BY <1>4, <1>5, <2>3, <2>4 DEF Promise!ForceAnswer, ForceAnswer
<1>9. \A s, a : Promise!Settled(s, a) = Settled(s, a)
  BY <1>6, <1>8 DEF Promise!Settled, Settled, Promise!Unforced, Unforced
<1> QED BY <1>1, <1>7, <1>9


\* The batch is where the driver is: taking turns until it is finalized.
AbstractPhase == IF phase \in {"forcing", "done"} THEN phase ELSE "turns"

LEMMA InitImplements == Init => Promise!Init
<1> SUFFICES ASSUME Init PROVE Promise!Init
  OBVIOUS
<1>1. Lost = {}
  <2>1. DOMAIN pending = {}
    BY DEF Init
  <2> QED BY <2>1 DEF Lost
<1> QED BY <1>1, SameRules DEF Init, Promise!Init

LEMMA StutterOnTheBatch ==
  ASSUME st' = st, AbstractPhase' = AbstractPhase, Lost' = Lost
  PROVE  UNCHANGED Promise!vars
BY DEF Promise!vars, AbstractPhase

LEMMA SameLost ==
  ASSUME pending' = pending, InHand' = InHand
  PROVE  Lost' = Lost
BY DEF Lost

\* Asking can_generate of the live rollouts cuts short the ones without room.
LEMMA SubmitAllImplements ==
  ASSUME IInv, SubmitAll
  PROVE  [Promise!Next]_Promise!vars
<1> DEFINE S == {r \in Rollouts : MayGoOn(r) /\ r \notin Live}
           n == Cardinality(Live)
<1>1. /\ phase = "start" /\ phase' = "loop"
      /\ st' = [r \in Rollouts |-> IF r \in S THEN CutShort(st[r]) ELSE st[r]]
      /\ engine' = {Sent(FirstId(r), r) : r \in Live}
      /\ DOMAIN pending' = 0..(n - 1)
  BY DEF SubmitAll
<1>2. st \in [Rollouts -> Rollout] /\ DOMAIN pending = {}
  BY <1>1 DEF IInv, Typed, Waiting
<1>3. Lost = {} /\ Lost' = {}
  <2>1. ASSUME NEW i \in DOMAIN pending' PROVE \E q \in engine' : q.id = i
    <3>1. PICK r \in Live : FirstId(r) = i
      BY <1>1, FirstIdsAreInOrder
    <3>2. Sent(FirstId(r), r).id = i
      BY <3>1 DEF Sent
    <3> QED BY <1>1, <3>2
  <2>2. engine' \subseteq InHand'
    BY DEF InHand
  <2> QED BY <1>2, <2>1, <2>2 DEF Lost
<1>4. CASE S = {}
  <2>1. st' = [r \in Rollouts |-> st[r]]
    BY <1>1, <1>4
  <2>2. st' = st
    BY <1>2, <2>1
  <2> QED BY <1>1, <1>3, <2>2, StutterOnTheBatch DEF AbstractPhase
<1>5. CASE S # {}
  <2>1. \A r \in S : Promise!Open(r) /\ ~Promise!HasRoom(st[r])
    BY <1>3, SameRules DEF Promise!Open, MayGoOn, Live
  <2>2. st' = [r \in Rollouts |-> IF r \in S THEN Promise!CutShort(st[r]) ELSE st[r]]
    BY <1>1, SameRules
  <2>3. S \in SUBSET Rollouts
    OBVIOUS
  <2> HIDE DEF S
  <2>4. Promise!RunOut(S)
    BY <1>1, <1>3, <1>5, <2>1, <2>2 DEF Promise!RunOut
  <2> QED BY <2>3, <2>4 DEF Promise!Next
<1> QED BY <1>4, <1>5

\* A result taken is one rollout's turn.
LEMMA TakeResultImplements ==
  ASSUME IInv, TakeResult
  PROVE  Promise!Next
<1>1. PICK q, r, g :
        /\ q = Head(arrived) /\ r = pending[q.id] /\ g \in Generation
        /\ q \in InHand /\ q.id \in DOMAIN pending /\ r \in Rollouts
        /\ MayGoOn(r) /\ HasRoom(st[r]) /\ Fits(st[r], g)
        /\ phase = "loop" /\ arrived' = Tail(arrived) /\ UNCHANGED <<nextId, engine>>
        /\ st' = [st EXCEPT ![r] = Ingest(st[r], g)]
        /\ IF st'[r].completed THEN phase' = "loop" /\ again' = 0
                               ELSE phase' = "submit" /\ again' = r
        /\ pending' = [i \in DOMAIN pending \ {q.id} |-> pending[i]]
        /\ InHand' = InHand \ {q} /\ IsInjective(arrived')
        /\ arrived' \in Seq(Requests) /\ ToSet(arrived') \subseteq ToSet(arrived)
  BY ResultFacts
<1>2. /\ st \in [Rollouts -> Rollout]
      /\ \A i, j \in DOMAIN pending : pending[i] = pending[j] => i = j
      /\ \A p, o \in InHand : p.id = o.id => p = o
  BY DEF IInv, Typed, InFlightFresh, OneRequestEach
<1>3. Lost' = Lost
  <2>1. DOMAIN pending' \ {p.id : p \in InHand'} = DOMAIN pending \ {p.id : p \in InHand}
    BY <1>1, <1>2
  <2>2. \A i \in DOMAIN pending' : pending'[i] = pending[i]
    BY <1>1
  <2> QED BY <2>1, <2>2 DEF Lost
<1>4. r \notin Lost
  BY <1>1, <1>2 DEF Lost
<1> DEFINE S == {r}
           G == [p \in S |-> g]
<1>5. \A p \in S : Promise!Open(p) /\ Promise!HasRoom(st[p])
  BY <1>1, <1>4, SameRules DEF Promise!Open, MayGoOn
<1>6. G \in [S -> Promise!Generation] /\ \A p \in S : Promise!Fits(st[p], G[p])
  BY <1>1, SameRules
<1>7. st' = [p \in Rollouts |-> IF p \in S THEN Promise!Ingest(st[p], G[p]) ELSE st[p]]
  BY <1>1, <1>2, SameIngest
<1>8. phase' \in {"loop", "submit"} /\ S # {} /\ S \in SUBSET Rollouts
  BY <1>1
<1> HIDE DEF S, G
<1>9. Promise!TakeTurns(S)
  BY <1>1, <1>3, <1>5, <1>6, <1>7, <1>8 DEF Promise!TakeTurns
<1> QED BY <1>8, <1>9 DEF Promise!Next

\* A rollout that can_generate refuses at its resubmission has run out.
LEMMA ResubmitImplements ==
  ASSUME IInv, Resubmit
  PROVE  [Promise!Next]_Promise!vars
<1>a. PICK a : a = again
  OBVIOUS
<1>1. /\ phase = "submit" /\ phase' = "loop" /\ arrived' = arrived
      /\ IF MayGoOn(a) /\ HasRoom(st[a])
         THEN /\ pending' = Put(nextId, a)
              /\ engine' = engine \cup {Sent(nextId, a)}
              /\ nextId' = nextId + 1 /\ st' = st
         ELSE /\ st' = [st EXCEPT ![a] = IF MayGoOn(a) THEN CutShort(@) ELSE @]
              /\ UNCHANGED <<pending, engine, nextId>>
  BY <1>a DEF Resubmit
<1>2. /\ st \in [Rollouts -> Rollout] /\ a \in Rollouts /\ ~Waited(a)
      /\ nextId \in Nat /\ \A i \in DOMAIN pending : i \in Nat /\ i < nextId
  BY <1>1, <1>a DEF IInv, Typed, Waiting
<1>3. CASE MayGoOn(a) /\ HasRoom(st[a])
  <2>q. PICK q : q = Sent(nextId, a)
    OBVIOUS
  <2>1. /\ pending' = Put(nextId, a) /\ engine' = engine \cup {q} /\ st' = st
        /\ q.id = nextId
    BY <1>1, <1>3, <2>q DEF Sent
  <2>2. InHand' = InHand \cup {q}
    BY <1>1, <2>1 DEF InHand
  <2>3. DOMAIN pending' \ {p.id : p \in InHand'} = DOMAIN pending \ {p.id : p \in InHand}
    BY <1>2, <2>1, <2>2 DEF Put
  <2>4. \A i \in DOMAIN pending : pending'[i] = pending[i]
    BY <1>2, <2>1 DEF Put
  <2>5. Lost' = Lost
    BY <2>3, <2>4 DEF Lost
  <2> QED BY <1>1, <2>1, <2>5, StutterOnTheBatch DEF AbstractPhase
<1>4. CASE ~(MayGoOn(a) /\ HasRoom(st[a]))
  <2>1. /\ st' = [st EXCEPT ![a] = IF MayGoOn(a) THEN CutShort(@) ELSE @]
        /\ UNCHANGED <<pending, engine, nextId>>
    BY <1>1, <1>4
  <2>2. Lost' = Lost
    BY <1>1, <2>1, SameLost DEF InHand
  <2>3. CASE ~MayGoOn(a)
    <3>1. st' = st
      BY <1>2, <2>1, <2>3
    <3> QED BY <1>1, <2>2, <3>1, StutterOnTheBatch DEF AbstractPhase
  <2>4. CASE MayGoOn(a)
    <3> DEFINE S == {a}
    <3>1. \A p \in S : Promise!Open(p) /\ ~Promise!HasRoom(st[p])
      <4>1. a \notin Lost
        BY <1>2 DEF Lost, Waited
      <4> QED BY <1>4, <2>4, <4>1, SameRules DEF Promise!Open, MayGoOn
    <3>2. st' = [p \in Rollouts |-> IF p \in S THEN Promise!CutShort(st[p]) ELSE st[p]]
      BY <1>2, <2>1, <2>4, SameRules
    <3>3. S # {} /\ S \in SUBSET Rollouts
      BY <1>2
    <3> HIDE DEF S
    <3>4. Promise!RunOut(S)
      BY <1>1, <2>2, <3>1, <3>2, <3>3 DEF Promise!RunOut
    <3> QED BY <3>3, <3>4 DEF Promise!Next
  <2> QED BY <2>3, <2>4
<1> QED BY <1>3, <1>4

\* A request dropped is a rollout lost.
LEMMA EngineDropImplements ==
  ASSUME IInv, EngineDrop
  PROVE  Promise!Next
<1>1. PICK q \in engine : engine' = engine \ {q}
  BY DEF EngineDrop
<1>2. /\ phase = "loop" /\ arrived = <<>> /\ Lossy
      /\ UNCHANGED <<st, phase, pending, nextId, again, arrived>>
  BY DEF EngineDrop, AtLoopHead
<1>3. InHand = engine /\ InHand' = InHand \ {q}
  BY <1>1, <1>2, NoResults DEF InHand
<1>4. PICK r : r = pending[q.id]
  OBVIOUS
<1>5. /\ q.id \in DOMAIN pending /\ r \in Rollouts /\ MayGoOn(r) /\ HasRoom(st[r])
      /\ \A i, j \in DOMAIN pending : pending[i] = pending[j] => i = j
      /\ \A p, o \in InHand : p.id = o.id => p = o
  BY <1>1, <1>2, <1>3, <1>4 DEF IInv, Typed, InFlightFresh, OneRequestEach, UpToDate, Waiting
<1>6. r \notin Lost
  BY <1>1, <1>3, <1>4, <1>5 DEF Lost
<1>7. Lost' = Lost \cup {r}
  <2>1. DOMAIN pending \ {p.id : p \in InHand'} =
          (DOMAIN pending \ {p.id : p \in InHand}) \cup {q.id}
    BY <1>1, <1>3, <1>5
  <2> QED BY <1>2, <1>4, <2>1 DEF Lost
<1>8. Promise!Lose(r)
  BY <1>2, <1>5, <1>6, <1>7, SameRules DEF Promise!Lose, Promise!Open, MayGoOn
<1> QED BY <1>5, <1>8 DEF Promise!Next

\* What is still pending when the loop is left was dropped.
LEMMA FinalizeImplements ==
  ASSUME IInv, FinalizeUnfinished
  PROVE  Promise!Next
<1>1. /\ phase = "finalize" /\ phase' = "forcing"
      /\ st' = [r \in Rollouts |-> Promise!Finalize(st[r])]
      /\ UNCHANGED <<pending, nextId, again, engine, arrived>>
  BY SameRules DEF FinalizeUnfinished
<1>2. InHand = {} /\ InHand' = InHand
  BY <1>1 DEF IInv, Waiting, InHand
<1>3. Lost' = Lost
  BY <1>1, <1>2, SameLost
<1>4. \A r \in Rollouts : ~Promise!Open(r)
  <2>1. ASSUME NEW r \in Rollouts, MayGoOn(r) PROVE r \in Lost
    <3>1. PICK i \in DOMAIN pending : pending[i] = r
      BY <1>1, <2>1 DEF IInv, Waiting, Waited
    <3> QED BY <1>2, <3>1 DEF Lost
  <2> QED BY <2>1 DEF Promise!Open, MayGoOn
<1>5. Promise!Close
  BY <1>1, <1>3, <1>4 DEF Promise!Close
<1> QED BY <1>5 DEF Promise!Next

LEMMA ForceAnswersImplements ==
  ASSUME IInv, ForceAnswers
  PROVE  Promise!Next
<1>1. PICK a \in [Rollouts -> Answer] :
        /\ \A r \in Rollouts : MaySample(st[r], a[r])
        /\ st' = [r \in Rollouts |-> Settled(st[r], a[r])]
  BY DEF ForceAnswers
<1>2. /\ a \in [Rollouts -> Promise!Answer]
      /\ \A r \in Rollouts : Promise!MaySample(st[r], a[r])
      /\ st' = [r \in Rollouts |-> Promise!Settled(st[r], a[r])]
  BY <1>1, SameForcing
<1>3. /\ phase = "forcing" /\ phase' = "done"
      /\ UNCHANGED <<pending, nextId, again, engine, arrived>>
  BY DEF ForceAnswers
<1>4. Lost' = Lost
  BY <1>3, SameLost DEF InHand
<1>5. Promise!ForceAnswers
  BY <1>2, <1>3, <1>4 DEF Promise!ForceAnswers
<1> QED BY <1>5 DEF Promise!Next

LEMMA StepImplements == IInv /\ [Next]_vars => [Promise!Next]_Promise!vars
<1> SUFFICES ASSUME IInv, [Next]_vars PROVE [Promise!Next]_Promise!vars
  OBVIOUS
<1>1. CASE SubmitAll
  BY <1>1, SubmitAllImplements
<1>2. CASE TakeResult
  BY <1>2, TakeResultImplements
<1>3. CASE Resubmit
  BY <1>3, ResubmitImplements
<1>4. CASE LeaveLoop
  <2>1. /\ phase = "loop" /\ phase' = "finalize"
        /\ UNCHANGED <<st, pending, nextId, again, engine, arrived>>
    BY <1>4 DEF LeaveLoop, AtLoopHead
  <2>2. Lost' = Lost
    BY <2>1, SameLost DEF InHand
  <2> QED BY <2>1, <2>2, StutterOnTheBatch DEF AbstractPhase
<1>5. CASE FinalizeUnfinished
  BY <1>5, FinalizeImplements
<1>6. CASE ForceAnswers
  BY <1>6, ForceAnswersImplements
<1>7. CASE EngineStep
  <2>1. /\ phase = "loop" /\ UNCHANGED <<st, phase, pending, nextId, again>>
        /\ InHand' = InHand
    BY <1>7, EngineFacts
  <2>2. Lost' = Lost
    BY <2>1, SameLost
  <2> QED BY <2>1, <2>2, StutterOnTheBatch DEF AbstractPhase
<1>8. CASE EngineDrop
  BY <1>8, EngineDropImplements
<1>9. CASE UNCHANGED vars
  <2>1. Lost' = Lost
    BY <1>9, SameLost DEF vars, InHand
  <2> QED BY <1>9, <2>1, StutterOnTheBatch DEF vars, AbstractPhase
<1> QED BY <1>1, <1>2, <1>3, <1>4, <1>5, <1>6, <1>7, <1>8, <1>9 DEF Next, Driver

\* run_continuous implements the batch, dropped requests included: whatever
\* HintRollout promises of its rollouts (budgets, hints, flags, what a forced
\* answer does), the continuous driver keeps.
THEOREM ContinuousImplements == Spec => ImplementsHintRollout
<1>1. Init => Promise!Init
  BY InitImplements
<1>2. IInv /\ [Next]_vars => [Promise!Next]_Promise!vars
  BY StepImplements
<1> QED BY <1>1, <1>2, Inductive, PTL DEF Spec, ImplementsHintRollout, Promise!Spec
=============================================================================
