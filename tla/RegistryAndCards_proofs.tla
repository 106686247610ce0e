----------------------- MODULE RegistryAndCards_proofs -----------------------
(***************************************************************************)
(* Proofs about RegistryAndCards.  The registry, for every set of          *)
(* documents, tasks and receipts: it only grows, so whatever a reference   *)
(* resolved to when its document was published it resolves to ever after;  *)
(* and the counters of an iteration continue those of the one before it,   *)
(* so they are the truth about the lineage that ends in it.  The card      *)
(* board, for any processes, issues, numbers, saves and failures: what a   *)
(* command wrote down of the files it will write is what keeps it from     *)
(* destroying a text unseen, from cleaning under an execution and from     *)
(* giving a number out twice.                                              *)
(***************************************************************************)
EXTENDS RegistryAndCards, FiniteSetTheorems, WellFoundedInduction, TLAPS

-----------------------------------------------------------------------------
(* The registry of documents (ContextRegistry).                            *)

\* What one step does to the registry: nothing, or one new key.
Grows ==
  /\ DOMAIN registry \subseteq DOMAIN registry'
  /\ \A k \in DOMAIN registry : registry'[k] = registry[k]

Documents == Intents \cup Batches \cup Iterations

\* Publish adds one key and leaves the others.
LEMMA PublishGrows ==
  ASSUME NEW k, NEW content, Publish(k, content)
  PROVE  /\ Grows
         /\ DOMAIN registry' = DOMAIN registry \cup {k}
         /\ registry'[k] = content
  BY DEF Publish, Grows

\* No step of the registry changes or removes a registered document.
LEMMA NextGrows == ASSUME [Next]_vars PROVE Grows
<1>1. ASSUME NEW k, NEW content, Repeat(k, content) PROVE Grows
  BY <1>1 DEF Repeat, Grows
<1>2. ASSUME NEW d, Register(d) PROVE Grows
  BY <1>1, <1>2, PublishGrows DEF Register
<1>3. ASSUME NEW t, NEW e, NEW x, LinkEvidence(t, e, x) PROVE Grows
  BY <1>1, <1>3, PublishGrows DEF LinkEvidence
<1>4. ASSUME NEW t, CardComesOrGoes(t) PROVE Grows
  BY <1>4 DEF CardComesOrGoes, Grows
<1>5. CASE UNCHANGED vars
  BY <1>5 DEF vars, Grows
<1> QED BY <1>2, <1>3, <1>4, <1>5 DEF Next

\* What was told stays told of the same content: nobody who was told that a
\* document or a receipt is registered finds other content under its key.
THEOREM ToldHoldsAlways == Spec => []ToldHolds
<1>1. Init => ToldHolds
  BY DEF Init, ToldHolds
<1>2. ToldHolds /\ [Next]_vars => ToldHolds'
  <2> SUFFICES ASSUME ToldHolds, [Next]_vars PROVE ToldHolds'
    OBVIOUS
  <2>1. Grows
    BY NextGrows
  <2>2. \A w \in told : w[1] \in DOMAIN registry' /\ registry'[w[1]] = w[2]
    BY <2>1 DEF ToldHolds, Grows
  <2>3. ASSUME NEW k, NEW content, Publish(k, content) PROVE ToldHolds'
    <3>1. told' \subseteq told \cup {<<k, content>>}
      BY <2>3 DEF Publish
    <3>2. k \in DOMAIN registry' /\ registry'[k] = content
      BY <2>3, PublishGrows
    <3> QED BY <2>2, <3>1, <3>2 DEF ToldHolds
  <2>4. ASSUME NEW k, NEW content, Repeat(k, content) PROVE ToldHolds'
    BY <2>2, <2>4 DEF Repeat, ToldHolds
  <2>5. ASSUME NEW d, Register(d) PROVE ToldHolds'
    BY <2>3, <2>4, <2>5 DEF Register
  <2>6. ASSUME NEW t, NEW e, NEW x, LinkEvidence(t, e, x) PROVE ToldHolds'
    BY <2>3, <2>4, <2>6 DEF LinkEvidence
  <2>7. CASE told' = told
    BY <2>2, <2>7 DEF ToldHolds
  <2> QED BY <2>5, <2>6, <2>7 DEF Next, CardComesOrGoes, vars
<1> QED BY <1>1, <1>2, PTL DEF Spec

\* A document is published only when its references stand.
LEMMA PublishedStands ==
  ASSUME NEW d \in Documents, ReferencesHold(d) PROVE Stands(d)
<1>1. CASE d \in Intents
  BY <1>1, IntentsAssumption DEF Stands
<1>2. CASE d \in Batches
  <2>1. d.kind = "batch"
    BY <1>2 DEF Batches
  <2> QED BY <2>1 DEF Stands, ReferencesHold, BatchReferences
<1>3. CASE d \in Iterations
  <2>1. d.kind = "iteration"
    BY <1>3 DEF Iterations
  <2> QED BY <2>1 DEF Stands, ReferencesHold, IterationReferences
<1> QED BY <1>1, <1>2, <1>3 DEF Documents

\* Every reference of every registered document resolves to the registered
\* document it means, always.
THEOREM ReferencesStandAlways == Spec => []ReferencesStand
<1>1. Init => ReferencesStand
  BY DEF Init, ReferencesStand
<1>2. ReferencesStand /\ [Next]_vars => ReferencesStand'
  <2> SUFFICES ASSUME ReferencesStand, [Next]_vars PROVE ReferencesStand'
    OBVIOUS
  <2>1. Grows
    BY NextGrows
  <2>2. \A k \in DOMAIN registry : k[1] # "evidence" => Stands(registry[k])
    BY DEF ReferencesStand
  <2>3. \A kind, id, revision :
          <<kind, id, revision>> \in DOMAIN registry =>
            /\ <<kind, id, revision>> \in DOMAIN registry'
            /\ registry'[<<kind, id, revision>>] = registry[<<kind, id, revision>>]
    BY <2>1 DEF Grows
  <2>4. CASE DOMAIN registry' = DOMAIN registry
    BY <2>1, <2>2, <2>3, <2>4 DEF ReferencesStand, Stands, Resolves, Grows
  <2>5. ASSUME NEW d \in Documents, ReferencesHold(d), Publish(Key(d), d)
        PROVE  ReferencesStand'
    <3>1. DOMAIN registry' = DOMAIN registry \cup {Key(d)} /\ registry'[Key(d)] = d
      BY <2>5, PublishGrows
    <3>2. Stands(d)
      BY <2>5, PublishedStands
    <3> QED BY <2>1, <2>2, <2>3, <3>1, <3>2 DEF ReferencesStand, Stands, Resolves, Grows
  <2>6. ASSUME NEW k, NEW content, Publish(k, content), k[1] = "evidence"
        PROVE  ReferencesStand'
    <3>1. DOMAIN registry' = DOMAIN registry \cup {k}
      BY <2>6, PublishGrows
    <3> QED BY <2>1, <2>2, <2>3, <2>6, <3>1 DEF ReferencesStand, Stands, Resolves, Grows
  <2>7. ASSUME NEW d \in Documents, Register(d) PROVE ReferencesStand'
    BY <2>4, <2>5, <2>7 DEF Register, Repeat
  <2>8. ASSUME NEW t, NEW e, NEW x, LinkEvidence(t, e, x) PROVE ReferencesStand'
    BY <2>4, <2>6, <2>8 DEF LinkEvidence, Repeat
  <2> QED BY <2>4, <2>7, <2>8 DEF Next, Documents, CardComesOrGoes, vars
<1> QED BY <1>1, <1>2, PTL DEF Spec

\* A lineage of d, and what its counters say of one.
Chain(d, f) ==
  f = [n \in 0..(d.ordinal - 1) |-> IF n = 0 THEN d ELSE f[n - 1].previous.digest]

Since(f) == {n \in DOMAIN f : \A m \in 0..n : ~f[m].progress}
Observed(f) == {n \in Since(f) : f[n].decision # "idle"}

Counted(d, f) ==
  /\ f[d.ordinal - 1].previous = None
  /\ IsFiniteSet(Observed(f)) /\ d.noProgress = Cardinality(Observed(f))
  /\ \A n \in DOMAIN f \ {0} : f[n].decision # "stopped" /\ f[n].intent = d.intent

\* Whatever is a lineage of d is counted right by d, and there is one.
Counting(d) ==
  /\ d.ordinal \in Nat \ {0} /\ d.noProgress \in Nat /\ d.progress \in BOOLEAN
  /\ \E f : Chain(d, f)
  /\ \A f : Chain(d, f) => Counted(d, f)

LEMMA FirstCounts ==
  ASSUME NEW d, ValidIteration(d), d.previous = None, d.progress \in BOOLEAN
  PROVE  Counting(d)
<1>1. d.ordinal = 1 /\ d.noProgress = IF d.progress \/ d.decision = "idle" THEN 0 ELSE 1
  BY DEF ValidIteration
<1>2. 0..(d.ordinal - 1) = {0}
  BY <1>1
<1>3. Chain(d, [n \in {0} |-> d])
  BY <1>2 DEF Chain
<1>4. ASSUME NEW f, Chain(d, f) PROVE Counted(d, f)
  <2>1. DOMAIN f = {0} /\ f[0] = d
    BY <1>2, <1>4 DEF Chain
  <2>2. Observed(f) = IF d.progress \/ d.decision = "idle" THEN {} ELSE {0}
    <3>1. 0..0 = {0}
      OBVIOUS
    <3> QED BY <2>1, <3>1 DEF Observed, Since
  <2>3. IsFiniteSet(Observed(f)) /\ d.noProgress = Cardinality(Observed(f))
    <3>1. CASE d.progress \/ d.decision = "idle"
      BY <1>1, <2>2, <3>1, FS_EmptySet
    <3>2. CASE ~(d.progress \/ d.decision = "idle")
      <4>1. IsFiniteSet({0}) /\ Cardinality({0}) = 1
        BY FS_Singleton
      <4> QED BY <1>1, <2>2, <3>2, <4>1
    <3> QED BY <3>1, <3>2
  <2> QED BY <1>1, <2>1, <2>3 DEF Counted
<1> QED BY <1>1, <1>3, <1>4 DEF Counting

\* A lineage of d is one of its predecessor with d before it.
LEMMA Shift ==
  ASSUME NEW d, NEW p, p = d.previous.digest, p.ordinal \in Nat \ {0},
         d.ordinal = p.ordinal + 1
  PROVE  /\ \A g : Chain(p, g) =>
              Chain(d, [n \in 0..(d.ordinal - 1) |-> IF n = 0 THEN d ELSE g[n - 1]])
         /\ \A f : Chain(d, f) =>
              /\ DOMAIN f = 0..p.ordinal /\ f[0] = d
              /\ Chain(p, [n \in 0..(p.ordinal - 1) |-> f[n + 1]])
<1>1. ASSUME NEW g, Chain(p, g)
      PROVE  Chain(d, [n \in 0..(d.ordinal - 1) |-> IF n = 0 THEN d ELSE g[n - 1]])
  <2> DEFINE h == [n \in 0..(d.ordinal - 1) |-> IF n = 0 THEN d ELSE g[n - 1]]
  <2>1. g[0] = p /\ \A n \in 1..(p.ordinal - 1) : g[n] = g[n - 1].previous.digest
    <3>1. \A n \in 0..(p.ordinal - 1) : g[n] = IF n = 0 THEN p ELSE g[n - 1].previous.digest
      BY <1>1 DEF Chain
    <3>2. 0 \in 0..(p.ordinal - 1)
          /\ \A n \in 1..(p.ordinal - 1) : n \in 0..(p.ordinal - 1) /\ n # 0
      OBVIOUS
    <3> QED BY <3>1, <3>2
  <2>2. h[0] = d /\ \A n \in 1..(d.ordinal - 1) : h[n] = g[n - 1]
    OBVIOUS
  <2>3. ASSUME NEW n \in 1..(d.ordinal - 1) PROVE h[n] = h[n - 1].previous.digest
    <3>1. CASE n = 1
      BY <2>1, <2>2, <3>1
    <3>2. CASE n # 1
      <4>1. n - 1 \in 1..(p.ordinal - 1) /\ n - 1 \in 1..(d.ordinal - 1) /\ (n - 1) - 1 = n - 2
        BY <3>2
      <4>2. h[n] = g[n - 1] /\ h[n - 1] = g[(n - 1) - 1]
        BY <2>2, <4>1
      <4>3. g[n - 1] = g[(n - 1) - 1].previous.digest
        BY <2>1, <4>1
      <4> QED BY <4>2, <4>3
    <3> QED BY <3>1, <3>2
  <2>4. h = [n \in 0..(d.ordinal - 1) |-> IF n = 0 THEN d ELSE h[n - 1].previous.digest]
    <3>1. \A n \in 0..(d.ordinal - 1) : n = 0 \/ n \in 1..(d.ordinal - 1)
      OBVIOUS
    <3>2. \A n \in 0..(d.ordinal - 1) : h[n] = IF n = 0 THEN d ELSE h[n - 1].previous.digest
      BY <2>2, <2>3, <3>1
    <3> HIDE DEF h
    <3>3. h = [n \in 0..(d.ordinal - 1) |-> h[n]]
      BY DEF h
    <3> QED BY <3>2, <3>3
  <2> QED BY <2>4 DEF Chain
<1>2. ASSUME NEW f, Chain(d, f)
      PROVE  /\ DOMAIN f = 0..p.ordinal /\ f[0] = d
             /\ Chain(p, [n \in 0..(p.ordinal - 1) |-> f[n + 1]])
  <2> DEFINE g == [n \in 0..(p.ordinal - 1) |-> f[n + 1]]
  <2>1. DOMAIN f = 0..p.ordinal /\ f[0] = d
    BY <1>2 DEF Chain
  <2>2. \A n \in 1..p.ordinal : f[n] = f[n - 1].previous.digest
    BY <1>2 DEF Chain
  <2>3. ASSUME NEW n \in 0..(p.ordinal - 1)
        PROVE  g[n] = IF n = 0 THEN p ELSE g[n - 1].previous.digest
    <3>1. n + 1 \in 1..p.ordinal /\ (n + 1) - 1 = n
      OBVIOUS
    <3>2. g[n] = f[n].previous.digest
      BY <2>2, <3>1
    <3>3. CASE n = 0
      BY <2>1, <3>2, <3>3
    <3>4. CASE n # 0
      <4>1. g[n - 1] = f[n]
        BY <3>4
      <4> QED BY <3>2, <3>4, <4>1
    <3> QED BY <3>3, <3>4
  <2>4. g = [n \in 0..(p.ordinal - 1) |-> g[n]]
    OBVIOUS
  <2> HIDE DEF g
  <2>5. Chain(p, g)
    BY <2>3, <2>4 DEF Chain
  <2> QED BY <2>1, <2>5 DEF g
<1> QED BY <1>1, <1>2

\* One more observation is counted, or the count starts again.
LEMMA NextCounts ==
  ASSUME NEW d, NEW p, p = d.previous.digest, Counting(p), Follows(d, p),
         d.progress \in BOOLEAN, d.decision = "idle" => ~d.progress
  PROVE  Counting(d)
<1>1. p.ordinal \in Nat \ {0} /\ p.noProgress \in Nat /\ d.ordinal = p.ordinal + 1
  BY DEF Counting, Follows
<1>2. PICK g : Chain(p, g)
  BY DEF Counting
<1>3. \E f : Chain(d, f)
  <2>1. Chain(d, [n \in 0..(d.ordinal - 1) |-> IF n = 0 THEN d ELSE g[n - 1]])
    BY <1>1, <1>2, Shift
  <2> DEFINE h == [n \in 0..(d.ordinal - 1) |-> IF n = 0 THEN d ELSE g[n - 1]]
  <2> HIDE DEF h
  <2>2. Chain(d, h)
    BY <2>1 DEF h
  <2> QED BY <2>2
<1>4. ASSUME NEW f, Chain(d, f) PROVE Counted(d, f) /\ d.noProgress \in Nat
  <2> DEFINE back == [n \in 0..(p.ordinal - 1) |-> f[n + 1]]
  <2>1. DOMAIN f = 0..p.ordinal /\ f[0] = d /\ Chain(p, back)
    BY <1>1, <1>4, Shift
  <2>2. Counted(p, back)
    BY <2>1 DEF Counting
  <2>3. DOMAIN back = 0..(p.ordinal - 1) /\ \A n \in 0..(p.ordinal - 1) : back[n] = f[n + 1]
    OBVIOUS
  <2> HIDE DEF back
  <2>4. back[0] = p
    <3>1. \A n \in 0..(p.ordinal - 1) : back[n] = IF n = 0 THEN p ELSE back[n - 1].previous.digest
      BY <2>1 DEF Chain
    <3>2. 0 \in 0..(p.ordinal - 1)
      BY <1>1
    <3> QED BY <3>1, <3>2
  <2>5. f[d.ordinal - 1].previous = None
    <3>1. back[p.ordinal - 1] = f[d.ordinal - 1]
      BY <1>1, <2>3
    <3> QED BY <2>2, <3>1 DEF Counted
  <2>6. ASSUME NEW n \in DOMAIN f \ {0}
        PROVE  f[n].decision # "stopped" /\ f[n].intent = d.intent
    <3>1. n - 1 \in 0..(p.ordinal - 1) /\ (n - 1) + 1 = n
      BY <1>1, <2>1
    <3>2. f[n] = back[n - 1]
      BY <2>3, <3>1
    <3>3. p.decision # "stopped" /\ p.intent = d.intent
      BY DEF Follows
    <3>4. CASE n - 1 = 0
      BY <2>4, <3>2, <3>3, <3>4
    <3>5. CASE n - 1 # 0
      BY <2>2, <2>3, <3>1, <3>2, <3>3, <3>5 DEF Counted
    <3> QED BY <3>4, <3>5
  <2>7. CASE d.progress
    <3>1. Observed(f) = {}
      <4>1. \A n \in DOMAIN f : 0 \in 0..n
        BY <1>1, <2>1
      <4> QED BY <2>1, <2>7, <4>1 DEF Observed, Since
    <3>2. d.noProgress = 0
      BY <2>7 DEF Follows
    <3> QED BY <2>5, <2>6, <3>1, <3>2, FS_EmptySet DEF Counted
  <2>8. CASE ~d.progress
    <3> DEFINE Later == {n + 1 : n \in Observed(back)}
    <3>1. \A n \in 0..p.ordinal : n \in Since(f) <=> n = 0 \/ n - 1 \in Since(back)
      <4>1. ASSUME NEW n \in 1..p.ordinal PROVE n \in Since(f) <=> n - 1 \in Since(back)
        <5>1. n \in DOMAIN f /\ n - 1 \in DOMAIN back
          BY <1>1, <2>1, <2>3
        <5>2. ASSUME \A m \in 0..n : ~f[m].progress, NEW m \in 0..(n - 1)
              PROVE  ~back[m].progress
          <6>1. m + 1 \in 0..n /\ m \in 0..(p.ordinal - 1)
            BY <1>1
          <6> QED BY <2>3, <5>2, <6>1
        <5>3. ASSUME \A m \in 0..(n - 1) : ~back[m].progress, NEW m \in 0..n
              PROVE  ~f[m].progress
          <6>1. CASE m = 0
            BY <2>1, <2>8, <6>1
          <6>2. CASE m # 0
            <7>1. m - 1 \in 0..(n - 1) /\ m - 1 \in 0..(p.ordinal - 1) /\ (m - 1) + 1 = m
              BY <1>1, <6>2
            <7>2. back[m - 1] = f[m]
              BY <2>3, <7>1
            <7> QED BY <5>3, <7>1, <7>2
          <6> QED BY <6>1, <6>2
        <5> QED BY <5>1, <5>2, <5>3 DEF Since
      <4>2. 0 \in Since(f)
        <5>1. \A m \in 0..0 : m = 0
          OBVIOUS
        <5> QED BY <1>1, <2>1, <2>8, <5>1 DEF Since
      <4>3. \A n \in 0..p.ordinal : n = 0 \/ n \in 1..p.ordinal
        BY <1>1
      <4>4. 0 - 1 \notin Since(back)
        BY <2>3 DEF Since
      <4> QED BY <4>1, <4>2, <4>3, <4>4
    <3>2. Observed(back) \subseteq 0..(p.ordinal - 1) /\ Observed(back) \subseteq Int
      BY <1>1, <2>3 DEF Observed, Since
    <3>3. Observed(f) = IF d.decision = "idle" THEN Later ELSE Later \cup {0}
      <4>1. ASSUME NEW n \in Observed(f) PROVE n \in Later \/ (n = 0 /\ d.decision # "idle")
        <5>1. n \in 0..p.ordinal /\ n \in Since(f) /\ f[n].decision # "idle"
          BY <2>1 DEF Observed, Since
        <5>2. CASE n = 0
          BY <2>1, <5>1, <5>2
        <5>3. CASE n # 0
          <6>1. n - 1 \in Since(back) /\ n - 1 \in 0..(p.ordinal - 1) /\ (n - 1) + 1 = n
            BY <1>1, <3>1, <5>1, <5>3
          <6>2. back[n - 1] = f[n]
            BY <2>3, <6>1
          <6>3. n - 1 \in Observed(back)
            BY <5>1, <6>1, <6>2 DEF Observed
          <6> QED BY <6>1, <6>3
        <5> QED BY <5>2, <5>3
      <4>2. ASSUME NEW n \in Observed(back) PROVE n + 1 \in Observed(f)
        <5>1. n + 1 \in 0..p.ordinal /\ (n + 1) - 1 = n /\ n \in Since(back)
          BY <1>1, <3>2 DEF Observed
        <5>2. n + 1 \in Since(f)
          BY <3>1, <5>1
        <5>3. f[n + 1] = back[n] /\ back[n].decision # "idle"
          BY <2>3, <3>2 DEF Observed
        <5> QED BY <5>2, <5>3 DEF Observed
      <4>3. d.decision # "idle" => 0 \in Observed(f)
        BY <1>1, <2>1, <3>1 DEF Observed
      <4> QED BY <4>1, <4>2, <4>3
    <3>4. IsFiniteSet(Later) /\ Cardinality(Later) = p.noProgress
      <4> DEFINE F == [n \in Observed(back) |-> n + 1]
      <4>1. IsFiniteSet(Observed(back)) /\ Cardinality(Observed(back)) = p.noProgress
        BY <2>2 DEF Counted
      <4>2. F \in Bijection(Observed(back), Later)
        BY <3>2 DEF Bijection, Injection, Surjection, IsInjective
      <4>3. ExistsBijection(Observed(back), Later)
        BY <4>2 DEF ExistsBijection
      <4> HIDE DEF Later
      <4> QED BY <4>1, <4>3, FS_Bijection
    <3>5. 0 \notin Later
      BY <3>2
    <3> HIDE DEF Later
    <3>6. IsFiniteSet(Observed(f)) /\ d.noProgress = Cardinality(Observed(f))
      <4>1. CASE d.decision = "idle"
        BY <2>8, <3>3, <3>4, <4>1 DEF Follows
      <4>2. CASE d.decision # "idle"
        <5>1. IsFiniteSet(Later \cup {0}) /\ Cardinality(Later \cup {0}) = p.noProgress + 1
          BY <1>1, <3>4, <3>5, FS_AddElement
        <5>2. d.noProgress = p.noProgress + 1
          BY <2>8, <4>2 DEF Follows
        <5> QED BY <3>3, <4>2, <5>1, <5>2
      <4> QED BY <4>1, <4>2
    <3> QED BY <1>1, <2>5, <2>6, <3>6, FS_CardinalityType DEF Counted
  <2> QED BY <2>7, <2>8, <2>5, FS_CardinalityType DEF Counted
<1> QED BY <1>1, <1>3, <1>4 DEF Counting

-----------------------------------------------------------------------------
(* The counters of the registered iterations.                              *)

\* CountsTrue speaks of one lineage, Counting of whatever is one.
LEMMA CountingCounts == ASSUME \A d \in Docs("iteration") : Counting(d) PROVE CountsTrue
<1>1. ASSUME NEW d \in Docs("iteration") PROVE Counted(d, Lineage(d))
  <2>1. \E f : Chain(d, f)
    BY DEF Counting
  <2>2. Chain(d, Lineage(d))
    BY <2>1 DEF Lineage, Chain
  <2> QED BY <2>2 DEF Counting
<1>2. ASSUME NEW d \in Docs("iteration")
      PROVE LET back == Lineage(d)
                since == {n \in DOMAIN back : \A m \in 0..n : ~back[m].progress}
            IN /\ back[d.ordinal - 1].previous = None
               /\ d.noProgress = Cardinality({n \in since : back[n].decision # "idle"})
               /\ \A n \in DOMAIN back \ {0} :
                    back[n].decision # "stopped" /\ back[n].intent = d.intent
  BY <1>1 DEF Counted, Observed, Since
<1> QED BY <1>2 DEF CountsTrue

\* A registered iteration is one that was valid and followed what it refers to.
LEMMA RegisteredCounts ==
  ASSUME RegistryParameters, NEW d \in Documents, Valid(d), ReferencesHold(d),
         \A p \in Docs("iteration") : Counting(p), d.kind = "iteration"
  PROVE  Counting(d)
<1>1. d \in Iterations
  BY IntentsAssumption DEF Documents, Batches
<1>2. d.progress \in BOOLEAN /\ ValidIteration(d)
  BY <1>1 DEF Iterations
<1>3. CASE d.previous = None
  BY <1>2, <1>3, FirstCounts
<1>4. CASE d.previous # None
  <2>1. Resolves("iteration", d.previous) /\ Follows(d, d.previous.digest)
    BY <1>4 DEF ReferencesHold, IterationReferences
  <2>2. d.previous.digest \in Docs("iteration")
    BY <2>1 DEF Resolves, Docs
  <2>3. d.decision = "idle" => ~d.progress
    BY <1>2 DEF ValidIteration
  <2> QED BY <1>2, <2>1, <2>2, <2>3, NextCounts
<1> QED BY <1>3, <1>4

RegistryInv == TypeOK /\ \A d \in Docs("iteration") : Counting(d)

\* Each command keeps the counters of what is registered, and registers only
\* an iteration whose own are right.
LEMMA RegistrySteps == RegistryParameters /\ RegistryInv /\ [Next]_vars => RegistryInv'
<1> SUFFICES ASSUME RegistryParameters, RegistryInv, [Next]_vars PROVE RegistryInv'
  OBVIOUS
<1>1. Grows
  BY NextGrows
<1>2. present \subseteq Task
  BY DEF RegistryInv, TypeOK
<1>3. \A k \in DOMAIN registry :
        IF k[1] = "evidence" THEN Fits(registry[k], k[2], k[3]) ELSE Key(registry[k]) = k
  BY DEF RegistryInv, TypeOK
<1>4. ASSUME registry' = registry, present' \subseteq Task PROVE RegistryInv'
  BY <1>3, <1>4 DEF RegistryInv, TypeOK, Docs
<1>5. ASSUME NEW k, NEW content, Publish(k, content), UNCHANGED present,
             IF k[1] = "evidence" THEN Fits(content, k[2], k[3]) ELSE Key(content) = k,
             k[1] = "iteration" => Counting(content)
      PROVE  RegistryInv'
  <2>1. /\ DOMAIN registry' = DOMAIN registry \cup {k} /\ registry'[k] = content
        /\ \A x \in DOMAIN registry : registry'[x] = registry[x]
    BY <1>1, <1>5, PublishGrows DEF Grows
  <2>2. \A x \in DOMAIN registry' :
          IF x[1] = "evidence" THEN Fits(registry'[x], x[2], x[3]) ELSE Key(registry'[x]) = x
    BY <1>3, <1>5, <2>1
  <2>3. TypeOK'
    BY <1>2, <1>5, <2>2 DEF TypeOK
  <2>4. ASSUME NEW d \in Docs("iteration")' PROVE Counting(d)
    <3>1. PICK x \in DOMAIN registry' : x[1] = "iteration" /\ d = registry'[x]
      BY DEF Docs
    <3>2. CASE x = k
      BY <1>5, <2>1, <3>1, <3>2
    <3>3. CASE x # k
      <4>1. d \in Docs("iteration")
        BY <2>1, <3>1, <3>3 DEF Docs
      <4> QED BY <4>1 DEF RegistryInv
    <3> QED BY <3>2, <3>3
  <2> QED BY <2>3, <2>4 DEF RegistryInv
<1>6. ASSUME NEW d \in Documents, Register(d) PROVE RegistryInv'
  <2>1. CASE Repeat(Key(d), d)
    BY <1>2, <1>4, <1>6, <2>1 DEF Register, Repeat
  <2>2. CASE ReferencesHold(d) /\ Publish(Key(d), d)
    <3>1. Key(d)[1] = d.kind
      BY DEF Key
    <3>2. d.kind \in {"intent", "batch", "iteration"}
      BY IntentsAssumption DEF Documents, Batches, Iterations
    <3>3. d.kind = "iteration" => Counting(d)
      BY <1>6, <2>2, RegisteredCounts DEF Register, RegistryInv
    <3>4. UNCHANGED present
      BY <1>6 DEF Register
    <3> QED BY <1>5, <2>2, <3>1, <3>2, <3>3, <3>4
  <2> QED BY <1>6, <2>1, <2>2 DEF Register
<1>7. ASSUME NEW t \in Task, NEW e \in Event, NEW x \in Receipts, LinkEvidence(t, e, x)
      PROVE  RegistryInv'
  <2>1. CASE Repeat(<<"evidence", t, e>>, x)
    BY <1>2, <1>4, <1>7, <2>1 DEF LinkEvidence, Repeat
  <2>2. CASE Publish(<<"evidence", t, e>>, x)
    <3>1. Fits(x, t, e) /\ UNCHANGED present
      BY <1>7 DEF LinkEvidence
    <3> QED BY <1>5, <2>2, <3>1
  <2> QED BY <1>7, <2>1, <2>2 DEF LinkEvidence
<1>8. ASSUME NEW t \in Task, CardComesOrGoes(t) PROVE RegistryInv'
  <2>1. present' \subseteq Task /\ registry' = registry
    BY <1>2, <1>8 DEF CardComesOrGoes
  <2> QED BY <1>4, <2>1
<1>9. CASE UNCHANGED vars
  BY <1>2, <1>4, <1>9 DEF vars
<1> QED BY <1>6, <1>7, <1>8, <1>9 DEF Next, Documents

\* The registry alone: its types, and every registered iteration's ordinal is
\* the length of its lineage and its noProgress the number of observations
\* since the last progress (validatePredecessor), for any documents, tasks and
\* receipts and any width of the counters.
THEOREM CountsTrueAlways == Spec => [](TypeOK /\ CountsTrue)
<1> USE RegistryAssumption
<1>1. Init => RegistryInv
  BY DEF Init, RegistryInv, TypeOK, Docs
<1>2. RegistryInv /\ [Next]_vars => RegistryInv'
  BY RegistrySteps
<1>3. RegistryInv => TypeOK /\ CountsTrue
  BY CountingCounts DEF RegistryInv
<1> QED BY <1>1, <1>2, <1>3, PTL DEF Spec

\* The same as the run checks it, where the card board may be the part at work.
THEOREM CountersTrueAlways == Behaviour => []CountersTrue
<1> USE RegistryAssumption
<1> DEFINE R == which = "registry" => RegistryInv
<1>1. Begins => R
  <2> SUFFICES ASSUME Begins PROVE RegistryInv
    OBVIOUS
  <2> QED BY DEF Begins, Init, RegistryInv, TypeOK, Docs
<1>2. R /\ [Continues]_all => R'
  <2>1. [Continues]_all => which' = which /\ [Next]_vars
    BY DEF Continues, all, vars
  <2> QED BY <2>1, RegistrySteps
<1>3. R => CountersTrue
  BY CountingCounts DEF RegistryInv, CountersTrue
<1> QED BY <1>1, <1>2, <1>3, PTL DEF Behaviour

-----------------------------------------------------------------------------
(* The card board: what holds between any two steps (CardsInv).  A command *)
(* carries a path, a text or a number from one step to a later one with no *)
(* lock on the board; its record says what it saw of the files it will     *)
(* write, and that a number it holds is one the next creation goes beyond. *)

-----------------------------------------------------------------------------
\* The fields of a command's record.
Fields ==
  {"cmd", "at", "src", "dst", "seen", "text", "left", "made", "number", "stage",
   "zones", "files"}

\* A step of a command of that kind.
Stepping(cmd, at) ==
  CASE cmd = "none" -> at = "end"
    [] cmd = "move" -> at \in {"rename", "cell", "word", "links", "end"}
    [] cmd = "archive" -> at \in {"word", "rename", "links", "end"}
    [] cmd = "new" -> at \in {"floor", "walk", "lock", "reserve", "release", "write", "end"}
    [] cmd = "promote" ->
         at \in {"next", "floor", "walk", "lock", "reserve", "release", "write", "stamp",
                 "undo", "end"}
    [] cmd = "reconcile" ->
         at \in {"scan", "again", "claim", "verify", "publish", "restore", "end"}
    [] cmd = "cleanup" ->
         at \in {"protect", "prove", "look", "take", "check", "reclaim", "restore", "end"}
    [] cmd = "maintain" -> at \in {"copy", "stage", "exchange", "swap", "end"}
    [] OTHER -> FALSE

\* The files of a board, or of what was set aside.
Filed(f) == DOMAIN f \subseteq Cards!Path /\ \A q \in DOMAIN f : f[q] \in Cards!Text

\* What a command may set aside.
Taken(a) == Filed(a) /\ DOMAIN a \subseteq {Cards!DoingCard} \cup Cards!Group

\* Nothing is set aside.
Bare(a) == DOMAIN a = {}

\* An exchange has taken a board away.
Exchanged == DOMAIN b_retained # {}

\* A command that holds the mutation lock, is moving a card, or making one.
Holding(r) == r.cmd \in {"reconcile", "cleanup", "maintain"} /\ r.at \notin {"end", "protect"}
Carrying(r) == r.cmd \in {"move", "archive"} /\ r.at # "end"
Creating(r) == r.cmd \in {"new", "promote"} /\ r.at # "end"

\* The command saw that nothing is at the path.
Empty(r, q) == q \in DOMAIN r.seen /\ r.seen[q] = Absent

\* The text in memory is what the command saw at the path.
Read(r, q) == q \in DOMAIN r.seen /\ r.seen[q] = r.text

\* Types of a record and of what its command set aside.
RunTyped(r, a) ==
  /\ DOMAIN r = Fields /\ Stepping(r.cmd, r.at)
  /\ r.src \in Cards!Path /\ r.dst \in Cards!Path
  /\ r.text \in Cards!Text \cup {None}
  /\ r.number \in Int /\ r.made \subseteq {"todo"} \X Cards!Number
  /\ Filed(r.stage) /\ Taken(a)
  /\ r.left \subseteq IF r.cmd = "maintain" THEN Cards!Zone ELSE Cards!Path

\* move and archive.
CarriesFit(r) ==
  Carrying(r) =>
    /\ r.src \in {Cards!DoingCard, Cards!DoneCard} /\ r.dst[2] = r.src[2]
    /\ r.dst[1] \in {"review", "blocked", "doing", "archive"}
    /\ r.at = "rename" => r.text = None
    /\ r.at # "links" => r.left = {}
    /\ r.at = "rename" \/ (r.cmd = "archive" /\ r.at = "word") =>
         r.dst # r.src /\ Empty(r, r.dst)
    /\ r.at \in {"cell", "word"} /\ r.text # None => Read(r, Cards!Stamped(r))
    /\ r.at = "links" /\ r.text # None => \A d \in r.left : Read(r, d)

\* new and promote.
CreatesFit(r) ==
  /\ Creating(r) =>
       /\ r.at \in {"walk", "lock", "reserve"} => r.number \in Nat
       /\ r.at \notin {"stamp", "undo"} => r.text = None
       /\ r.at \in {"release", "stamp"} => r.number \in Cards!Number
       /\ r.at = "write" => r.number \in Cards!Number \cup Cards!ByHand
       /\ \A q \in r.made : q \in DOMAIN r.seen /\ r.seen[q].by = Made
  /\ Creating(r) /\ r.cmd = "promote" =>
       /\ \A q \in r.left : q[1] = "issue"
       /\ r.at \notin {"next", "undo"} => r.src[1] = "issue"
       /\ r.at = "write" => r.number \in Cards!Number
       /\ r.src = Cards!DoingCard \/ r.src[1] = "issue"
       /\ r.at = "stamp" /\ r.text # None => Read(r, r.src)
  /\ Creating(r) /\ r.cmd = "new" => r.src = Cards!DoingCard
  /\ Creating(r) => r.dst = Cards!DoingCard

\* reconcile: what is set aside, what was read, a destination seen empty.
ReconcileFits(r, a) ==
  r.cmd = "reconcile" /\ Holding(r) =>
    /\ r.at \in {"scan", "again", "claim"} => Bare(a)
    /\ r.at \in {"verify", "publish"} => DOMAIN a = {Cards!DoingCard}
    /\ r.at \in {"again", "claim", "verify", "publish"} => r.text \in Cards!Text
    /\ r.src = Cards!DoingCard
    /\ r.dst[2] = DoingTask /\ r.dst[1] \in {"blocked", "review", "doing"}
    /\ r.at = "publish" => Empty(r, r.dst)

\* cleanup: what is set aside is what is not left to do, and as proved.
CleanupFits(r, a) ==
  r.cmd = "cleanup" /\ r.at # "end" =>
    /\ r.src = Cards!DoingCard /\ r.dst = Cards!DoingCard
    /\ r.at \in {"protect", "prove"} => Bare(a)
    /\ r.at \in {"look", "take"} =>
         r.left # {} /\ r.left \subseteq Cards!Group /\ DOMAIN a = Cards!Group \ r.left
    /\ r.at \in {"check", "reclaim"} => DOMAIN a = Cards!Group
    /\ r.at = "reclaim" => \A q \in Cards!Group : a[q] = Cards!Source[q]

\* Putting back: only what is set aside, only where nothing was seen.
RestoreFits(r, a) ==
  /\ r.cmd \notin {"reconcile", "cleanup"} => Bare(a)
  /\ r.cmd \in {"reconcile", "cleanup"} /\ r.at # "restore" => Bare(r.stage)
  /\ Holding(r) /\ r.at = "restore" =>
       /\ r.left \subseteq DOMAIN a
       /\ \A q \in DOMAIN r.stage : q \in DOMAIN a /\ Empty(r, q)

\* A path whose copy is what the command saw there.
Copied(r, q) ==
  /\ q \in DOMAIN r.seen
  /\ IF q \in DOMAIN r.stage THEN r.stage[q] = r.seen[q] ELSE r.seen[q] = Absent

\* maintenance: the stage is the board as it was seen, with the planned change.
MaintainFits(r) ==
  r.cmd = "maintain" /\ Holding(r) =>
    /\ r.src = Cards!DoingCard /\ r.dst = Cards!DoingCard
    /\ r.at = "copy" => \A q \in Cards!Path :
         IF q[1] \in r.left THEN q \notin DOMAIN r.stage ELSE Copied(r, q)
    /\ r.at = "stage" => \A q \in Cards!Path : Copied(r, q)
    /\ r.at \in {"exchange", "swap"} =>
         /\ \A q \in Cards!Path \ {Cards!DoingCard, Cards!Replacement} : Copied(r, q)
         /\ Cards!Replacement \in DOMAIN r.stage
         /\ r.stage[Cards!Replacement] = Cards!Planned
    /\ r.at = "swap" =>
         Cards!DoingCard \in DOMAIN r.seen /\ r.seen[Cards!DoingCard] = Cards!Planned

\* All of a record.
RunFits(r, a) ==
  /\ RunTyped(r, a) /\ CarriesFit(r) /\ CreatesFit(r)
  /\ ReconcileFits(r, a) /\ CleanupFits(r, a) /\ RestoreFits(r, a) /\ MaintainFits(r)

-----------------------------------------------------------------------------
\* A number of the ledger's that the next creation goes beyond.
Known(n) == n \in Nat => n <= b_reservation.highest

\* The numbers a command goes on with are known.
NumbersKnown(r) ==
  /\ Known(r.src[2]) /\ Known(r.dst[2])
  /\ r.cmd # "maintain" => \A q \in r.left : Known(q[2])
  /\ \A q \in DOMAIN r.stage : Known(q[2])
  /\ Creating(r) /\ r.at \in {"release", "write", "stamp"} => Known(r.number)

\* Where a card lies.
Lying(c) == {q \in DOMAIN b_board : q[2] = c}

\* What a process's step may rest on beside its own record.
RunHolds(p, r) ==
  /\ Holding(r) <=> b_lock = p
  /\ Creating(r) /\ r.at \in {"reserve", "release"} => b_reservation.holder = p
  /\ r.cmd = "cleanup" /\ Holding(r) => ~Cards!Blocked
  /\ NumbersKnown(r)
  /\ Carrying(r) /\ r.at = "links" /\ Cards!Replacement \in r.left => Exchanged
  /\ r.cmd = "maintain" /\ Holding(r) => ~Exchanged
  /\ r.cmd = "maintain" /\ r.at = "swap" => Lying(DoingTask) # {}

\* The board and the ledgers.
BoardFits ==
  /\ Filed(b_board) /\ \A q \in DOMAIN b_board : Known(q[2])
  /\ Cards!Replacement \in DOMAIN b_board => Exchanged
  /\ b_lock \in Proc \cup {None}
  /\ b_reservation \in [holder : Proc \cup {None}, highest : 0..MaxNumber]
  /\ b_evidence \in [{DoingTask, DoneTask} -> Cards!Evidence]
  /\ b_acts \in 0..MaxActs
  /\ DOMAIN b_run = Proc /\ DOMAIN b_aside = Proc

\* The inductive invariant.
CardsInv ==
  /\ BoardFits
  /\ \A p \in Proc : RunFits(b_run[p], b_aside[p]) /\ RunHolds(p, b_run[p])

-----------------------------------------------------------------------------
(* Lemmas about paths, texts and files, and how one command's step leaves  *)
(* the others' records true.                                               *)

\* The paths the commands name.
LEMMA Places ==
  ASSUME CardsParameters
  PROVE  /\ {Cards!DoingCard, Cards!DoneCard, Cards!Owned, Cards!Replacement} \subseteq Cards!Path
         /\ Cards!Group = {Cards!DoneCard, Cards!Owned}
         /\ Cards!DoingCard = <<"doing", DoingTask>> /\ Cards!DoneCard = <<"done", DoneTask>>
         /\ Cards!Owned = <<"receipts", Receipt>> /\ Cards!Replacement = <<"todo", DoingTask>>
         /\ DoingTask \notin Int /\ DoneTask \notin Int /\ DoingTask # DoneTask
         /\ Receipt \notin Int
         /\ Cards!Nothing = [q \in {} |-> Absent]
<1>1. {DoingTask, DoneTask, Receipt} \subseteq Cards!Card
  BY DEF CardsParameters, Cards!Card
<1>2. {"doing", "done", "receipts", "todo"} \subseteq Cards!Zone
  BY DEF Cards!Zone
<1>3. {Cards!DoingCard, Cards!DoneCard, Cards!Owned, Cards!Replacement} \subseteq Cards!Path
  BY <1>1, <1>2 DEF Cards!Path, Cards!DoingCard, Cards!DoneCard, Cards!Owned, Cards!Replacement
<1> QED BY <1>3 DEF Cards!Group, Cards!DoingCard, Cards!DoneCard, Cards!Owned,
           Cards!Replacement, CardsParameters, Cards!Nothing

\* The texts the board starts with.
LEMMA Texts ==
  ASSUME CardsParameters
  PROVE  /\ Cards!First \in Cards!Text /\ Cards!NewCard \in Cards!Text
         /\ Cards!NewCard.by = Made
         /\ Filed(Cards!Start) /\ Cards!Planned \in Cards!Text /\ Cards!Planned.by = 0
         /\ \A q \in DOMAIN Cards!Start : Cards!Start[q].by = 0
         /\ DOMAIN Cards!Start = {Cards!DoingCard} \cup Cards!Group
                                  \cup {<<"issue", i>> : i \in Issue}
         /\ DOMAIN Cards!Source = Cards!Group
         /\ \A q \in Cards!Group : Cards!Source[q] \in Cards!Text /\ Cards!Source[q].by = 0
<1> DEFINE paths == {Cards!DoingCard} \cup Cards!Group \cup {<<"issue", i>> : i \in Issue}
<1>1. 0 \in Cards!By /\ Made \in Cards!By
  BY DEF Cards!By, CardsParameters
<1>2. Cards!DoingCard \in Cards!Path
  BY Places
<1>3. /\ Cards!First \in Cards!Text /\ Cards!First.by = 0
      /\ Cards!NewCard \in Cards!Text /\ Cards!NewCard.by = Made
  BY <1>1 DEF Cards!First, Cards!NewCard, Cards!Text, Cards!Zone
<1>4. paths \subseteq Cards!Path
  <2>1. \A i \in Issue : <<"issue", i>> \in Cards!Path
    BY DEF Cards!Path, Cards!Zone, Cards!Card
  <2> QED BY <2>1, Places
<1>5. ASSUME NEW q \in paths
      PROVE  LET t == IF q[1] = "issue" THEN [Cards!First EXCEPT !.link = Cards!DoingCard]
                      ELSE [Cards!First EXCEPT !.cell = IF q[1] = "receipts" THEN "todo" ELSE q[1],
                                               !.word = IF q[1] = "receipts" THEN "todo" ELSE q[1]]
             IN t \in Cards!Text /\ t.by = 0
  <2>1. [Cards!First EXCEPT !.link = Cards!DoingCard] \in Cards!Text
        /\ [Cards!First EXCEPT !.link = Cards!DoingCard].by = 0
    BY <1>2, <1>3 DEF Cards!Text
  <2>2. ASSUME NEW z \in Cards!Zone
        PROVE  [Cards!First EXCEPT !.cell = z, !.word = z] \in Cards!Text
               /\ [Cards!First EXCEPT !.cell = z, !.word = z].by = 0
    BY <1>3 DEF Cards!Text
  <2>3. q[1] \in Cards!Zone /\ "todo" \in Cards!Zone
    BY <1>4 DEF Cards!Path, Cards!Zone
  <2>4. CASE q[1] = "issue"
    BY <2>1, <2>4
  <2>5. CASE q[1] # "issue"
    <3>1. PICK z : z = IF q[1] = "receipts" THEN "todo" ELSE q[1]
      OBVIOUS
    <3>2. z \in Cards!Zone
      BY <2>3, <3>1
    <3> QED BY <2>2, <2>5, <3>1, <3>2
  <2> QED BY <2>4, <2>5
<1>6. DOMAIN Cards!Start = paths
  BY DEF Cards!Start
<1>7. \A q \in paths : Cards!Start[q] \in Cards!Text /\ Cards!Start[q].by = 0
  BY <1>5 DEF Cards!Start
<1>8. Filed(Cards!Start)
  BY <1>4, <1>6, <1>7 DEF Filed
<1>9. Cards!Planned \in Cards!Text /\ Cards!Planned.by = 0
  BY <1>7 DEF Cards!Planned
<1>10. DOMAIN Cards!Source = Cards!Group
       /\ \A q \in Cards!Group : Cards!Source[q] \in Cards!Text /\ Cards!Source[q].by = 0
  BY <1>7 DEF Cards!Source
<1> QED BY <1>3, <1>6, <1>7, <1>8, <1>9, <1>10

\* A file written.
LEMMA PutFiles ==
  ASSUME NEW f, Filed(f), NEW q \in Cards!Path, NEW t \in Cards!Text
  PROVE  /\ Filed(Cards!Put(f, q, t)) /\ DOMAIN Cards!Put(f, q, t) = DOMAIN f \cup {q}
         /\ \A x \in DOMAIN f \cup {q} : Cards!Put(f, q, t)[x] = IF x = q THEN t ELSE f[x]
  BY DEF Cards!Put, Filed

\* A file removed.
LEMMA WithoutFile ==
  ASSUME NEW f, Filed(f), NEW q
  PROVE  /\ Filed(Cards!Without(f, q)) /\ DOMAIN Cards!Without(f, q) = DOMAIN f \ {q}
         /\ \A x \in DOMAIN f \ {q} : Cards!Without(f, q)[x] = f[x]
  BY DEF Cards!Without, Filed

\* No files.
LEMMA NoFiles ==
  ASSUME CardsParameters PROVE Filed(Cards!Nothing) /\ DOMAIN Cards!Nothing = {}
  BY DEF Cards!Nothing, Filed

\* What the others' steps leave to a process.
Apart(p) ==
  /\ b_lock' = b_lock \/ (b_lock = p /\ b_lock' = None) \/ (b_lock = None /\ b_lock' = p)
  /\ b_reservation'.holder = b_reservation.holder \/ b_reservation.holder \in {None, p}
  /\ b_reservation.highest <= b_reservation'.highest
  /\ b_evidence' = b_evidence
  /\ b_retained' = b_retained \/ (b_lock = p /\ Exchanged')
  /\ Lying(DoingTask) # {} /\ b_lock # p => Lying(DoingTask)' # {}

\* The step sets files aside for p, or takes them from there.
SetAside(p, a2) ==
  /\ DOMAIN b_aside' = DOMAIN b_aside /\ b_aside'[p] = a2
  /\ \A o \in DOMAIN b_aside \ {p} : b_aside'[o] = b_aside[o]

\* A step of one command: its new record fits, and the others' still do.
LEMMA Advances ==
  ASSUME CardsParameters, CardsInv, NEW p \in Proc, NEW r2, NEW a2, Apart(p),
         b_run' = [b_run EXCEPT ![p] = r2], SetAside(p, a2),
         RunFits(r2, a2), RunHolds(p, r2)', BoardFits'
  PROVE  CardsInv'
<1>1. DOMAIN b_run = Proc /\ DOMAIN b_aside = Proc /\ None \notin Proc
  BY DEF CardsInv, BoardFits, CardsParameters
<1>2. b_reservation.highest \in Nat /\ b_reservation'.highest \in Nat
  BY DEF CardsInv, BoardFits, CardsParameters
<1>3. ASSUME NEW n, Known(n) PROVE Known(n)'
  BY <1>2, <1>3 DEF Known, Apart, CardsParameters
<1>4. ASSUME NEW o \in Proc, o # p PROVE RunFits(b_run'[o], b_aside'[o]) /\ RunHolds(o, b_run[o])'
  <2>1. b_run'[o] = b_run[o] /\ b_aside'[o] = b_aside[o]
    BY <1>1, <1>4 DEF SetAside
  <2>2. RunFits(b_run[o], b_aside[o]) /\ RunHolds(o, b_run[o])
    BY DEF CardsInv
  <2>3. PICK r : r = b_run[o]
    OBVIOUS
  <2>4. NumbersKnown(r)'
    <3>1. NumbersKnown(r)
      BY <2>2, <2>3 DEF RunHolds
    <3> QED BY <1>3, <3>1 DEF NumbersKnown
  <2>5. Holding(r) <=> b_lock' = o
    BY <1>1, <1>4, <2>2, <2>3 DEF RunHolds, Apart
  <2>6. Creating(r) /\ r.at \in {"reserve", "release"} => b_reservation'.holder = o
    BY <1>1, <1>4, <2>2, <2>3 DEF RunHolds, Apart
  <2>7. r.cmd = "cleanup" /\ Holding(r) => ~Cards!Blocked'
    BY <2>2, <2>3 DEF RunHolds, Apart, Cards!Blocked
  <2>8. Carrying(r) /\ r.at = "links" /\ Cards!Replacement \in r.left => Exchanged'
    BY <2>2, <2>3 DEF RunHolds, Apart, Exchanged
  <2>9. r.cmd = "maintain" /\ Holding(r) => ~Exchanged'
    BY <1>4, <2>2, <2>3 DEF RunHolds, Apart, Exchanged
  <2>10. r.cmd = "maintain" /\ r.at = "swap" => Lying(DoingTask)' # {}
    BY <1>4, <2>2, <2>3 DEF RunHolds, Apart, Holding
  <2>11. RunHolds(o, r)'
    BY <2>4, <2>5, <2>6, <2>7, <2>8, <2>9, <2>10 DEF RunHolds
  <2>12. r = b_run'[o]
    BY <2>1, <2>3
  <2> QED BY <2>1, <2>2, <2>11, <2>12
<1>5. b_run'[p] = r2 /\ b_aside'[p] = a2
  BY <1>1 DEF SetAside
<1>6. RunHolds(p, b_run[p])'
  BY <1>5
<1> QED BY <1>4, <1>5, <1>6 DEF CardsInv

\* What a command saw after it looked at one more path.
SeenToo(s, seen, q, x) ==
  /\ DOMAIN s = DOMAIN seen \cup {q} /\ s[q] = x
  /\ \A y \in DOMAIN seen \ {q} : s[y] = seen[y]

\* A look adds to what the command saw.
LEMMA Looks ==
  ASSUME NEW p, NEW q
  PROVE  SeenToo(Cards!SeesToo(p, Cards!Looked(q)), b_run[p].seen, q, Cards!At(b_board, q))
  BY DEF Cards!SeesToo, Cards!Looked, SeenToo

Done(c) == [Cards!Idle EXCEPT !.cmd = c]

\* The record of a command that has ended.
LEMMA DoneIs ==
  ASSUME NEW c
  PROVE  /\ DOMAIN Done(c) = Fields /\ Done(c).cmd = c /\ Done(c).at = "end"
         /\ Done(c).src = Cards!DoingCard /\ Done(c).dst = Cards!DoingCard
         /\ Done(c).seen = Cards!Nothing /\ Done(c).text = None /\ Done(c).left = {}
         /\ Done(c).made = {} /\ Done(c).number = 0 /\ Done(c).stage = Cards!Nothing
  BY DEF Done, Cards!Idle, Fields

\* It asks for nothing.
LEMMA DoneFits ==
  ASSUME CardsParameters, NEW c, NEW a, Stepping(c, "end"), Taken(a),
         c \notin {"reconcile", "cleanup"} => Bare(a)
  PROVE  /\ RunFits(Done(c), a) /\ NumbersKnown(Done(c))' /\ ~Holding(Done(c))
         /\ ~Creating(Done(c)) /\ ~Carrying(Done(c))
<1> PICK e : e = Done(c)
  OBVIOUS
<1>1. /\ DOMAIN e = Fields /\ e.cmd = c /\ e.at = "end"
      /\ e.src = Cards!DoingCard /\ e.dst = Cards!DoingCard
      /\ e.seen = Cards!Nothing /\ e.text = None /\ e.left = {}
      /\ e.made = {} /\ e.number = 0 /\ e.stage = Cards!Nothing
  BY DoneIs
<1>2. DoingTask \notin Nat /\ Cards!DoingCard[2] = DoingTask /\ Cards!DoingCard \in Cards!Path
  BY Places
<1>3. Filed(Cards!Nothing) /\ DOMAIN Cards!Nothing = {}
  BY NoFiles DEF CardsParameters
<1>5. RunTyped(e, a)
  BY <1>1, <1>2, <1>3 DEF RunTyped
<1>6. ~Holding(e) /\ ~Creating(e) /\ ~Carrying(e)
  BY <1>1 DEF Holding, Creating, Carrying
<1>7. RunFits(e, a)
  BY <1>1, <1>3, <1>5, <1>6 DEF RunFits, RestoreFits, CarriesFit, CreatesFit, ReconcileFits,
     CleanupFits, MaintainFits, Bare
<1>8. NumbersKnown(e)'
  BY <1>1, <1>2, <1>3, <1>6 DEF NumbersKnown, Known
<1> QED BY <1>6, <1>7, <1>8

\* How a step may change the board itself.
BoardKept == b_board' = b_board
OnePut ==
  \E q \in Cards!Path, t \in Cards!Text :
    /\ Known(q[2])' /\ (q = Cards!Replacement => Exchanged)
    /\ b_board' = Cards!Put(b_board, q, t)
OneGone(p) ==
  \E q : (q[2] = DoingTask => b_lock = p) /\ b_board' = Cards!Without(b_board, q)
Moves ==
  \E q, x : /\ q \in DOMAIN b_board /\ x \in Cards!Path /\ x[2] = q[2] /\ x # Cards!Replacement
            /\ b_board' = Cards!Put(Cards!Without(b_board, q), x, b_board[q])

Numbered ==
  /\ b_reservation' \in [holder : Proc \cup {None}, highest : 0..MaxNumber]
  /\ b_reservation.highest <= b_reservation'.highest

\* A step that writes, removes or moves one file keeps the board in shape.
LEMMA BoardSteps ==
  ASSUME CardsParameters, BoardFits, NEW p \in Proc, NEW r2, NEW a2, Numbered,
         BoardKept \/ OnePut \/ OneGone(p) \/ Moves,
         b_run' = [b_run EXCEPT ![p] = r2], SetAside(p, a2),
         b_lock' \in Proc \cup {None}, b_evidence' = b_evidence, b_retained' = b_retained,
         b_acts' \in 0..MaxActs
  PROVE  BoardFits' /\ (Lying(DoingTask) # {} /\ b_lock # p => Lying(DoingTask)' # {})
<1>1. \A n : Known(n) => Known(n)'
  BY DEF Known, Numbered, BoardFits, CardsParameters
<1>2. ASSUME Filed(b_board'), \A q \in DOMAIN b_board' : Known(q[2])',
             Cards!Replacement \in DOMAIN b_board' => Exchanged
      PROVE  BoardFits'
  BY <1>2 DEF BoardFits, Numbered, SetAside, Exchanged
<1>3. /\ Filed(b_board) /\ \A q \in DOMAIN b_board : Known(q[2])'
      /\ Cards!Replacement \in DOMAIN b_board => Exchanged
  BY <1>1 DEF BoardFits
<1>4. CASE BoardKept
  BY <1>2, <1>3, <1>4 DEF BoardKept, Lying
<1>5. CASE OnePut
  <2>1. PICK q \in Cards!Path, t \in Cards!Text :
          /\ Known(q[2])' /\ (q = Cards!Replacement => Exchanged)
          /\ b_board' = Cards!Put(b_board, q, t)
    BY <1>5 DEF OnePut
  <2>2. Filed(b_board') /\ DOMAIN b_board' = DOMAIN b_board \cup {q}
    BY <1>3, <2>1, PutFiles
  <2> QED BY <1>2, <1>3, <2>1, <2>2 DEF Lying
<1>6. CASE OneGone(p)
  <2>1. PICK q : (q[2] = DoingTask => b_lock = p) /\ b_board' = Cards!Without(b_board, q)
    BY <1>6 DEF OneGone
  <2>2. Filed(b_board') /\ DOMAIN b_board' = DOMAIN b_board \ {q}
    BY <1>3, <2>1, WithoutFile
  <2> QED BY <1>2, <1>3, <2>1, <2>2 DEF Lying
<1>7. CASE Moves
  <2>1. PICK q, x : /\ q \in DOMAIN b_board /\ x \in Cards!Path /\ x[2] = q[2]
                    /\ x # Cards!Replacement
                    /\ b_board' = Cards!Put(Cards!Without(b_board, q), x, b_board[q])
    BY <1>7 DEF Moves
  <2>2. PICK f : f = Cards!Without(b_board, q)
    OBVIOUS
  <2>3. Filed(f) /\ DOMAIN f = DOMAIN b_board \ {q}
    BY <1>3, <2>2, WithoutFile
  <2>4. PICK t \in Cards!Text : t = b_board[q]
    BY <1>3, <2>1 DEF Filed
  <2>5. b_board' = Cards!Put(f, x, t)
    BY <2>1, <2>2, <2>4
  <2>6. Filed(b_board') /\ DOMAIN b_board' = (DOMAIN b_board \ {q}) \cup {x}
    <3>1. x \in Cards!Path
      BY <2>1
    <3>2. Filed(Cards!Put(f, x, t)) /\ DOMAIN Cards!Put(f, x, t) = DOMAIN f \cup {x}
      BY <2>3, <3>1, PutFiles
    <3> QED BY <2>3, <2>5, <3>2
  <2>7. BoardFits'
    BY <1>2, <1>3, <2>1, <2>6
  <2>8. Lying(DoingTask) # {} => Lying(DoingTask)' # {}
    BY <2>1, <2>6 DEF Lying
  <2> QED BY <2>7, <2>8
<1> QED BY <1>4, <1>5, <1>6, <1>7

\* A step of a verb: it takes no lock and sets nothing aside.
LEMMA VerbAdvances ==
  ASSUME CardsParameters, CardsInv, NEW p \in Proc, NEW r, r = b_run[p], ~Holding(r), NEW r2,
         b_run' = [b_run EXCEPT ![p] = r2],
         UNCHANGED <<b_aside, b_lock, b_evidence, b_retained>>, b_acts' \in 0..MaxActs,
         Numbered,
         b_reservation'.holder = b_reservation.holder \/ b_reservation.holder \in {None, p},
         BoardKept \/ OnePut \/ OneGone(p) \/ Moves,
         RunFits(r2, b_aside[p]), ~Holding(r2), NumbersKnown(r2)',
         Creating(r2) /\ r2.at \in {"reserve", "release"} => b_reservation'.holder = p,
         Carrying(r2) /\ r2.at = "links" /\ Cards!Replacement \in r2.left =>
           Exchanged
  PROVE  CardsInv'
<1>1. RunFits(r, b_aside[p]) /\ RunHolds(p, r) /\ BoardFits
  BY DEF CardsInv
<1>2. b_lock # p
  BY <1>1 DEF RunHolds
<1>3. SetAside(p, b_aside[p])
  BY <1>1 DEF SetAside
<1>4. b_lock' \in Proc \cup {None}
  BY <1>1 DEF BoardFits
<1>5. BoardFits' /\ (Lying(DoingTask) # {} /\ b_lock # p => Lying(DoingTask)' # {})
  BY <1>1, <1>3, <1>4, BoardSteps
<1>6. Apart(p)
  BY <1>5 DEF Apart, Numbered
<1>7. RunHolds(p, r2)'
  BY <1>2 DEF RunHolds, Holding, Exchanged
<1> QED BY <1>3, <1>5, <1>6, <1>7, Advances

-----------------------------------------------------------------------------
(* Move and archive.                                                       *)

\* A step of a verb that reserves nothing.
LEMMA VerbGoes ==
  ASSUME CardsParameters, CardsInv, NEW p \in Proc, NEW r, r = b_run[p], ~Holding(r), NEW r2,
         b_run' = [b_run EXCEPT ![p] = r2], Cards!Steps, UNCHANGED b_reservation,
         BoardKept \/ OnePut \/ OneGone(p) \/ Moves,
         RunFits(r2, b_aside[p]), ~Holding(r2), NumbersKnown(r2)',
         ~(Creating(r2) /\ r2.at \in {"reserve", "release"}),
         Carrying(r2) /\ r2.at = "links" /\ Cards!Replacement \in r2.left =>
           Exchanged
  PROVE  CardsInv'
<1>1. UNCHANGED <<b_aside, b_lock, b_evidence, b_retained>> /\ b_acts' \in 0..MaxActs /\ Numbered
  BY DEF Cards!Steps, CardsInv, BoardFits, Numbered, CardsParameters
<1> QED BY <1>1, VerbAdvances

\* A verb ends.
LEMMA VerbEnds ==
  ASSUME CardsParameters, CardsInv, NEW p \in Proc, NEW c \in {"move", "archive", "new", "promote"},
         b_run[p].cmd \in {c, "none"},
         b_run' = [b_run EXCEPT ![p] = Done(c)], Cards!Steps, UNCHANGED b_reservation,
         BoardKept \/ OnePut \/ OneGone(p) \/ Moves
  PROVE  CardsInv'
<1> PICK r : r = b_run[p]
  OBVIOUS
<1>1. RunFits(r, b_aside[p])
  BY DEF CardsInv
<1>2. Taken(b_aside[p]) /\ Bare(b_aside[p]) /\ Stepping(c, "end") /\ ~Holding(r)
  BY <1>1 DEF RunFits, RunTyped, RestoreFits, Stepping, Holding
<1>3. /\ RunFits(Done(c), b_aside[p]) /\ NumbersKnown(Done(c))' /\ ~Holding(Done(c))
      /\ ~Creating(Done(c)) /\ ~Carrying(Done(c))
  BY <1>2, DoneFits
<1> QED BY <1>2, <1>3, VerbGoes

\* The record of a move or an archive.
LEMMA CarryFits ==
  ASSUME NEW r, NEW a, r.cmd \in {"move", "archive"}, RunTyped(r, a), CarriesFit(r), Bare(a)
  PROVE  RunFits(r, a) /\ ~Holding(r) /\ ~Creating(r)
  BY DEF RunFits, CreatesFit, ReconcileFits, CleanupFits, RestoreFits, MaintainFits,
     Creating, Holding

\* The record of a creation.
LEMMA CreateFits ==
  ASSUME NEW r, NEW a, r.cmd \in {"new", "promote"}, RunTyped(r, a), CreatesFit(r), Bare(a)
  PROVE  RunFits(r, a) /\ ~Holding(r) /\ ~Carrying(r)
  BY DEF RunFits, CarriesFit, ReconcileFits, CleanupFits, RestoreFits, MaintainFits,
     Carrying, Holding

\* The record of a command that begins.
LEMMA BeginIs ==
  ASSUME CardsParameters, NEW p \in Proc, CardsInv, NEW r, r = b_run[p], r.cmd = "none",
         NEW cmd, NEW at, NEW e, e = Cards!Begin(p, cmd, at)
  PROVE  /\ DOMAIN e = Fields /\ e.cmd = cmd /\ e.at = at
         /\ e.src = Cards!DoingCard /\ e.dst = Cards!DoingCard /\ e.text = None
         /\ e.seen = Cards!Nothing /\ e.stage = Cards!Nothing /\ e.left = {} /\ e.made = {}
         /\ e.number = 0
         /\ Stepping(cmd, at) => RunTyped(e, b_aside[p])
         /\ Bare(b_aside[p]) /\ ~Holding(r) /\ ~Creating(r)
         /\ Known(DoingTask)' /\ DOMAIN Cards!Nothing = {}
<1>1. /\ DOMAIN e = Fields /\ e.cmd = cmd /\ e.at = at
      /\ e.src = Cards!DoingCard /\ e.dst = Cards!DoingCard /\ e.text = None
      /\ e.seen = Cards!Nothing /\ e.stage = Cards!Nothing /\ e.left = {} /\ e.made = {}
      /\ e.number = 0
  BY DEF Cards!Begin, Cards!Idle, Fields
<1>2. RunFits(r, b_aside[p])
  BY DEF CardsInv
<1>3. Bare(b_aside[p]) /\ Taken(b_aside[p]) /\ ~Holding(r) /\ r.at = "end"
  BY <1>2 DEF RunFits, RestoreFits, RunTyped, Holding, Stepping
<1>4. Filed(Cards!Nothing) /\ DOMAIN Cards!Nothing = {}
  BY NoFiles
<1>5. Cards!DoingCard \in Cards!Path /\ Known(DoingTask)'
  BY Places DEF Known
<1> QED BY <1>1, <1>3, <1>4, <1>5 DEF RunTyped, Creating

LEMMA MoveKeeps ==
  ASSUME CardsParameters, CardsInv, NEW p \in Proc,
         NEW z \in {"review", "blocked", "doing"}, Cards!Move(p, Cards!DoingCard, z)
  PROVE  CardsInv'
<1> DEFINE dst == <<z, Cards!DoingCard[2]>>
           b == Cards!Begin(p, "move", "cell")
           c == Cards!Begin(p, "move", "rename")
<1>1. b_run[p].cmd = "none" /\ Cards!Steps /\ UNCHANGED b_reservation /\ BoardKept
  BY DEF Cards!Move, BoardKept
<1>2. dst \in Cards!Path /\ dst[1] = z /\ dst[2] = DoingTask
      /\ Cards!DoingCard[1] = "doing" /\ Cards!DoingCard[2] = DoingTask /\ DoingTask # DoneTask
  BY Places DEF Cards!Path, Cards!Zone
<1>3. CASE z = "doing"
  <2>0. PICK e : e = [b EXCEPT !.src = Cards!DoingCard, !.dst = Cards!DoingCard]
    OBVIOUS
  <2>1. /\ DOMAIN b = Fields /\ b.cmd = "move" /\ b.at = "cell"
        /\ b.src = Cards!DoingCard /\ b.dst = Cards!DoingCard /\ b.text = None
        /\ b.seen = Cards!Nothing /\ b.stage = Cards!Nothing /\ b.left = {} /\ b.made = {}
        /\ b.number = 0 /\ RunTyped(b, b_aside[p]) /\ Bare(b_aside[p])
        /\ Known(DoingTask)' /\ DOMAIN Cards!Nothing = {}
    BY <1>1, BeginIs DEF Stepping
  <2>2. b_run' = [b_run EXCEPT ![p] = e]
    BY <1>2, <1>3, <2>0 DEF Cards!Move
  <2> HIDE DEF b
  <2>3. /\ DOMAIN e = Fields /\ e.cmd = "move" /\ e.at = "cell"
        /\ e.src = Cards!DoingCard /\ e.dst = Cards!DoingCard /\ e.text = None
        /\ e.seen = Cards!Nothing /\ e.stage = Cards!Nothing /\ e.left = {} /\ e.made = {}
        /\ e.number = 0
    BY <2>0, <2>1 DEF Fields
  <2>4. RunTyped(e, b_aside[p])
    BY <2>1, <2>3 DEF RunTyped
  <2>5. CarriesFit(e)
    BY <1>2, <2>3 DEF CarriesFit
  <2>6. RunFits(e, b_aside[p]) /\ ~Holding(e) /\ ~Creating(e)
    BY <2>1, <2>3, <2>4, <2>5, CarryFits
  <2>7. NumbersKnown(e)'
    BY <1>2, <2>1, <2>3, <2>6 DEF NumbersKnown
  <2> QED BY <1>1, <2>2, <2>3, <2>6, <2>7, VerbGoes DEF Holding
<1>4. CASE z # "doing" /\ Cards!Has(dst)
  <2>1. b_run' = [b_run EXCEPT ![p] = Done("move")]
    BY <1>2, <1>4 DEF Cards!Move, Done
  <2> QED BY <1>1, <2>1, VerbEnds
<1>5. CASE z # "doing" /\ ~Cards!Has(dst)
  <2>0. PICK f : f = [c EXCEPT !.src = Cards!DoingCard, !.dst = dst, !.seen = Cards!Looked(dst)]
    OBVIOUS
  <2>1. /\ DOMAIN c = Fields /\ c.cmd = "move" /\ c.at = "rename" /\ c.text = None
        /\ c.stage = Cards!Nothing /\ c.left = {} /\ c.made = {}
        /\ c.number = 0 /\ RunTyped(c, b_aside[p]) /\ Bare(b_aside[p])
        /\ Known(DoingTask)' /\ DOMAIN Cards!Nothing = {}
    BY <1>1, BeginIs DEF Stepping
  <2>2. b_run' = [b_run EXCEPT ![p] = f]
    BY <1>2, <1>5, <2>0 DEF Cards!Move
  <2>3. DOMAIN Cards!Looked(dst) = {dst} /\ Cards!Looked(dst)[dst] = Absent
    BY <1>5 DEF Cards!Looked, Cards!At, Cards!Has
  <2> HIDE DEF c, dst
  <2>4. /\ DOMAIN f = Fields /\ f.cmd = "move" /\ f.at = "rename"
        /\ f.src = Cards!DoingCard /\ f.dst = dst /\ f.text = None
        /\ f.seen = Cards!Looked(dst) /\ f.stage = Cards!Nothing /\ f.left = {} /\ f.made = {}
        /\ f.number = 0
    BY <2>0, <2>1 DEF Fields
  <2>5. RunTyped(f, b_aside[p])
    BY <1>2, <2>1, <2>4, Places DEF RunTyped
  <2>6. CarriesFit(f)
    BY <1>2, <1>5, <2>3, <2>4 DEF CarriesFit, Empty
  <2>7. RunFits(f, b_aside[p]) /\ ~Holding(f) /\ ~Creating(f)
    BY <2>1, <2>4, <2>5, <2>6, CarryFits
  <2>8. NumbersKnown(f)'
    BY <1>2, <2>1, <2>4, <2>7 DEF NumbersKnown
  <2> QED BY <1>1, <2>2, <2>4, <2>7, <2>8, VerbGoes DEF Holding
<1> QED BY <1>3, <1>4, <1>5

\* Only these fields of the record change.
SameBut(r2, r, S) == DOMAIN r2 = Fields /\ \A f \in Fields \ S : r2[f] = r[f]

\* A number once given out stays known.
LEMMA KnownStays ==
  ASSUME UNCHANGED b_reservation
  PROVE  /\ \A n : Known(n)' <=> Known(n)
         /\ \A r : NumbersKnown(r)' <=> NumbersKnown(r)
  BY DEF Known, NumbersKnown

\* What a move or an archive may rest on between its steps.
LEMMA Carrier ==
  ASSUME CardsParameters, CardsInv, NEW p \in Proc, NEW r, r = b_run[p], Carrying(r)
  PROVE  /\ RunTyped(r, b_aside[p]) /\ CarriesFit(r) /\ Bare(b_aside[p]) /\ DOMAIN r = Fields
         /\ NumbersKnown(r) /\ ~Holding(r) /\ r.cmd \in {"move", "archive"}
         /\ r.at = "links" /\ Cards!Replacement \in r.left => Exchanged
         /\ r.src # Cards!Replacement /\ r.dst # Cards!Replacement
         /\ Filed(b_board) /\ \A q \in DOMAIN b_board : Known(q[2])
         /\ Cards!Replacement \in DOMAIN b_board => Exchanged
<1>1. /\ RunFits(r, b_aside[p]) /\ RunHolds(p, r)
      /\ Filed(b_board) /\ \A q \in DOMAIN b_board : Known(q[2])
      /\ Cards!Replacement \in DOMAIN b_board => Exchanged
  BY DEF CardsInv, BoardFits
<1>2. /\ RunTyped(r, b_aside[p]) /\ CarriesFit(r) /\ DOMAIN r = Fields
      /\ r.cmd \in {"move", "archive"} /\ ~Holding(r)
  BY <1>1 DEF RunFits, RunTyped, Carrying, Holding
<1>3. Bare(b_aside[p])
  BY <1>1, <1>2 DEF RunFits, RestoreFits
<1>4. NumbersKnown(r)
      /\ (r.at = "links" /\ Cards!Replacement \in r.left => Exchanged)
  BY <1>1 DEF RunHolds
<1>5. /\ r.src \in {Cards!DoingCard, Cards!DoneCard}
      /\ r.dst[1] \in {"review", "blocked", "doing", "archive"}
  BY <1>2 DEF CarriesFit
<1>6. r.src # Cards!Replacement /\ r.dst # Cards!Replacement
  BY <1>5, Places
<1> QED BY <1>1, <1>2, <1>3, <1>4, <1>6

\* Such a command goes on.
LEMMA CarryGoes ==
  ASSUME CardsParameters, CardsInv, NEW p \in Proc, NEW r, NEW r2, r = b_run[p],
         Carrying(r), r2.cmd \in {"move", "archive"},
         b_run' = [b_run EXCEPT ![p] = r2], Cards!Steps, UNCHANGED b_reservation,
         (BoardKept \/ OnePut \/ OneGone(p) \/ Moves),
         RunTyped(r2, b_aside[p]), CarriesFit(r2), NumbersKnown(r2),
         (r2.at = "links" /\ Cards!Replacement \in r2.left => Exchanged)
  PROVE  CardsInv'
<1>1. Bare(b_aside[p]) /\ ~Holding(r)
  BY Carrier
<1>2. RunFits(r2, b_aside[p]) /\ ~Holding(r2) /\ ~Creating(r2)
  BY <1>1, CarryFits
<1>3. NumbersKnown(r2)'
  BY KnownStays
<1> QED BY <1>1, <1>2, <1>3, VerbGoes

LEMMA ArchiveKeeps ==
  ASSUME CardsParameters, CardsInv, NEW p \in Proc, Cards!Archive(p, Cards!DoneCard)
  PROVE  CardsInv'
<1> DEFINE dst == <<"archive", Cards!DoneCard[2]>>
           c == Cards!Begin(p, "archive", "word")
<1>1. b_run[p].cmd = "none" /\ Cards!Steps /\ UNCHANGED b_reservation /\ BoardKept
  BY DEF Cards!Archive, BoardKept
<1>2. dst \in Cards!Path /\ dst[1] = "archive" /\ dst[2] = DoneTask
      /\ Cards!DoneCard[1] = "done" /\ Cards!DoneCard[2] = DoneTask
      /\ Known(DoneTask)'
  BY Places DEF Cards!Path, Cards!Zone, Known
<1>3. CASE Cards!Has(dst)
  <2>1. b_run' = [b_run EXCEPT ![p] = Done("archive")]
    BY <1>3 DEF Cards!Archive, Done
  <2> QED BY <1>1, <2>1, VerbEnds
<1>4. CASE ~Cards!Has(dst)
  <2>0. PICK f : f = [c EXCEPT !.src = Cards!DoneCard, !.dst = dst, !.seen = Cards!Looked(dst)]
    OBVIOUS
  <2>1. /\ DOMAIN c = Fields /\ c.cmd = "archive" /\ c.at = "word" /\ c.text = None
        /\ c.stage = Cards!Nothing /\ c.left = {} /\ c.made = {}
        /\ c.number = 0 /\ RunTyped(c, b_aside[p]) /\ Bare(b_aside[p])
        /\ DOMAIN Cards!Nothing = {}
    BY <1>1, BeginIs DEF Stepping
  <2>2. b_run' = [b_run EXCEPT ![p] = f]
    BY <1>4, <2>0 DEF Cards!Archive
  <2>3. DOMAIN Cards!Looked(dst) = {dst} /\ Cards!Looked(dst)[dst] = Absent
    BY <1>4 DEF Cards!Looked, Cards!At, Cards!Has
  <2> HIDE DEF c, dst
  <2>4. /\ SameBut(f, c, {"src", "dst", "seen"})
        /\ f.src = Cards!DoneCard /\ f.dst = dst /\ f.seen = Cards!Looked(dst)
    BY <2>0, <2>1 DEF SameBut, Fields
  <2>5. RunTyped(f, b_aside[p])
    BY <1>2, <2>1, <2>4, Places DEF RunTyped, SameBut, Fields
  <2>6. CarriesFit(f)
    BY <1>2, <2>1, <2>3, <2>4 DEF CarriesFit, Empty, SameBut, Fields
  <2>7. RunFits(f, b_aside[p]) /\ ~Holding(f) /\ ~Creating(f)
    BY <2>1, <2>4, <2>5, <2>6, CarryFits DEF SameBut, Fields
  <2>8. NumbersKnown(f)'
    BY <1>2, <2>1, <2>4, <2>7 DEF NumbersKnown, SameBut, Fields
  <2> QED BY <1>1, <2>1, <2>2, <2>4, <2>7, <2>8, VerbGoes DEF Holding, SameBut, Fields
<1> QED BY <1>3, <1>4

LEMMA RenameKeeps ==
  ASSUME CardsParameters, CardsInv, NEW p \in Proc, Cards!Rename(p) PROVE CardsInv'
<1>0. PICK r : r = b_run[p]
  OBVIOUS
<1>1. r.cmd \in {"move", "archive"} /\ r.at = "rename" /\ Carrying(r)
      /\ Cards!Steps /\ UNCHANGED b_reservation
  BY <1>0 DEF Cards!Rename, Carrying
<1>2. /\ RunTyped(r, b_aside[p]) /\ CarriesFit(r) /\ DOMAIN r = Fields
      /\ NumbersKnown(r) /\ r.dst # Cards!Replacement
  BY <1>0, <1>1, Carrier
<1>3. CASE Cards!Has(r.src)
  <2>0. PICK r2 : r2 = [r EXCEPT !.at = IF r.cmd = "move" THEN "cell" ELSE "links"]
    OBVIOUS
  <2>1. b_run' = [b_run EXCEPT ![p] = r2]
    BY <1>0, <1>3, <2>0 DEF Cards!Rename, Cards!Goes
  <2>2. SameBut(r2, r, {"at"}) /\ r2.at = IF r.cmd = "move" THEN "cell" ELSE "links"
    BY <1>2, <2>0 DEF SameBut, Fields
  <2>3. RunTyped(r2, b_aside[p])
    BY <1>1, <1>2, <2>2 DEF RunTyped, SameBut, Fields, Stepping
  <2>4. CarriesFit(r2) /\ r2.left = r.left
    BY <1>1, <1>2, <2>2 DEF CarriesFit, Carrying, SameBut, Fields
  <2>5. NumbersKnown(r2)
    BY <1>1, <1>2, <2>2 DEF NumbersKnown, SameBut, Fields, Creating
  <2>6. Moves
    <3>1. b_board' = Cards!Put(Cards!Without(b_board, r.src), r.dst, b_board[r.src])
      BY <1>0, <1>3 DEF Cards!Rename
    <3>2. r.dst \in Cards!Path /\ r.dst[2] = r.src[2]
      BY <1>1, <1>2 DEF RunTyped, CarriesFit
    <3>3. PICK q, x : q = r.src /\ x = r.dst
      OBVIOUS
    <3>4. /\ q \in DOMAIN b_board /\ x \in Cards!Path /\ x[2] = q[2] /\ x # Cards!Replacement
          /\ b_board' = Cards!Put(Cards!Without(b_board, q), x, b_board[q])
      BY <1>2, <1>3, <3>1, <3>2, <3>3 DEF Cards!Has
    <3> QED BY <3>4 DEF Moves
  <2>7. r2.left = {} /\ r2.cmd = r.cmd
    <3>1. r.left = {}
      BY <1>1, <1>2 DEF CarriesFit
    <3> QED BY <2>2, <2>4, <3>1 DEF SameBut, Fields
  <2>8. r2.cmd \in {"move", "archive"}
        /\ (r2.at = "links" /\ Cards!Replacement \in r2.left => Exchanged)
    BY <1>1, <2>7
  <2>9. Carrying(r) /\ Cards!Steps /\ UNCHANGED b_reservation
    BY <1>1
  <2>10. CarriesFit(r2)
    BY <2>4
  <2> QED BY <1>0, <2>1, <2>3, <2>5, <2>6, <2>8, <2>9, <2>10, CarryGoes
<1>4. CASE ~Cards!Has(r.src)
  <2>1. b_run' = [b_run EXCEPT ![p] = Done(r.cmd)] /\ BoardKept
    BY <1>0, <1>4 DEF Cards!Rename, Cards!Ends, Done, BoardKept
  <2> QED BY <1>0, <1>1, <2>1, VerbEnds
<1> QED BY <1>3, <1>4

LEMMA ReadStampKeeps ==
  ASSUME CardsParameters, CardsInv, NEW p \in Proc, Cards!ReadStamp(p) PROVE CardsInv'
<1>0. PICK r, q : r = b_run[p] /\ q = Cards!Stamped(r)
  OBVIOUS
<1>1. r.cmd \in {"move", "archive"} /\ r.at \in {"cell", "word"} /\ Carrying(r)
      /\ Cards!Steps /\ UNCHANGED b_reservation /\ BoardKept
  BY <1>0 DEF Cards!ReadStamp, Carrying, BoardKept
<1>2. /\ RunTyped(r, b_aside[p]) /\ CarriesFit(r) /\ DOMAIN r = Fields
      /\ NumbersKnown(r) /\ Filed(b_board)
  BY <1>0, <1>1, Carrier
<1>3. CASE Cards!Has(q)
  <2>0. PICK r2, x, s : /\ r2 = [r EXCEPT !.text = x, !.seen = s]
                        /\ x = b_board[q] /\ s = Cards!SeesToo(p, Cards!Looked(q))
    OBVIOUS
  <2>1. b_run' = [b_run EXCEPT ![p] = r2]
    BY <1>0, <1>3, <2>0 DEF Cards!ReadStamp
  <2>2. SameBut(r2, r, {"text", "seen"}) /\ r2.text = x /\ r2.seen = s
    BY <1>2, <2>0 DEF SameBut, Fields
  <2>3. x \in Cards!Text /\ SeenToo(s, r.seen, q, x)
    <3>1. SeenToo(s, r.seen, q, Cards!At(b_board, q))
      BY <1>0, <2>0, Looks
    <3> QED BY <1>2, <1>3, <2>0, <3>1 DEF Filed, Cards!Has, Cards!At
  <2>4. RunTyped(r2, b_aside[p])
    BY <1>1, <1>2, <2>2, <2>3 DEF RunTyped, SameBut, Fields
  <2>5. CarriesFit(r2)
    <3>1. q = Cards!Stamped(r2)
      BY <1>0, <2>2 DEF Cards!Stamped, SameBut, Fields
    <3>2. Read(r2, q)
      BY <2>2, <2>3 DEF Read, SeenToo
    <3>3. r.cmd = "archive" /\ r.at = "word" => Empty(r2, r.dst)
      BY <1>0, <1>1, <1>2, <2>2, <2>3 DEF CarriesFit, Empty, SeenToo, Cards!Stamped
    <3> QED BY <1>1, <1>2, <2>2, <3>1, <3>2, <3>3 DEF CarriesFit, SameBut, Fields
  <2>6. NumbersKnown(r2)
    BY <1>1, <1>2, <2>2 DEF NumbersKnown, SameBut, Fields, Creating
  <2>7. r2.cmd \in {"move", "archive"} /\ r2.at # "links"
    BY <1>1, <2>2 DEF SameBut, Fields
  <2>8. r = b_run[p] /\ Carrying(r) /\ Cards!Steps /\ UNCHANGED b_reservation /\ BoardKept
    BY <1>0, <1>1
  <2> QED BY <2>1, <2>4, <2>5, <2>6, <2>7, <2>8, CarryGoes
<1>4. CASE ~Cards!Has(q)
  <2>1. b_run' = [b_run EXCEPT ![p] = Done(r.cmd)]
    BY <1>0, <1>4 DEF Cards!ReadStamp, Cards!Ends, Done
  <2> QED BY <1>0, <1>1, <2>1, VerbEnds
<1> QED BY <1>3, <1>4

LEMMA WriteStampKeeps ==
  ASSUME CardsParameters, CardsInv, NEW p \in Proc, Cards!WriteStamp(p) PROVE CardsInv'
<1>0. PICK r, q, zone, new, next :
        /\ r = b_run[p] /\ q = Cards!Stamped(r)
        /\ zone = IF r.cmd = "move" THEN r.dst[1] ELSE "done"
        /\ new = IF r.at = "cell" THEN [r.text EXCEPT !.cell = zone]
                 ELSE [r.text EXCEPT !.word = zone]
        /\ next = IF r.at = "cell" THEN "word"
                  ELSE IF r.cmd = "archive" THEN "rename"
                  ELSE IF r.src = r.dst THEN "end" ELSE "links"
  OBVIOUS
<1>1. r.cmd \in {"move", "archive"} /\ r.at \in {"cell", "word"} /\ Carrying(r)
      /\ Cards!Steps /\ UNCHANGED b_reservation /\ r.text # None
  BY <1>0 DEF Cards!WriteStamp, Carrying
<1>2. /\ RunTyped(r, b_aside[p]) /\ CarriesFit(r) /\ DOMAIN r = Fields
      /\ NumbersKnown(r) /\ r.src # Cards!Replacement /\ r.dst # Cards!Replacement
  BY <1>0, <1>1, Carrier
<1>3. OnePut
  <2>1. q \in {r.src, r.dst} /\ q \in Cards!Path /\ q # Cards!Replacement
    BY <1>0, <1>2 DEF Cards!Stamped, RunTyped
  <2>2. Known(q[2])'
    BY <1>1, <1>2, <2>1, KnownStays DEF NumbersKnown
  <2>3. new \in Cards!Text
    <3>1. r.text \in Cards!Text /\ zone \in Cards!Zone
      BY <1>0, <1>1, <1>2 DEF RunTyped, Cards!Path, Cards!Zone
    <3> QED BY <1>0, <3>1 DEF Cards!Text
  <2>4. b_board' = Cards!Put(b_board, q, new)
    BY <1>0 DEF Cards!WriteStamp
  <2> QED BY <2>1, <2>2, <2>3, <2>4 DEF OnePut
<1>4. CASE next # "end"
  <2>0. PICK r2 : r2 = [r EXCEPT !.at = next, !.text = None]
    OBVIOUS
  <2>1. b_run' = [b_run EXCEPT ![p] = r2]
    BY <1>0, <1>4, <2>0 DEF Cards!WriteStamp
  <2>2. SameBut(r2, r, {"text", "at"}) /\ r2.text = None /\ r2.at = next
    BY <1>2, <2>0 DEF SameBut, Fields
  <2>3. RunTyped(r2, b_aside[p])
    <3>1. Stepping(r.cmd, next)
      BY <1>0, <1>1, <1>4 DEF Stepping
    <3> QED BY <1>1, <1>2, <2>2, <3>1 DEF RunTyped, SameBut, Fields
  <2>4. CarriesFit(r2) /\ r2.left = {}
    <3>1. r.left = {}
      BY <1>1, <1>2 DEF CarriesFit
    <3>2. Carrying(r) /\ (r.cmd = "archive" /\ r.at = "word" => r.dst # r.src /\ Empty(r, r.dst))
      BY <1>1, <1>2 DEF CarriesFit
    <3>3. next = "rename" => r.cmd = "archive" /\ r.at = "word"
      BY <1>0, <1>1
    <3>4. r.cmd = "archive" /\ next = "word" => FALSE
      <4>1. r.cmd = "archive" => r.at = "word"
        BY <1>1, <1>2 DEF RunTyped, Stepping
      <4> QED BY <1>0, <4>1
    <3>5. r2.cmd = r.cmd /\ r2.src = r.src /\ r2.dst = r.dst /\ r2.left = r.left
          /\ r2.seen = r.seen
      BY <2>2 DEF SameBut, Fields
    <3>6. Empty(r2, r.dst) <=> Empty(r, r.dst)
      BY <3>5 DEF Empty
    <3> QED BY <1>1, <1>2, <2>2, <3>1, <3>2, <3>3, <3>4, <3>5, <3>6 DEF CarriesFit
  <2>5. NumbersKnown(r2)
    BY <1>1, <1>2, <2>2 DEF NumbersKnown, SameBut, Fields, Creating
  <2>6. r2.cmd \in {"move", "archive"} /\ Cards!Replacement \notin r2.left
    BY <1>1, <2>2, <2>4 DEF SameBut, Fields
  <2>7. r = b_run[p] /\ Carrying(r) /\ Cards!Steps /\ UNCHANGED b_reservation
    BY <1>0, <1>1
  <2> QED BY <1>3, <2>1, <2>3, <2>4, <2>5, <2>6, <2>7, CarryGoes
<1>5. CASE next = "end"
  <2>1. b_run' = [b_run EXCEPT ![p] = Done(r.cmd)]
    BY <1>0, <1>5 DEF Cards!WriteStamp, Cards!Ends, Done
  <2> QED BY <1>0, <1>1, <1>3, <2>1, VerbEnds
<1> QED BY <1>4, <1>5

LEMMA ReadLinksKeeps ==
  ASSUME CardsParameters, CardsInv, NEW p \in Proc, Cards!ReadLinks(p) PROVE CardsInv'
<1>0. PICK r, hits : /\ r = b_run[p]
                     /\ hits = {d \in Cards!Linking(r.src) : d[1] # "archive" /\ d # r.dst}
  OBVIOUS
<1>1. r.cmd \in {"move", "archive"} /\ r.at = "links" /\ Carrying(r)
      /\ Cards!Steps /\ UNCHANGED b_reservation /\ BoardKept
  BY <1>0 DEF Cards!ReadLinks, Carrying, BoardKept
<1>2. /\ RunTyped(r, b_aside[p]) /\ CarriesFit(r) /\ DOMAIN r = Fields
      /\ NumbersKnown(r) /\ Filed(b_board) /\ \A q \in DOMAIN b_board : Known(q[2])
      /\ Cards!Replacement \in DOMAIN b_board => Exchanged
  BY <1>0, <1>1, Carrier
<1>3. CASE hits # {}
  <2>1. PICK d \in hits :
          b_run' = [b_run EXCEPT ![p].text = b_board[d], ![p].left = {d},
                                 ![p].seen = Cards!SeesToo(p, Cards!Looked(d))]
    BY <1>0, <1>3 DEF Cards!ReadLinks
  <2>2. d \in DOMAIN b_board
    BY <1>0 DEF Cards!Linking
  <2>3. PICK r2, x, s : /\ r2 = [r EXCEPT !.text = x, !.left = {d}, !.seen = s]
                        /\ x = b_board[d] /\ s = Cards!SeesToo(p, Cards!Looked(d))
    OBVIOUS
  <2>4. b_run' = [b_run EXCEPT ![p] = r2]
    BY <1>0, <2>1, <2>3
  <2>5. SameBut(r2, r, {"text", "left", "seen"}) /\ r2.text = x /\ r2.left = {d} /\ r2.seen = s
    BY <1>2, <2>3 DEF SameBut, Fields
  <2>6. x \in Cards!Text /\ SeenToo(s, r.seen, d, x) /\ d \in Cards!Path /\ Known(d[2])
    <3>1. SeenToo(s, r.seen, d, Cards!At(b_board, d))
      BY <1>0, <2>3, Looks
    <3> QED BY <1>2, <2>2, <2>3, <3>1 DEF Filed, Cards!At
  <2>7. RunTyped(r2, b_aside[p])
    BY <1>1, <1>2, <2>5, <2>6 DEF RunTyped, SameBut, Fields
  <2>8. CarriesFit(r2)
    <3>1. Read(r2, d)
      BY <2>5, <2>6 DEF Read, SeenToo
    <3> QED BY <1>1, <1>2, <2>5, <3>1 DEF CarriesFit, SameBut, Fields
  <2>9. NumbersKnown(r2)
    BY <1>1, <1>2, <2>5, <2>6 DEF NumbersKnown, SameBut, Fields, Creating
  <2>10. r2.cmd \in {"move", "archive"} /\ (Cards!Replacement \in r2.left => Exchanged)
    BY <1>1, <1>2, <2>2, <2>5 DEF SameBut, Fields
  <2>11. r = b_run[p] /\ Carrying(r) /\ Cards!Steps /\ UNCHANGED b_reservation /\ BoardKept
    BY <1>0, <1>1
  <2> QED BY <2>4, <2>7, <2>8, <2>9, <2>10, <2>11, CarryGoes
<1>4. CASE hits = {}
  <2>1. b_run' = [b_run EXCEPT ![p] = Done(r.cmd)]
    BY <1>0, <1>4 DEF Cards!ReadLinks, Cards!Ends, Done
  <2> QED BY <1>0, <1>1, <2>1, VerbEnds
<1> QED BY <1>3, <1>4

LEMMA WriteLinksKeeps ==
  ASSUME CardsParameters, CardsInv, NEW p \in Proc, Cards!WriteLinks(p) PROVE CardsInv'
<1>0. PICK r : r = b_run[p]
  OBVIOUS
<1>1. r.cmd \in {"move", "archive"} /\ r.at = "links" /\ Carrying(r)
      /\ Cards!Steps /\ UNCHANGED b_reservation /\ r.text # None
  BY <1>0 DEF Cards!WriteLinks, Carrying
<1>2. /\ RunTyped(r, b_aside[p]) /\ CarriesFit(r) /\ DOMAIN r = Fields /\ NumbersKnown(r)
      /\ Cards!Replacement \in r.left => Exchanged
  BY <1>0, <1>1, Carrier
<1>3. OnePut
  <2>1. PICK d \in r.left : b_board' = Cards!Put(b_board, d, [r.text EXCEPT !.link = r.dst])
    BY <1>0 DEF Cards!WriteLinks
  <2>2. PICK new : new = [r.text EXCEPT !.link = r.dst]
    OBVIOUS
  <2>3. d \in Cards!Path /\ new \in Cards!Text
    <3>1. r.left \subseteq Cards!Path /\ r.text \in Cards!Text /\ r.dst \in Cards!Path
      BY <1>1, <1>2 DEF RunTyped
    <3> QED BY <2>2, <3>1 DEF Cards!Text
  <2>4. Known(d[2])'
    BY <1>1, <1>2, KnownStays DEF NumbersKnown
  <2> QED BY <1>2, <2>1, <2>2, <2>3, <2>4 DEF OnePut
<1>4. PICK r2 : r2 = [r EXCEPT !.text = None, !.left = {}]
  OBVIOUS
<1>5. b_run' = [b_run EXCEPT ![p] = r2]
  BY <1>0, <1>4 DEF Cards!WriteLinks
<1>6. SameBut(r2, r, {"text", "left"}) /\ r2.text = None /\ r2.left = {}
  BY <1>2, <1>4 DEF SameBut, Fields
<1>7. RunTyped(r2, b_aside[p])
  BY <1>1, <1>2, <1>6 DEF RunTyped, SameBut, Fields
<1>8. CarriesFit(r2)
  BY <1>1, <1>2, <1>6 DEF CarriesFit, SameBut, Fields
<1>9. NumbersKnown(r2)
  BY <1>1, <1>2, <1>6 DEF NumbersKnown, SameBut, Fields, Creating
<1>10. r2.cmd \in {"move", "archive"} /\ Cards!Replacement \notin r2.left
  BY <1>1, <1>6 DEF SameBut, Fields
<1>11. r = b_run[p] /\ Carrying(r) /\ Cards!Steps /\ UNCHANGED b_reservation
  BY <1>0, <1>1
<1> QED BY <1>3, <1>5, <1>7, <1>8, <1>9, <1>10, <1>11, CarryGoes

-----------------------------------------------------------------------------
(* New and promote.                                                        *)

\* The same where the ledger goes up.
LEMMA KnownGrows ==
  ASSUME CardsParameters, BoardFits, Numbered
  PROVE  /\ \A n : Known(n) => Known(n)'
         /\ \A r : NumbersKnown(r) => NumbersKnown(r)'
<1>1. \A n : Known(n) => Known(n)'
  BY DEF Known, Numbered, BoardFits, CardsParameters
<1> QED BY <1>1 DEF NumbersKnown

\* What new or promote may rest on between its steps.
LEMMA Creator ==
  ASSUME CardsParameters, CardsInv, NEW p \in Proc, NEW r, r = b_run[p], Creating(r)
  PROVE  /\ RunTyped(r, b_aside[p]) /\ CreatesFit(r) /\ Bare(b_aside[p]) /\ DOMAIN r = Fields
         /\ NumbersKnown(r) /\ ~Holding(r) /\ r.cmd \in {"new", "promote"}
         /\ r.at \in {"reserve", "release"} => b_reservation.holder = p
         /\ Filed(b_board) /\ \A q \in DOMAIN b_board : Known(q[2])
         /\ BoardFits
<1>1. /\ RunFits(r, b_aside[p]) /\ RunHolds(p, r) /\ BoardFits
      /\ Filed(b_board) /\ \A q \in DOMAIN b_board : Known(q[2])
  BY DEF CardsInv, BoardFits
<1>2. /\ RunTyped(r, b_aside[p]) /\ CreatesFit(r) /\ DOMAIN r = Fields
      /\ r.cmd \in {"new", "promote"} /\ ~Holding(r)
  BY <1>1 DEF RunFits, RunTyped, Creating, Holding
<1>3. Bare(b_aside[p])
  BY <1>1, <1>2 DEF RunFits, RestoreFits
<1>4. NumbersKnown(r) /\ (r.at \in {"reserve", "release"} => b_reservation.holder = p)
  BY <1>1 DEF RunHolds
<1> QED BY <1>1, <1>2, <1>3, <1>4

\* Such a command goes on.
LEMMA CreateGoes ==
  ASSUME CardsParameters, CardsInv, NEW p \in Proc, NEW r, NEW r2, r = b_run[p],
         ~Holding(r), Bare(b_aside[p]), r2.cmd \in {"new", "promote"},
         b_run' = [b_run EXCEPT ![p] = r2], Cards!Steps, Numbered,
         (b_reservation'.holder = b_reservation.holder
          \/ b_reservation.holder \in {None, p}),
         (BoardKept \/ OnePut \/ OneGone(p) \/ Moves),
         RunTyped(r2, b_aside[p]), CreatesFit(r2), NumbersKnown(r2)',
         (r2.at \in {"reserve", "release"} => b_reservation'.holder = p)
  PROVE  CardsInv'
<1>1. RunFits(r2, b_aside[p]) /\ ~Holding(r2) /\ ~Carrying(r2)
  BY CreateFits
<1>2. UNCHANGED <<b_aside, b_lock, b_evidence, b_retained>> /\ b_acts' \in 0..MaxActs
  BY DEF Cards!Steps, CardsInv, BoardFits
<1> QED BY <1>1, <1>2, VerbAdvances

\* Without a change to the reservation.
LEMMA CreateSteps ==
  ASSUME CardsParameters, CardsInv, NEW p \in Proc, NEW r, NEW r2, r = b_run[p],
         Creating(r), r2.cmd \in {"new", "promote"},
         b_run' = [b_run EXCEPT ![p] = r2], Cards!Steps, UNCHANGED b_reservation,
         (BoardKept \/ OnePut \/ OneGone(p) \/ Moves),
         RunTyped(r2, b_aside[p]), CreatesFit(r2), NumbersKnown(r2),
         r2.at \notin {"reserve", "release"}
  PROVE  CardsInv'
<1>1. Bare(b_aside[p]) /\ ~Holding(r)
  BY Creator
<1>2. NumbersKnown(r2)' /\ Numbered
  BY KnownStays DEF CardsInv, BoardFits, Numbered, CardsParameters
<1> QED BY <1>1, <1>2, CreateGoes

\* A creation that fails.
LEMMA GivesUpKeeps ==
  ASSUME CardsParameters, CardsInv, NEW p \in Proc, NEW r, r = b_run[p], Creating(r),
         Cards!GivesUp(p), Cards!Steps, Numbered, BoardKept,
         (b_reservation'.holder = b_reservation.holder
          \/ b_reservation.holder \in {None, p})
  PROVE  CardsInv'
<1>1. /\ RunTyped(r, b_aside[p]) /\ CreatesFit(r) /\ Bare(b_aside[p]) /\ DOMAIN r = Fields
      /\ NumbersKnown(r) /\ ~Holding(r) /\ r.cmd \in {"new", "promote"} /\ BoardFits
  BY Creator
<1>2. CASE r.cmd = "promote"
  <2>0. PICK r2 : r2 = [r EXCEPT !.at = "undo"]
    OBVIOUS
  <2>1. b_run' = [b_run EXCEPT ![p] = r2]
    BY <1>2, <2>0 DEF Cards!GivesUp, Cards!Goes
  <2>2. SameBut(r2, r, {"at"}) /\ r2.at = "undo"
    BY <1>1, <2>0 DEF SameBut, Fields
  <2>3. RunTyped(r2, b_aside[p])
    BY <1>1, <1>2, <2>2 DEF RunTyped, SameBut, Fields, Stepping
  <2>4. CreatesFit(r2)
    BY <1>1, <1>2, <2>2 DEF CreatesFit, Creating, SameBut, Fields
  <2>5. NumbersKnown(r2)
    BY <1>1, <1>2, <2>2 DEF NumbersKnown, SameBut, Fields
  <2>6. NumbersKnown(r2)'
    BY <1>1, <2>5, KnownGrows
  <2>7. r2.cmd \in {"new", "promote"} /\ r2.at \notin {"reserve", "release"}
    BY <1>2, <2>2 DEF SameBut, Fields
  <2>8. ~Holding(r) /\ Bare(b_aside[p])
    BY <1>1
  <2> QED BY <2>1, <2>3, <2>4, <2>6, <2>7, <2>8, CreateGoes
<1>3. CASE r.cmd # "promote"
  <2>1. PICK e : e = Done(r.cmd)
    OBVIOUS
  <2>2. b_run' = [b_run EXCEPT ![p] = e]
    BY <1>3, <2>1 DEF Cards!GivesUp, Cards!Ends, Done
  <2>3. Taken(b_aside[p]) /\ Stepping(r.cmd, "end")
    BY <1>1 DEF RunTyped, Stepping
  <2>4. RunFits(e, b_aside[p]) /\ NumbersKnown(e)'
    BY <1>1, <2>1, <2>3, DoneFits
  <2>5. e.cmd \in {"new", "promote"} /\ e.at \notin {"reserve", "release"}
    BY <1>1, <2>1, DoneIs
  <2>6. RunTyped(e, b_aside[p]) /\ CreatesFit(e)
    BY <2>4 DEF RunFits
  <2>7. ~Holding(r) /\ Bare(b_aside[p])
    BY <1>1
  <2> QED BY <2>2, <2>4, <2>5, <2>6, <2>7, CreateGoes
<1> QED BY <1>2, <1>3

LEMMA NewKeeps ==
  ASSUME CardsParameters, CardsInv, NEW p \in Proc, Cards!New(p) PROVE CardsInv'
<1>0. PICK r, e : r = b_run[p] /\ e = Cards!Begin(p, "new", "floor")
  OBVIOUS
<1>1. r.cmd = "none" /\ Cards!Steps /\ UNCHANGED b_reservation /\ BoardKept
      /\ b_run' = [b_run EXCEPT ![p] = e]
  BY <1>0 DEF Cards!New, BoardKept
<1>2. /\ DOMAIN e = Fields /\ e.cmd = "new" /\ e.at = "floor"
      /\ e.src = Cards!DoingCard /\ e.dst = Cards!DoingCard
      /\ e.stage = Cards!Nothing /\ e.left = {} /\ e.made = {} /\ e.text = None
      /\ RunTyped(e, b_aside[p]) /\ Bare(b_aside[p])
      /\ Known(DoingTask)' /\ DOMAIN Cards!Nothing = {} /\ ~Holding(r)
  BY <1>0, <1>1, BeginIs DEF Stepping
<1>3. CreatesFit(e)
  BY <1>2 DEF CreatesFit
<1>4. NumbersKnown(e)'
  BY <1>2, Places DEF NumbersKnown
<1>5. Numbered
  BY <1>1 DEF CardsInv, BoardFits, Numbered, CardsParameters
<1>6. e.cmd \in {"new", "promote"} /\ e.at \notin {"reserve", "release"} /\ ~Holding(r)
      /\ Bare(b_aside[p]) /\ RunTyped(e, b_aside[p])
  BY <1>2
<1> QED BY <1>0, <1>1, <1>3, <1>4, <1>5, <1>6, CreateGoes

LEMMA NewByIdKeeps ==
  ASSUME CardsParameters, CardsInv, NEW p \in Proc, NEW n \in Asked, Cards!NewById(p, n)
  PROVE  CardsInv'
<1>0. PICK r, e, e2 : /\ r = b_run[p] /\ e = Cards!Begin(p, "new", "write")
                      /\ e2 = [e EXCEPT !.number = -n]
  OBVIOUS
<1>1. r.cmd = "none" /\ Cards!Steps /\ UNCHANGED b_reservation /\ BoardKept
      /\ b_run' = [b_run EXCEPT ![p] = e2]
  BY <1>0 DEF Cards!NewById, BoardKept
<1>2. /\ DOMAIN e = Fields /\ e.cmd = "new" /\ e.at = "write"
      /\ e.src = Cards!DoingCard /\ e.dst = Cards!DoingCard
      /\ e.stage = Cards!Nothing /\ e.left = {} /\ e.made = {} /\ e.text = None
      /\ RunTyped(e, b_aside[p]) /\ Bare(b_aside[p])
      /\ Known(DoingTask)' /\ DOMAIN Cards!Nothing = {} /\ ~Holding(r)
  BY <1>0, <1>1, BeginIs DEF Stepping
<1>3. -n \in Cards!ByHand /\ -n \in Int /\ -n \notin Nat
  <2>1. n \in Cards!Number /\ n \in Nat /\ n > 0
    BY DEF CardsParameters, Cards!Number
  <2>2. -n \in Int /\ -n \notin Nat
    BY <2>1
  <2>3. -n \in Cards!ByHand
    BY <2>1 DEF Cards!ByHand
  <2> QED BY <2>2, <2>3
<1>4. SameBut(e2, e, {"number"}) /\ e2.number = -n
  BY <1>0, <1>2 DEF SameBut, Fields
<1>5. RunTyped(e2, b_aside[p])
  BY <1>2, <1>3, <1>4 DEF RunTyped, SameBut, Fields
<1>6. CreatesFit(e2)
  BY <1>2, <1>3, <1>4 DEF CreatesFit, SameBut, Fields
<1>7. NumbersKnown(e2)'
  BY <1>2, <1>3, <1>4, Places DEF NumbersKnown, Known, SameBut, Fields
<1>8. Numbered
  BY <1>1 DEF CardsInv, BoardFits, Numbered, CardsParameters
<1>9. e2.cmd \in {"new", "promote"} /\ e2.at \notin {"reserve", "release"} /\ ~Holding(r)
      /\ Bare(b_aside[p])
  BY <1>2, <1>4 DEF SameBut, Fields
<1> QED BY <1>0, <1>1, <1>5, <1>6, <1>7, <1>8, <1>9, CreateGoes

LEMMA PromoteKeeps ==
  ASSUME CardsParameters, CardsInv, NEW p \in Proc, Cards!Promote(p) PROVE CardsInv'
<1> DEFINE open == {q \in DOMAIN b_board : q[1] = "issue" /\ b_board[q].promoted = {}}
<1>0. PICK r, e, f, s : /\ r = b_run[p] /\ e = Cards!Begin(p, "promote", "next")
                        /\ s = open /\ f = [e EXCEPT !.left = s]
  OBVIOUS
<1>1. r.cmd = "none" /\ Cards!Steps /\ UNCHANGED b_reservation /\ BoardKept
      /\ b_run' = [b_run EXCEPT ![p] = f]
  BY <1>0 DEF Cards!Promote, BoardKept
<1>2. /\ DOMAIN e = Fields /\ e.cmd = "promote" /\ e.at = "next"
      /\ e.src = Cards!DoingCard /\ e.dst = Cards!DoingCard
      /\ e.stage = Cards!Nothing /\ e.made = {} /\ e.text = None
      /\ RunTyped(e, b_aside[p]) /\ Bare(b_aside[p])
      /\ Known(DoingTask)' /\ DOMAIN Cards!Nothing = {} /\ ~Holding(r)
  BY <1>0, <1>1, BeginIs DEF Stepping
<1>3. SameBut(f, e, {"left"}) /\ f.left = s
  BY <1>0, <1>2 DEF SameBut, Fields
<1>4. \A q \in s : q \in Cards!Path /\ q[1] = "issue" /\ Known(q[2])'
  BY <1>0, <1>1, KnownStays DEF CardsInv, BoardFits, Filed
<1> HIDE DEF open
<1>5. RunTyped(f, b_aside[p])
  BY <1>2, <1>3, <1>4 DEF RunTyped, SameBut, Fields
<1>6. CreatesFit(f)
  BY <1>2, <1>3, <1>4 DEF CreatesFit, SameBut, Fields
<1>7. NumbersKnown(f)'
  BY <1>2, <1>3, <1>4, Places DEF NumbersKnown, SameBut, Fields
<1>8. Numbered
  BY <1>1 DEF CardsInv, BoardFits, Numbered, CardsParameters
<1>9. f.cmd \in {"new", "promote"} /\ f.at \notin {"reserve", "release"} /\ ~Holding(r)
      /\ Bare(b_aside[p])
  BY <1>2, <1>3 DEF SameBut, Fields
<1> QED BY <1>0, <1>1, <1>5, <1>6, <1>7, <1>8, <1>9, CreateGoes

LEMMA NextIssueKeeps ==
  ASSUME CardsParameters, CardsInv, NEW p \in Proc, Cards!NextIssue(p) PROVE CardsInv'
<1>0. PICK r : r = b_run[p]
  OBVIOUS
<1>1. r.cmd = "promote" /\ r.at = "next" /\ Creating(r)
      /\ Cards!Steps /\ UNCHANGED b_reservation /\ BoardKept
  BY <1>0 DEF Cards!NextIssue, Cards!Is, Creating, BoardKept
<1>2. /\ RunTyped(r, b_aside[p]) /\ CreatesFit(r) /\ DOMAIN r = Fields /\ NumbersKnown(r)
  BY <1>0, <1>1, Creator
<1>3. CASE r.left # {}
  <2>1. PICK q \in r.left :
          b_run' = [b_run EXCEPT ![p].at = "floor", ![p].src = q, ![p].left = @ \ {q}]
    BY <1>0, <1>3 DEF Cards!NextIssue
  <2>2. PICK r2 : r2 = [r EXCEPT !.at = "floor", !.src = q, !.left = r.left \ {q}]
    OBVIOUS
  <2>3. b_run' = [b_run EXCEPT ![p] = r2]
    BY <1>0, <2>1, <2>2
  <2>4. SameBut(r2, r, {"at", "src", "left"}) /\ r2.at = "floor" /\ r2.src = q
        /\ r2.left = r.left \ {q}
    BY <1>2, <2>2 DEF SameBut, Fields
  <2>5. q \in Cards!Path /\ q[1] = "issue" /\ Known(q[2])
    BY <1>1, <1>2 DEF RunTyped, CreatesFit, NumbersKnown
  <2>6. RunTyped(r2, b_aside[p])
    BY <1>1, <1>2, <2>4, <2>5 DEF RunTyped, SameBut, Fields, Stepping
  <2>7. CreatesFit(r2)
    BY <1>1, <1>2, <2>4, <2>5 DEF CreatesFit, Creating, SameBut, Fields
  <2>8. NumbersKnown(r2)
    BY <1>1, <1>2, <2>4, <2>5 DEF NumbersKnown, SameBut, Fields
  <2>9. r2.cmd \in {"new", "promote"} /\ r2.at \notin {"reserve", "release"}
    BY <1>1, <2>4 DEF SameBut, Fields
  <2>10. r = b_run[p] /\ Creating(r) /\ Cards!Steps /\ UNCHANGED b_reservation /\ BoardKept
    BY <1>0, <1>1
  <2> QED BY <2>3, <2>6, <2>7, <2>8, <2>9, <2>10, CreateSteps
<1>4. CASE r.left = {}
  <2>1. b_run' = [b_run EXCEPT ![p] = Done(r.cmd)]
    BY <1>0, <1>4 DEF Cards!NextIssue, Cards!Ends, Done
  <2> QED BY <1>0, <1>1, <2>1, VerbEnds
<1> QED BY <1>3, <1>4

\* Every card has a number, 0 when it is no task.
LEMMA NumberIs == ASSUME CardsParameters PROVE \A c : Cards!NumberOf(c) \in Nat
  BY DEF CardsParameters, Cards!NumberOf, Cards!Number, Cards!ByHand

\* The scan for the highest number goes on: only what it has found changes.
LEMMA ScanGoes ==
  ASSUME CardsParameters, CardsInv, NEW p \in Proc, NEW r, r = b_run[p],
         r.cmd \in {"new", "promote"}, r.at \in {"floor", "walk"},
         NEW r2, b_run' = [b_run EXCEPT ![p] = r2],
         SameBut(r2, r, {"at", "number", "zones", "files"}),
         r2.at \in {"walk", "lock"}, r2.number \in Nat,
         Cards!Steps, UNCHANGED b_reservation, BoardKept
  PROVE  CardsInv'
<1>1. Creating(r)
  BY DEF Creating
<1>2. /\ RunTyped(r, b_aside[p]) /\ CreatesFit(r) /\ DOMAIN r = Fields /\ NumbersKnown(r)
  BY <1>1, Creator
<1>3. RunTyped(r2, b_aside[p])
  BY <1>2 DEF RunTyped, SameBut, Fields, Stepping
<1>4. CreatesFit(r2)
  BY <1>1, <1>2 DEF CreatesFit, Creating, SameBut, Fields
<1>5. NumbersKnown(r2)
  BY <1>2 DEF NumbersKnown, SameBut, Fields
<1>6. r2.cmd \in {"new", "promote"} /\ r2.at \notin {"reserve", "release"}
  BY DEF SameBut, Fields
<1> QED BY <1>1, <1>3, <1>4, <1>5, <1>6, CreateSteps

\* A step of the scan: where it goes, and what it has found by then.
LEMMA ScanSteps ==
  ASSUME CardsParameters, CardsInv, NEW p \in Proc, NEW r, r = b_run[p],
         Cards!Floor(p) \/ Cards!ListZone(p) \/ Cards!ReadFile(p) \/ Cards!RefFloor(p)
  PROVE  \/ Cards!GivesUp(p)
         \/ \E r2 :
              /\ b_run' = [b_run EXCEPT ![p] = r2]
              /\ SameBut(r2, r, {"at", "number", "zones", "files"})
              /\ r2.at \in {"walk", "lock"} /\ r2.number \in Nat
<1>1. r.cmd \in {"new", "promote"} /\ r.at \in {"floor", "walk"} /\ Creating(r)
  BY DEF Cards!Floor, Cards!ListZone, Cards!ReadFile, Cards!RefFloor, Cards!Walks, Creating
<1>2. /\ CreatesFit(r) /\ DOMAIN r = Fields
  BY <1>1, Creator
<1>3. r.at = "walk" => r.number \in Nat
  BY <1>1, <1>2 DEF CreatesFit
<1>4. CASE Cards!Floor(p)
  <2>1. PICK empty :
          b_run' = [b_run EXCEPT ![p].at = "walk", ![p].number = 0, ![p].files = {},
                                 ![p].zones = {q[1] : q \in DOMAIN b_board} \cup empty]
    BY <1>4 DEF Cards!Floor
  <2>2. PICK z : z = {q[1] : q \in DOMAIN b_board} \cup empty
    OBVIOUS
  <2>3. PICK r2 : r2 = [r EXCEPT !.at = "walk", !.number = 0, !.files = {}, !.zones = z]
    OBVIOUS
  <2>4. b_run' = [b_run EXCEPT ![p] = r2]
    BY <2>1, <2>2, <2>3
  <2>5. SameBut(r2, r, {"at", "number", "zones", "files"}) /\ r2.at = "walk" /\ r2.number = 0
    BY <1>2, <2>3 DEF SameBut, Fields
  <2>6. r2.at \in {"walk", "lock"} /\ r2.number \in Nat
    BY <2>5
  <2> QED BY <2>4, <2>5, <2>6
<1>5. CASE Cards!ListZone(p) /\ ~Cards!GivesUp(p)
  <2>1. PICK z, c :
          b_run' = [b_run EXCEPT ![p].zones = b_run[p].zones \ {z}, ![p].files = c]
    BY <1>5 DEF Cards!ListZone
  <2>2. PICK r2 : r2 = [r EXCEPT !.zones = r.zones \ {z}, !.files = c]
    OBVIOUS
  <2>3. b_run' = [b_run EXCEPT ![p] = r2]
    BY <2>1, <2>2
  <2>4. SameBut(r2, r, {"at", "number", "zones", "files"}) /\ r2.at = r.at
        /\ r2.number = r.number
    BY <1>2, <2>2 DEF SameBut, Fields
  <2>5. r.at = "walk"
    BY <1>5 DEF Cards!ListZone, Cards!Walks
  <2> QED BY <1>3, <2>3, <2>4, <2>5
<1>6. CASE Cards!ReadFile(p)
  <2>1. r.at = "walk"
    BY <1>6 DEF Cards!ReadFile, Cards!Walks
  <2>2. PICK q \in r.files :
          b_run' = [b_run EXCEPT ![p].files = b_run[p].files \ {q},
                                 ![p].number = IF Cards!Has(q)
                                   THEN Cards!Higher(b_run[p].number, Cards!NumberOf(q[2]))
                                   ELSE b_run[p].number]
    BY <1>6 DEF Cards!ReadFile
  <2>3. PICK n : n = IF Cards!Has(q) THEN Cards!Higher(r.number, Cards!NumberOf(q[2]))
                     ELSE r.number
    OBVIOUS
  <2>4. n \in Nat
    BY <1>3, <2>1, <2>3, NumberIs DEF Cards!Higher
  <2>5. PICK r2 : r2 = [r EXCEPT !.files = r.files \ {q}, !.number = n]
    OBVIOUS
  <2>6. b_run' = [b_run EXCEPT ![p] = r2]
    BY <2>2, <2>3, <2>5
  <2>7. SameBut(r2, r, {"at", "number", "zones", "files"}) /\ r2.at = r.at /\ r2.number = n
    BY <1>2, <2>5 DEF SameBut, Fields
  <2> QED BY <2>1, <2>4, <2>6, <2>7
<1>7. CASE Cards!RefFloor(p)
  <2>1. r.at = "walk"
    BY <1>7 DEF Cards!RefFloor, Cards!Walks
  <2>2. PICK n : n = Cards!Higher(r.number, RefHighest)
    OBVIOUS
  <2>3. n \in Nat
    BY <1>3, <2>1, <2>2 DEF Cards!Higher, CardsParameters
  <2>4. PICK r2 : r2 = [r EXCEPT !.at = "lock", !.number = n]
    OBVIOUS
  <2>5. b_run' = [b_run EXCEPT ![p] = r2]
    BY <1>7, <2>2, <2>4 DEF Cards!RefFloor
  <2>6. SameBut(r2, r, {"at", "number", "zones", "files"}) /\ r2.at = "lock" /\ r2.number = n
    BY <1>2, <2>4 DEF SameBut, Fields
  <2> QED BY <2>3, <2>5, <2>6
<1> QED BY <1>4, <1>5, <1>6, <1>7

LEMMA ScanStepsKeep ==
  ASSUME CardsParameters, CardsInv, NEW p \in Proc,
         Cards!Floor(p) \/ Cards!ListZone(p) \/ Cards!ReadFile(p) \/ Cards!RefFloor(p)
  PROVE  CardsInv'
<1>0. PICK r : r = b_run[p]
  OBVIOUS
<1>1. /\ r.cmd \in {"new", "promote"} /\ r.at \in {"floor", "walk"} /\ Creating(r)
      /\ Cards!Steps /\ UNCHANGED b_reservation /\ BoardKept
  BY <1>0 DEF Cards!Floor, Cards!ListZone, Cards!ReadFile, Cards!RefFloor, Cards!Walks, Creating,
     BoardKept
<1>2. CASE Cards!GivesUp(p)
  <2>1. Numbered
    BY <1>1 DEF CardsInv, BoardFits, Numbered, CardsParameters
  <2> QED BY <1>0, <1>1, <1>2, <2>1, GivesUpKeeps
<1>3. CASE \E r2 : /\ b_run' = [b_run EXCEPT ![p] = r2]
                   /\ SameBut(r2, r, {"at", "number", "zones", "files"})
                   /\ r2.at \in {"walk", "lock"} /\ r2.number \in Nat
  BY <1>0, <1>1, <1>3, ScanGoes
<1> QED BY <1>0, <1>2, <1>3, ScanSteps

LEMMA TakeSentinelKeeps ==
  ASSUME CardsParameters, CardsInv, NEW p \in Proc, Cards!TakeSentinel(p) PROVE CardsInv'
<1>0. PICK r : r = b_run[p]
  OBVIOUS
<1>1. r.cmd \in {"new", "promote"} /\ r.at = "lock" /\ Creating(r)
      /\ Cards!Steps /\ BoardKept
  BY <1>0 DEF Cards!TakeSentinel, Creating, BoardKept
<1>2. /\ RunTyped(r, b_aside[p]) /\ CreatesFit(r) /\ DOMAIN r = Fields /\ NumbersKnown(r)
      /\ Bare(b_aside[p]) /\ ~Holding(r) /\ BoardFits
  BY <1>0, <1>1, Creator
<1>3. CASE b_reservation.holder = None
  <2>1. b_reservation' = [b_reservation EXCEPT !.holder = p] /\ Cards!Goes(p, "reserve")
    BY <1>3 DEF Cards!TakeSentinel
  <2>2. PICK r2 : r2 = [r EXCEPT !.at = "reserve"]
    OBVIOUS
  <2>3. b_run' = [b_run EXCEPT ![p] = r2]
    BY <1>0, <2>1, <2>2 DEF Cards!Goes
  <2>4. SameBut(r2, r, {"at"}) /\ r2.at = "reserve"
    BY <1>2, <2>2 DEF SameBut, Fields
  <2>5. Numbered /\ b_reservation'.holder = p
    BY <1>2, <2>1 DEF BoardFits, Numbered, CardsParameters
  <2>6. RunTyped(r2, b_aside[p])
    BY <1>1, <1>2, <2>4 DEF RunTyped, SameBut, Fields, Stepping
  <2>7. CreatesFit(r2)
    BY <1>1, <1>2, <2>4 DEF CreatesFit, Creating, SameBut, Fields
  <2>8. NumbersKnown(r2)
    BY <1>1, <1>2, <2>4 DEF NumbersKnown, SameBut, Fields
  <2>9. NumbersKnown(r2)'
    BY <1>2, <2>5, <2>8, KnownGrows
  <2>10. r2.cmd \in {"new", "promote"}
    BY <1>1, <2>4 DEF SameBut, Fields
  <2>11. r = b_run[p] /\ ~Holding(r) /\ Bare(b_aside[p]) /\ Cards!Steps /\ BoardKept
    BY <1>0, <1>1, <1>2
  <2> QED BY <1>3, <2>3, <2>5, <2>6, <2>7, <2>9, <2>10, <2>11, CreateGoes
<1>4. CASE b_reservation.holder # None
  <2>1. Cards!GivesUp(p) /\ UNCHANGED b_reservation
    BY <1>4 DEF Cards!TakeSentinel
  <2>2. Numbered
    BY <1>2, <2>1 DEF BoardFits, Numbered, CardsParameters
  <2> QED BY <1>0, <1>1, <2>1, <2>2, GivesUpKeeps
<1> QED BY <1>3, <1>4

LEMMA ReserveKeeps ==
  ASSUME CardsParameters, CardsInv, NEW p \in Proc, Cards!Reserve(p) PROVE CardsInv'
<1>0. PICK r, next : r = b_run[p] /\ next = Cards!Reached(p) + 1
  OBVIOUS
<1>1. r.cmd \in {"new", "promote"} /\ r.at = "reserve" /\ Creating(r)
      /\ Cards!Steps /\ BoardKept
  BY <1>0 DEF Cards!Reserve, Creating, BoardKept
<1>2. /\ RunTyped(r, b_aside[p]) /\ CreatesFit(r) /\ DOMAIN r = Fields /\ NumbersKnown(r)
      /\ Bare(b_aside[p]) /\ ~Holding(r) /\ BoardFits /\ b_reservation.holder = p
  BY <1>0, <1>1, Creator
<1>3. next \in Nat /\ next > 0 /\ next > b_reservation.highest
  <2>1. r.number \in Nat /\ b_reservation.highest \in Nat
    BY <1>1, <1>2 DEF CreatesFit, BoardFits
  <2> QED BY <1>0, <2>1 DEF Cards!Reached, Cards!Higher
<1>4. CASE next <= MaxNumber
  <2>1. /\ b_reservation' = [b_reservation EXCEPT !.highest = next]
        /\ b_run' = [b_run EXCEPT ![p].at = "release", ![p].number = next]
    BY <1>0, <1>3, <1>4 DEF Cards!Reserve, CardsParameters
  <2>2. PICK r2 : r2 = [r EXCEPT !.at = "release", !.number = next]
    OBVIOUS
  <2>3. b_run' = [b_run EXCEPT ![p] = r2]
    BY <1>0, <2>1, <2>2
  <2>4. SameBut(r2, r, {"at", "number"}) /\ r2.at = "release" /\ r2.number = next
    BY <1>2, <2>2 DEF SameBut, Fields
  <2>5. /\ b_reservation' \in [holder : Proc \cup {None}, highest : 0..MaxNumber]
        /\ b_reservation'.holder = p /\ b_reservation'.highest = next
    BY <1>2, <1>3, <1>4, <2>1 DEF BoardFits
  <2>6. Numbered /\ Known(next)'
    BY <1>2, <1>3, <1>4, <2>5 DEF BoardFits, Numbered, Known, CardsParameters
  <2>7. RunTyped(r2, b_aside[p])
    BY <1>1, <1>2, <1>3, <1>4, <2>4 DEF RunTyped, SameBut, Fields, Stepping
  <2>8. CreatesFit(r2)
    <3>1. next \in Cards!Number
      BY <1>3, <1>4 DEF Cards!Number
    <3> QED BY <1>1, <1>2, <2>4, <3>1 DEF CreatesFit, Creating, SameBut, Fields
  <2>9. NumbersKnown(r2)'
    <3>1. NumbersKnown(r)'
      BY <1>2, <2>6, KnownGrows
    <3> QED BY <1>1, <2>4, <2>6, <3>1 DEF NumbersKnown, SameBut, Fields
  <2>10. r2.cmd \in {"new", "promote"}
    BY <1>1, <2>4 DEF SameBut, Fields
  <2>11. r = b_run[p] /\ ~Holding(r) /\ Bare(b_aside[p]) /\ Cards!Steps /\ BoardKept
    BY <1>0, <1>1, <1>2
  <2> QED BY <1>2, <2>3, <2>5, <2>6, <2>7, <2>8, <2>9, <2>10, <2>11, CreateGoes
<1>5. CASE next > MaxNumber
  <2>1. b_reservation' = [b_reservation EXCEPT !.holder = None] /\ Cards!GivesUp(p)
    BY <1>0, <1>5 DEF Cards!Reserve
  <2>2. Numbered
    BY <1>2, <2>1 DEF BoardFits, Numbered, CardsParameters
  <2> QED BY <1>0, <1>1, <1>2, <2>1, <2>2, GivesUpKeeps
<1> QED BY <1>3, <1>4, <1>5 DEF CardsParameters

LEMMA ReleaseKeeps ==
  ASSUME CardsParameters, CardsInv, NEW p \in Proc, Cards!Release(p) PROVE CardsInv'
<1>0. PICK r, r2 : r = b_run[p] /\ r2 = [r EXCEPT !.at = "write"]
  OBVIOUS
<1>1. r.cmd \in {"new", "promote"} /\ r.at = "release" /\ Creating(r)
      /\ Cards!Steps /\ BoardKept
  BY <1>0 DEF Cards!Release, Creating, BoardKept
<1>2. /\ RunTyped(r, b_aside[p]) /\ CreatesFit(r) /\ DOMAIN r = Fields /\ NumbersKnown(r)
      /\ Bare(b_aside[p]) /\ ~Holding(r) /\ BoardFits /\ b_reservation.holder = p
  BY <1>0, <1>1, Creator
<1>3. b_run' = [b_run EXCEPT ![p] = r2]
  BY <1>0 DEF Cards!Release, Cards!Goes
<1>4. SameBut(r2, r, {"at"}) /\ r2.at = "write"
  BY <1>0, <1>2 DEF SameBut, Fields
<1>5. Numbered
  BY <1>2 DEF BoardFits, Numbered, CardsParameters, Cards!Release
<1>6. RunTyped(r2, b_aside[p])
  BY <1>1, <1>2, <1>4 DEF RunTyped, SameBut, Fields, Stepping
<1>7. CreatesFit(r2)
  BY <1>1, <1>2, <1>4 DEF CreatesFit, Creating, SameBut, Fields
<1>8. NumbersKnown(r2)
  BY <1>1, <1>2, <1>4 DEF NumbersKnown, SameBut, Fields
<1>9. NumbersKnown(r2)'
  BY <1>2, <1>5, <1>8, KnownGrows
<1>10. r2.cmd \in {"new", "promote"} /\ r2.at \notin {"reserve", "release"}
  BY <1>1, <1>4 DEF SameBut, Fields
<1>11. r = b_run[p] /\ ~Holding(r) /\ Bare(b_aside[p]) /\ Cards!Steps /\ BoardKept
       /\ b_reservation.holder = p
  BY <1>0, <1>1, <1>2
<1> QED BY <1>3, <1>5, <1>6, <1>7, <1>9, <1>10, <1>11, CreateGoes

\* A command has seen one more file.
LEMMA SeesMade ==
  ASSUME NEW p, NEW q, NEW t
  PROVE  SeenToo(Cards!SeesToo(p, [x \in {q} |-> t]), b_run[p].seen, q, t)
  BY DEF Cards!SeesToo, SeenToo

LEMMA WriteNewKeeps ==
  ASSUME CardsParameters, CardsInv, NEW p \in Proc, Cards!WriteNew(p) PROVE CardsInv'
<1>0. PICK r, q : r = b_run[p] /\ q = <<"todo", r.number>>
  OBVIOUS
<1>1. r.cmd \in {"new", "promote"} /\ r.at = "write" /\ Creating(r)
      /\ Cards!Steps /\ UNCHANGED b_reservation
  BY <1>0 DEF Cards!WriteNew, Creating
<1>2. /\ RunTyped(r, b_aside[p]) /\ CreatesFit(r) /\ DOMAIN r = Fields /\ NumbersKnown(r)
      /\ BoardFits
  BY <1>0, <1>1, Creator
<1>3. /\ r.number \in Cards!Number \cup Cards!ByHand /\ Known(r.number) /\ r.number \in Int
      /\ r.cmd = "promote" => r.number \in Cards!Number
  BY <1>1, <1>2 DEF RunTyped, CreatesFit, NumbersKnown
<1>4. /\ q \in Cards!Path /\ q # Cards!Replacement /\ q[2] = r.number
      /\ r.cmd = "promote" => q \in {"todo"} \X Cards!Number
  BY <1>0, <1>3, Places DEF Cards!Path, Cards!Zone, Cards!Card
<1>5. CASE Cards!Has(q)
  <2>1. BoardKept /\ Cards!GivesUp(p)
    BY <1>0, <1>5 DEF Cards!WriteNew, BoardKept
  <2>2. Numbered
    BY <1>1, <1>2 DEF BoardFits, Numbered, CardsParameters
  <2> QED BY <1>0, <1>1, <2>1, <2>2, GivesUpKeeps
<1>6. CASE ~Cards!Has(q)
  <2>1. b_board' = Cards!Put(b_board, q, Cards!NewCard)
    BY <1>0, <1>6 DEF Cards!WriteNew
  <2>2. OnePut
    <3>1. Cards!NewCard \in Cards!Text
      BY Texts
    <3>2. Known(q[2])'
      BY <1>1, <1>3, <1>4, KnownStays
    <3> QED BY <1>4, <2>1, <3>1, <3>2 DEF OnePut
  <2>3. CASE r.cmd = "new"
    <3>1. b_run' = [b_run EXCEPT ![p] = Done(r.cmd)]
      BY <1>0, <1>6, <2>3 DEF Cards!WriteNew, Cards!Ends, Done
    <3> QED BY <1>0, <1>1, <2>2, <3>1, VerbEnds
  <2>4. CASE r.cmd = "promote"
    <3>0. PICK r2, s : /\ r2 = [r EXCEPT !.at = "stamp", !.made = r.made \cup {q}, !.seen = s]
                       /\ s = Cards!SeesToo(p, [x \in {q} |-> Cards!NewCard])
      OBVIOUS
    <3>1. b_run' = [b_run EXCEPT ![p] = r2]
      BY <1>0, <1>6, <2>4, <3>0 DEF Cards!WriteNew
    <3>2. /\ SameBut(r2, r, {"at", "made", "seen"}) /\ r2.at = "stamp"
          /\ r2.made = r.made \cup {q} /\ r2.seen = s
      BY <1>2, <3>0 DEF SameBut, Fields
    <3>3. RunTyped(r2, b_aside[p])
      BY <1>1, <1>2, <1>4, <2>4, <3>2 DEF RunTyped, SameBut, Fields, Stepping
    <3>4. SeenToo(s, r.seen, q, Cards!NewCard) /\ Cards!NewCard.by = Made
      BY <1>0, <3>0, SeesMade, Texts
    <3>5. CreatesFit(r2)
      <4>1. \A y \in r2.made : y \in DOMAIN r2.seen /\ r2.seen[y].by = Made
        BY <1>1, <1>2, <1>3, <1>4, <3>2, <3>4 DEF CreatesFit, SeenToo
      <4>2. r.text = None
        BY <1>1, <1>2 DEF CreatesFit
      <4> QED BY <1>1, <1>2, <1>3, <2>4, <3>2, <4>1, <4>2 DEF CreatesFit, SameBut, Fields
    <3>6. NumbersKnown(r2)
      BY <1>1, <1>2, <1>3, <3>2 DEF NumbersKnown, SameBut, Fields, Creating
    <3>7. r2.cmd \in {"new", "promote"} /\ r2.at \notin {"reserve", "release"}
      BY <1>1, <3>2 DEF SameBut, Fields
    <3>8. r = b_run[p] /\ Creating(r) /\ Cards!Steps /\ UNCHANGED b_reservation
      BY <1>0, <1>1
    <3> QED BY <2>2, <3>1, <3>3, <3>5, <3>6, <3>7, <3>8, CreateSteps
  <2> QED BY <1>1, <2>3, <2>4
<1> QED BY <1>5, <1>6

LEMMA ReadIssueKeeps ==
  ASSUME CardsParameters, CardsInv, NEW p \in Proc, Cards!ReadIssue(p) PROVE CardsInv'
<1>0. PICK r, q : r = b_run[p] /\ q = r.src
  OBVIOUS
<1>1. r.cmd = "promote" /\ r.at = "stamp" /\ Creating(r)
      /\ Cards!Steps /\ UNCHANGED b_reservation /\ BoardKept
  BY <1>0 DEF Cards!ReadIssue, Cards!Is, Creating, BoardKept
<1>2. /\ RunTyped(r, b_aside[p]) /\ CreatesFit(r) /\ DOMAIN r = Fields /\ NumbersKnown(r)
      /\ BoardFits /\ Filed(b_board)
  BY <1>0, <1>1, Creator
<1>3. CASE Cards!Has(q)
  <2>0. PICK r2, x, s : /\ r2 = [r EXCEPT !.text = x, !.seen = s]
                        /\ x = b_board[q] /\ s = Cards!SeesToo(p, Cards!Looked(q))
    OBVIOUS
  <2>1. b_run' = [b_run EXCEPT ![p] = r2]
    BY <1>0, <1>3, <2>0 DEF Cards!ReadIssue
  <2>2. SameBut(r2, r, {"text", "seen"}) /\ r2.text = x /\ r2.seen = s
    BY <1>2, <2>0 DEF SameBut, Fields
  <2>3. x \in Cards!Text /\ SeenToo(s, r.seen, q, x)
    <3>1. SeenToo(s, r.seen, q, Cards!At(b_board, q))
      BY <1>0, <2>0, Looks
    <3> QED BY <1>2, <1>3, <2>0, <3>1 DEF Filed, Cards!Has, Cards!At
  <2>4. RunTyped(r2, b_aside[p])
    BY <1>1, <1>2, <2>2, <2>3 DEF RunTyped, SameBut, Fields
  <2>5. CreatesFit(r2)
    <3>1. Read(r2, q)
      BY <2>2, <2>3 DEF Read, SeenToo
    <3>2. q \notin r.made
      BY <1>0, <1>1, <1>2 DEF RunTyped, CreatesFit
    <3>3. \A y \in r.made : y \in DOMAIN s /\ s[y].by = Made
      BY <1>1, <1>2, <2>3, <3>2 DEF CreatesFit, SeenToo
    <3> QED BY <1>0, <1>1, <1>2, <2>2, <3>1, <3>3 DEF CreatesFit, SameBut, Fields
  <2>6. NumbersKnown(r2)
    BY <1>1, <1>2, <2>2 DEF NumbersKnown, SameBut, Fields, Creating
  <2>7. r2.cmd \in {"new", "promote"} /\ r2.at \notin {"reserve", "release"}
    BY <1>1, <2>2 DEF SameBut, Fields
  <2>8. r = b_run[p] /\ Creating(r) /\ Cards!Steps /\ UNCHANGED b_reservation /\ BoardKept
    BY <1>0, <1>1
  <2> QED BY <2>1, <2>4, <2>5, <2>6, <2>7, <2>8, CreateSteps
<1>4. CASE ~Cards!Has(q)
  <2>1. Cards!GivesUp(p)
    BY <1>0, <1>4 DEF Cards!ReadIssue
  <2>2. Numbered
    BY <1>1, <1>2 DEF BoardFits, Numbered, CardsParameters
  <2> QED BY <1>0, <1>1, <2>1, <2>2, GivesUpKeeps
<1> QED BY <1>3, <1>4

LEMMA WriteIssueKeeps ==
  ASSUME CardsParameters, CardsInv, NEW p \in Proc, Cards!WriteIssue(p) PROVE CardsInv'
<1>0. PICK r, q : r = b_run[p] /\ q = r.src
  OBVIOUS
<1>1. r.cmd = "promote" /\ r.at = "stamp" /\ Creating(r) /\ r.text # None
      /\ Cards!Steps /\ UNCHANGED b_reservation
  BY <1>0 DEF Cards!WriteIssue, Cards!Is, Creating
<1>2. /\ RunTyped(r, b_aside[p]) /\ CreatesFit(r) /\ DOMAIN r = Fields /\ NumbersKnown(r)
  BY <1>0, <1>1, Creator
<1>3. q \in Cards!Path /\ q[1] = "issue" /\ Known(q[2]) /\ r.number \in Cards!Number
  BY <1>0, <1>1, <1>2 DEF RunTyped, CreatesFit, NumbersKnown
<1>4. OnePut
  <2>1. PICK new : new = [r.text EXCEPT !.promoted = r.text.promoted \cup {r.number}]
    OBVIOUS
  <2>2. b_board' = Cards!Put(b_board, q, new)
    BY <1>0, <2>1 DEF Cards!WriteIssue
  <2>3. new \in Cards!Text
    <3>1. r.text \in Cards!Text
      BY <1>1, <1>2 DEF RunTyped
    <3> QED BY <1>3, <2>1, <3>1 DEF Cards!Text
  <2>4. Known(q[2])' /\ q # Cards!Replacement
    BY <1>1, <1>3, KnownStays, Places
  <2> QED BY <1>3, <2>2, <2>3, <2>4 DEF OnePut
<1>5. PICK r2 : r2 = [r EXCEPT !.at = "next", !.text = None]
  OBVIOUS
<1>6. b_run' = [b_run EXCEPT ![p] = r2]
  BY <1>0, <1>5 DEF Cards!WriteIssue
<1>7. SameBut(r2, r, {"at", "text"}) /\ r2.at = "next" /\ r2.text = None
  BY <1>2, <1>5 DEF SameBut, Fields
<1>8. RunTyped(r2, b_aside[p])
  BY <1>1, <1>2, <1>7 DEF RunTyped, SameBut, Fields, Stepping
<1>9. CreatesFit(r2)
  BY <1>1, <1>2, <1>7 DEF CreatesFit, Creating, SameBut, Fields
<1>10. NumbersKnown(r2)
  BY <1>1, <1>2, <1>7 DEF NumbersKnown, SameBut, Fields
<1>11. r2.cmd \in {"new", "promote"} /\ r2.at \notin {"reserve", "release"}
  BY <1>1, <1>7 DEF SameBut, Fields
<1>12. r = b_run[p] /\ Creating(r) /\ Cards!Steps /\ UNCHANGED b_reservation
  BY <1>0, <1>1
<1> QED BY <1>4, <1>6, <1>8, <1>9, <1>10, <1>11, <1>12, CreateSteps

LEMMA UndoKeeps ==
  ASSUME CardsParameters, CardsInv, NEW p \in Proc, Cards!Undo(p) PROVE CardsInv'
<1>0. PICK r : r = b_run[p]
  OBVIOUS
<1>1. r.cmd = "promote" /\ r.at = "undo" /\ Creating(r)
      /\ Cards!Steps /\ UNCHANGED b_reservation
  BY <1>0 DEF Cards!Undo, Cards!Is, Creating
<1>2. /\ RunTyped(r, b_aside[p]) /\ CreatesFit(r) /\ DOMAIN r = Fields /\ NumbersKnown(r)
  BY <1>0, <1>1, Creator
<1>3. CASE r.made # {}
  <2>1. PICK q \in r.made : /\ b_board' = Cards!Without(b_board, q)
                            /\ b_run' = [b_run EXCEPT ![p].made = @ \ {q}]
    BY <1>0, <1>3 DEF Cards!Undo
  <2>2. OneGone(p)
    <3>1. q[2] # DoingTask
      BY <1>2, Places DEF RunTyped, Cards!Number
    <3> QED BY <2>1, <3>1 DEF OneGone
  <2>3. PICK r2 : r2 = [r EXCEPT !.made = r.made \ {q}]
    OBVIOUS
  <2>4. b_run' = [b_run EXCEPT ![p] = r2]
    BY <1>0, <2>1, <2>3
  <2>5. SameBut(r2, r, {"made"}) /\ r2.made = r.made \ {q}
    BY <1>2, <2>3 DEF SameBut, Fields
  <2>6. RunTyped(r2, b_aside[p])
    BY <1>1, <1>2, <2>5 DEF RunTyped, SameBut, Fields
  <2>7. CreatesFit(r2)
    BY <1>1, <1>2, <2>5 DEF CreatesFit, Creating, SameBut, Fields
  <2>8. NumbersKnown(r2)
    BY <1>1, <1>2, <2>5 DEF NumbersKnown, SameBut, Fields
  <2>9. r2.cmd \in {"new", "promote"} /\ r2.at \notin {"reserve", "release"}
    BY <1>1, <2>5 DEF SameBut, Fields
  <2>10. r = b_run[p] /\ Creating(r) /\ Cards!Steps /\ UNCHANGED b_reservation
    BY <1>0, <1>1
  <2> QED BY <2>2, <2>4, <2>6, <2>7, <2>8, <2>9, <2>10, CreateSteps
<1>4. CASE r.made = {}
  <2>1. b_run' = [b_run EXCEPT ![p] = Done(r.cmd)] /\ BoardKept
    BY <1>0, <1>4 DEF Cards!Undo, Cards!Ends, Done, BoardKept
  <2> QED BY <1>0, <1>1, <2>1, VerbEnds
<1> QED BY <1>3, <1>4

-----------------------------------------------------------------------------
(* The lock of the maintenance commands; kills, saves, executions.         *)

\* What a command that holds the lock may rest on between its steps.
LEMMA Holder ==
  ASSUME CardsParameters, CardsInv, NEW p \in Proc, NEW r, NEW a, r = b_run[p], a = b_aside[p],
         Holding(r)
  PROVE  /\ RunFits(r, a) /\ RunTyped(r, a) /\ DOMAIN r = Fields /\ NumbersKnown(r)
         /\ r.cmd \in {"reconcile", "cleanup", "maintain"} /\ b_lock = p /\ Taken(a)
         /\ r.cmd = "cleanup" => ~Cards!Blocked
         /\ r.cmd = "maintain" => ~Exchanged /\ Bare(a)
         /\ BoardFits /\ Filed(b_board) /\ \A q \in DOMAIN b_board : Known(q[2])
<1>1. /\ RunFits(r, a) /\ RunHolds(p, r) /\ BoardFits
      /\ Filed(b_board) /\ \A q \in DOMAIN b_board : Known(q[2])
  BY DEF CardsInv, BoardFits
<1>2. RunTyped(r, a) /\ RestoreFits(r, a)
  BY <1>1 DEF RunFits
<1> QED BY <1>1, <1>2 DEF RunHolds, RunTyped, RestoreFits, Holding

\* Such a command goes on.
LEMMA HolderGoes ==
  ASSUME CardsParameters, CardsInv, NEW p \in Proc, NEW r, NEW r2, NEW a2,
         r = b_run[p], Holding(r), b_run' = [b_run EXCEPT ![p] = r2],
         UNCHANGED <<b_lock, b_reservation, b_evidence, b_retained>>, b_acts' \in 0..MaxActs,
         SetAside(p, a2), (BoardKept \/ OnePut \/ OneGone(p) \/ Moves),
         RunFits(r2, a2), r2.cmd = r.cmd, Holding(r2), NumbersKnown(r2),
         (r2.cmd = "maintain" /\ r2.at = "swap" => Lying(DoingTask)' # {})
  PROVE  CardsInv'
<1>1. PICK a : a = b_aside[p]
  OBVIOUS
<1>2. /\ b_lock = p /\ (r.cmd = "cleanup" => ~Cards!Blocked)
      /\ (r.cmd = "maintain" => ~Exchanged) /\ BoardFits
  BY <1>1, Holder
<1>3. Numbered /\ b_lock' \in Proc \cup {None} /\ b_evidence' = b_evidence
      /\ b_retained' = b_retained
  BY <1>2 DEF BoardFits, Numbered, CardsParameters
<1>4. BoardFits'
  BY <1>2, <1>3, BoardSteps
<1>5. Apart(p)
  BY <1>2, <1>3 DEF Apart, Numbered
<1>6. NumbersKnown(r2)'
  BY KnownStays
<1>7. ~Creating(r2) /\ ~Carrying(r2)
  BY DEF Holding, Creating, Carrying
<1>8. /\ (r2.cmd = "cleanup" => ~Cards!Blocked') /\ (r2.cmd = "maintain" => ~Exchanged')
  BY <1>2, <1>3 DEF Cards!Blocked, Exchanged
<1>9. RunHolds(p, r2)'
  BY <1>2, <1>6, <1>7, <1>8 DEF RunHolds
<1> QED BY <1>4, <1>5, <1>9, Advances

\* It ends, and gives the lock back.
LEMMA HolderStops ==
  ASSUME CardsParameters, CardsInv, NEW p \in Proc, NEW r, NEW a2,
         r = b_run[p], Holding(r), Cards!Stops(p),
         UNCHANGED <<b_reservation, b_evidence, b_retained>>, b_acts' \in 0..MaxActs,
         SetAside(p, a2), (BoardKept \/ OnePut \/ OneGone(p) \/ Moves),
         Taken(a2), (r.cmd = "maintain" => Bare(a2))
  PROVE  CardsInv'
<1>1. PICK a, e : a = b_aside[p] /\ e = Done(r.cmd)
  OBVIOUS
<1>2. b_lock = p /\ BoardFits /\ r.cmd \in {"reconcile", "cleanup", "maintain"}
  BY <1>1, Holder
<1>3. b_run' = [b_run EXCEPT ![p] = e] /\ b_lock' = None
  BY <1>1, <1>2 DEF Cards!Stops, Cards!Ends, Cards!Unlocks, Done
<1>4. Numbered /\ b_lock' \in Proc \cup {None} /\ b_evidence' = b_evidence
      /\ b_retained' = b_retained /\ None \notin Proc
  BY <1>2, <1>3 DEF BoardFits, Numbered, CardsParameters
<1>5. BoardFits'
  BY <1>2, <1>3, <1>4, BoardSteps
<1>6. Apart(p)
  BY <1>2, <1>3, <1>4 DEF Apart, Numbered
<1>7. Stepping(r.cmd, "end") /\ (r.cmd \notin {"reconcile", "cleanup"} => Bare(a2))
  BY <1>2 DEF Stepping
<1>8. /\ RunFits(e, a2) /\ NumbersKnown(e)' /\ ~Holding(e) /\ ~Creating(e) /\ ~Carrying(e)
      /\ e.at = "end"
  BY <1>1, <1>7, DoneFits, DoneIs
<1>9. RunHolds(p, e)'
  BY <1>3, <1>4, <1>8 DEF RunHolds
<1> QED BY <1>3, <1>5, <1>6, <1>8, <1>9, Advances

\* A command takes the lock.
LEMMA LockTaken ==
  ASSUME CardsParameters, CardsInv, NEW p \in Proc, NEW r2,
         b_run' = [b_run EXCEPT ![p] = r2], b_lock = None, b_lock' = p,
         UNCHANGED <<b_reservation, b_evidence, b_retained, b_acts, b_aside>>, BoardKept,
         RunFits(r2, b_aside[p]), Holding(r2), NumbersKnown(r2),
         (r2.cmd = "cleanup" => ~Cards!Blocked),
         (r2.cmd = "maintain" => ~Exchanged /\ r2.at # "swap")
  PROVE  CardsInv'
<1>1. PICK a : a = b_aside[p]
  OBVIOUS
<1>2. BoardFits /\ b_acts' \in 0..MaxActs /\ SetAside(p, a)
  BY <1>1 DEF CardsInv, BoardFits, SetAside
<1>3. Numbered /\ b_lock' \in Proc \cup {None} /\ b_evidence' = b_evidence
      /\ b_retained' = b_retained /\ None \notin Proc
  BY <1>2 DEF BoardFits, Numbered, CardsParameters
<1>4. BoardFits' /\ (Lying(DoingTask) # {} /\ b_lock # p => Lying(DoingTask)' # {})
  BY <1>2, <1>3, BoardSteps
<1>5. Apart(p)
  BY <1>3, <1>4 DEF Apart, Numbered
<1>6. NumbersKnown(r2)'
  BY KnownStays
<1>7. ~Creating(r2) /\ ~Carrying(r2)
  BY DEF Holding, Creating, Carrying
<1>8. /\ (r2.cmd = "cleanup" => ~Cards!Blocked') /\ (r2.cmd = "maintain" => ~Exchanged')
  BY <1>3 DEF Cards!Blocked, Exchanged
<1>9. RunHolds(p, r2)'
  BY <1>6, <1>7, <1>8 DEF RunHolds
<1>10. RunFits(r2, a)
  BY <1>1
<1> QED BY <1>2, <1>4, <1>5, <1>9, <1>10, Advances

\* Editors and executions leave the commands as they are.
LEMMA OthersAct ==
  ASSUME CardsParameters, CardsInv,
         UNCHANGED <<b_run, b_aside, b_lock, b_reservation, b_retained>>, BoardFits',
         Lying(DoingTask) # {} => Lying(DoingTask)' # {},
         b_evidence' = b_evidence \/ b_lock = None
  PROVE  CardsInv'
<1>1. ASSUME NEW o \in Proc PROVE RunFits(b_run'[o], b_aside'[o]) /\ RunHolds(o, b_run[o])'
  <2>1. PICK r : r = b_run[o] /\ r = b_run'[o]
    OBVIOUS
  <2>2. RunFits(r, b_aside'[o]) /\ RunHolds(o, r)
    BY <2>1 DEF CardsInv
  <2>3. NumbersKnown(r)'
    BY <2>2, KnownStays DEF RunHolds
  <2>4. Holding(r) => b_lock = o /\ None # o
    BY <2>2 DEF RunHolds, CardsParameters
  <2>5. r.cmd = "cleanup" /\ Holding(r) => ~Cards!Blocked'
    BY <2>2, <2>4 DEF RunHolds, Cards!Blocked
  <2>6. r.cmd = "maintain" /\ r.at = "swap" => Lying(DoingTask)' # {}
    BY <2>2 DEF RunHolds
  <2>7. RunHolds(o, r)'
    BY <2>2, <2>3, <2>5, <2>6 DEF RunHolds, Exchanged
  <2> QED BY <2>1, <2>2, <2>7
<1> QED BY <1>1 DEF CardsInv

LEMMA KillKeeps ==
  ASSUME CardsParameters, CardsInv, NEW p \in Proc, Cards!Kill(p) PROVE CardsInv'
<1>1. PICK r, a, e : r = b_run[p] /\ a = b_aside[p] /\ e = Done(r.cmd)
  OBVIOUS
<1>2. /\ RunFits(r, a) /\ RunHolds(p, r) /\ BoardFits
  BY <1>1 DEF CardsInv
<1>3. b_run' = [b_run EXCEPT ![p] = e] /\ b_lock' = IF b_lock = p THEN None ELSE b_lock
  BY <1>1 DEF Cards!Kill, Cards!Ends, Cards!Unlocks, Done
<1>4. /\ Numbered /\ b_lock' \in Proc \cup {None} /\ b_evidence' = b_evidence
      /\ b_retained' = b_retained /\ None \notin Proc /\ SetAside(p, a) /\ b_acts' \in 0..MaxActs
      /\ BoardKept
  BY <1>1, <1>2, <1>3 DEF BoardFits, Numbered, CardsParameters, Cards!Kill, SetAside, BoardKept
<1>5. BoardFits' /\ (Lying(DoingTask) # {} /\ b_lock # p => Lying(DoingTask)' # {})
  BY <1>2, <1>3, <1>4, BoardSteps
<1>6. Apart(p)
  BY <1>3, <1>4, <1>5 DEF Apart, Numbered, Cards!Kill
<1>7. /\ Stepping(r.cmd, "end") /\ (r.cmd \notin {"reconcile", "cleanup"} => Bare(a)) /\ Taken(a)
  BY <1>2 DEF RunFits, RunTyped, RestoreFits, Stepping
<1>8. /\ RunFits(e, a) /\ NumbersKnown(e)' /\ ~Holding(e) /\ ~Creating(e) /\ ~Carrying(e)
      /\ e.at = "end"
  BY <1>1, <1>7, DoneFits, DoneIs
<1>9. RunHolds(p, e)'
  BY <1>3, <1>4, <1>8 DEF RunHolds
<1> QED BY <1>3, <1>4, <1>5, <1>6, <1>8, <1>9, Advances

LEMMA SaveKeeps ==
  ASSUME CardsParameters, CardsInv, NEW q \in Cards!Path, Cards!Save(q) PROVE CardsInv'
<1>0. BoardFits
  BY DEF CardsInv
<1>1. PICK old, new : /\ old = IF Cards!Has(q) THEN b_board[q]
                               ELSE [Cards!First EXCEPT !.cell = q[1], !.word = q[1]]
                      /\ new = [old EXCEPT !.by = b_acts + 1]
  OBVIOUS
<1>2. b_board' = Cards!Put(b_board, q, new) /\ b_acts' = b_acts + 1 /\ b_acts < MaxActs
      /\ UNCHANGED <<b_aside, b_run, b_lock, b_reservation, b_evidence, b_retained>>
  BY <1>1 DEF Cards!Save
<1>3. b_acts + 1 \in 0..MaxActs /\ b_acts + 1 \in Cards!By
  BY <1>0, <1>2 DEF BoardFits, Cards!By, CardsParameters
<1>4. old \in Cards!Text
  <2>1. CASE Cards!Has(q)
    BY <1>0, <1>1, <2>1 DEF BoardFits, Filed, Cards!Has
  <2>2. CASE ~Cards!Has(q)
    <3>1. q[1] \in Cards!Zone /\ Cards!First \in Cards!Text
      BY Texts DEF Cards!Path, Cards!Zone
    <3> QED BY <1>1, <2>2, <3>1 DEF Cards!Text
  <2> QED BY <2>1, <2>2
<1>5. new \in Cards!Text
  BY <1>1, <1>3, <1>4 DEF Cards!Text
<1>6. Known(q[2]) /\ (q = Cards!Replacement => Exchanged)
  <2>1. CASE Cards!Has(q)
    BY <1>0, <2>1 DEF BoardFits, Cards!Has
  <2>2. CASE ~Cards!Has(q)
    <3>1. PICK p \in Proc : b_run[p].at # "end" /\ q \in {b_run[p].src, b_run[p].dst}
      BY <2>2 DEF Cards!Save
    <3>2. PICK r, a : r = b_run[p] /\ a = b_aside[p]
      OBVIOUS
    <3>3. RunFits(r, a) /\ NumbersKnown(r)
      BY <3>2 DEF CardsInv, RunHolds
    <3>4. r.at # "end" /\ q \in {r.src, r.dst}
      BY <3>1, <3>2
    <3>5. CASE Carrying(r)
      BY <3>2, <3>3, <3>4, <3>5, Carrier DEF NumbersKnown
    <3>6. CASE Creating(r)
      BY <3>3, <3>4, <3>6, Places DEF NumbersKnown, RunFits, CreatesFit, Creating
    <3>7. CASE ~Carrying(r) /\ ~Creating(r)
      <4>1. r.cmd \in {"reconcile", "cleanup", "maintain"}
        BY <3>3, <3>4, <3>7 DEF RunFits, RunTyped, Stepping, Carrying, Creating
      <4>2. r.cmd = "cleanup" \/ Holding(r)
        BY <3>3, <3>4, <4>1 DEF Holding, RunFits, RunTyped, Stepping
      <4>3. r.src # Cards!Replacement /\ r.dst # Cards!Replacement
        BY <3>3, <3>4, <4>1, <4>2, Places DEF RunFits, ReconcileFits, CleanupFits, MaintainFits
      <4> QED BY <3>3, <3>4, <4>3 DEF NumbersKnown
    <3> QED BY <3>5, <3>6, <3>7
  <2> QED BY <2>1, <2>2
<1>7. /\ Filed(b_board') /\ DOMAIN b_board' = DOMAIN b_board \cup {q}
  BY <1>0, <1>2, <1>5, PutFiles DEF BoardFits
<1>8. BoardFits'
  BY <1>0, <1>2, <1>3, <1>6, <1>7 DEF BoardFits, Known, Exchanged
<1>9. Lying(DoingTask) # {} => Lying(DoingTask)' # {}
  BY <1>7 DEF Lying
<1> QED BY <1>2, <1>8, <1>9, OthersAct

\* Where an editor may save a card.
LEMMA SavedPath ==
  ASSUME CardsInv,
         NEW q \in DOMAIN b_board \cup UNION {{b_run[p].src, b_run[p].dst} : p \in Proc}
  PROVE  q \in Cards!Path
<1>1. DOMAIN b_board \subseteq Cards!Path
  BY DEF CardsInv, BoardFits, Filed
<1>2. ASSUME NEW p \in Proc PROVE b_run[p].src \in Cards!Path /\ b_run[p].dst \in Cards!Path
  BY DEF CardsInv, RunFits, RunTyped
<1> QED BY <1>1, <1>2

LEMMA RunsKeeps ==
  ASSUME CardsParameters, CardsInv, NEW t \in {DoingTask, DoneTask}, NEW e \in {"active", "abort"},
         Cards!Runs(t, e)
  PROVE  CardsInv'
<1>1. /\ BoardFits /\ b_acts' = b_acts + 1 /\ b_acts < MaxActs /\ b_lock = None
      /\ b_evidence' = [b_evidence EXCEPT ![t] = e]
      /\ UNCHANGED <<b_board, b_aside, b_run, b_lock, b_reservation, b_retained>>
  BY DEF CardsInv, Cards!Runs
<1>2. b_acts' \in 0..MaxActs /\ b_evidence' \in [{DoingTask, DoneTask} -> Cards!Evidence]
  BY <1>1 DEF BoardFits, Cards!Evidence, CardsParameters
<1>3. BoardFits'
  BY <1>1, <1>2 DEF BoardFits, Known, Exchanged
<1>4. Lying(DoingTask)' = Lying(DoingTask)
  BY <1>1 DEF Lying
<1> QED BY <1>1, <1>3, <1>4, OthersAct

-----------------------------------------------------------------------------
(* Reconcile.                                                              *)

\* What is set aside, left as it is.
LEMMA AsideKept ==
  ASSUME NEW p, NEW a, a = b_aside[p], UNCHANGED b_aside PROVE SetAside(p, a)
  BY DEF SetAside

\* What is set aside by one command.
LEMMA AsideSet ==
  ASSUME CardsInv, NEW p \in Proc, NEW a2, b_aside' = [b_aside EXCEPT ![p] = a2]
  PROVE  SetAside(p, a2)
  BY DEF SetAside, CardsInv, BoardFits

\* What the maintenance commands leave alone.
LEMMA Quiet ==
  ASSUME CardsInv, Cards!Keeps
  PROVE  UNCHANGED b_reservation /\ UNCHANGED b_evidence /\ b_acts' \in 0..MaxActs
  BY DEF CardsInv, BoardFits, Cards!Keeps

\* Reconcile goes on.
LEMMA ReconcileGoes ==
  ASSUME CardsParameters, CardsInv, NEW p \in Proc, NEW r, NEW r2, NEW a2,
         r = b_run[p], Holding(r), r.cmd = "reconcile", r2.cmd = "reconcile",
         r2.at # "end", b_run' = [b_run EXCEPT ![p] = r2],
         UNCHANGED b_lock, UNCHANGED b_retained, Cards!Keeps,
         SetAside(p, a2), (BoardKept \/ OnePut \/ OneGone(p)),
         RunTyped(r2, a2), ReconcileFits(r2, a2), RestoreFits(r2, a2), NumbersKnown(r2)
  PROVE  CardsInv'
<1>1. Holding(r2) <=> r2.at # "protect"
  BY DEF Holding
<1>2. Stepping(r2.cmd, r2.at)
  BY DEF RunTyped
<1>3. Holding(r2)
  BY <1>1, <1>2 DEF Stepping
<1>4. ~Creating(r2) /\ ~Carrying(r2)
  BY DEF Creating, Carrying
<1>5. RunFits(r2, a2)
  BY <1>4 DEF RunFits, CarriesFit, CreatesFit, CleanupFits, MaintainFits
<1>6. UNCHANGED <<b_lock, b_reservation, b_evidence, b_retained>> /\ b_acts' \in 0..MaxActs
  BY Quiet
<1>7. r2.cmd = r.cmd /\ ~(r2.cmd = "maintain" /\ r2.at = "swap")
  OBVIOUS
<1> QED BY <1>3, <1>5, <1>6, <1>7, HolderGoes

\* A command that holds the lock ends.
LEMMA MaintenanceStops ==
  ASSUME CardsParameters, CardsInv, NEW p \in Proc, NEW r, NEW a2,
         r = b_run[p], Holding(r), Cards!Stops(p), UNCHANGED b_retained, Cards!Keeps,
         SetAside(p, a2), (BoardKept \/ OnePut \/ OneGone(p)),
         Taken(a2), (r.cmd = "maintain" => Bare(a2))
  PROVE  CardsInv'
<1>1. UNCHANGED <<b_reservation, b_evidence, b_retained>> /\ b_acts' \in 0..MaxActs
  BY Quiet
<1> QED BY <1>1, HolderStops

LEMMA ReconcileKeeps ==
  ASSUME CardsParameters, CardsInv, NEW p \in Proc, Cards!Reconcile(p) PROVE CardsInv'
<1>0. PICK r, e, a : r = b_run[p] /\ e = Cards!Begin(p, "reconcile", "scan") /\ a = b_aside[p]
  OBVIOUS
<1>1. /\ r.cmd = "none" /\ b_lock = None /\ b_lock' = p /\ b_run' = [b_run EXCEPT ![p] = e]
      /\ UNCHANGED <<b_reservation, b_evidence, b_retained, b_acts, b_aside>> /\ BoardKept
  BY <1>0 DEF Cards!Reconcile, Cards!Keeps, BoardKept
<1>2. /\ DOMAIN e = Fields /\ e.cmd = "reconcile" /\ e.at = "scan"
      /\ e.src = Cards!DoingCard /\ e.dst = Cards!DoingCard
      /\ e.stage = Cards!Nothing /\ e.left = {}
      /\ RunTyped(e, a) /\ Bare(a) /\ DOMAIN Cards!Nothing = {}
  BY <1>0, <1>1, BeginIs DEF Stepping
<1>3. ~Creating(e) /\ ~Carrying(e) /\ Holding(e)
  BY <1>2 DEF Creating, Carrying, Holding
<1>4. RunFits(e, a)
  BY <1>2, <1>3, Places DEF RunFits, CarriesFit, CreatesFit, CleanupFits, MaintainFits,
     ReconcileFits, RestoreFits, Bare
<1>5. NumbersKnown(e)
  BY <1>2, <1>3, Places DEF NumbersKnown, Known
<1> QED BY <1>0, <1>1, <1>2, <1>3, <1>4, <1>5, LockTaken

LEMMA ScanKeeps ==
  ASSUME CardsParameters, CardsInv, NEW p \in Proc, Cards!Scan(p) PROVE CardsInv'
<1>0. PICK r, a : r = b_run[p] /\ a = b_aside[p]
  OBVIOUS
<1>1. /\ r.cmd = "reconcile" /\ r.at = "scan" /\ Holding(r) /\ UNCHANGED b_retained
      /\ Cards!Keeps /\ BoardKept /\ UNCHANGED b_aside
  BY <1>0 DEF Cards!Scan, Cards!Is, BoardKept, Holding
<1>2. /\ RunFits(r, a) /\ RunTyped(r, a) /\ DOMAIN r = Fields /\ NumbersKnown(r)
      /\ Taken(a) /\ BoardFits /\ SetAside(p, a)
  BY <1>0, <1>1, Holder, AsideKept
<1>3. CASE Cards!Candidate
  <2>0. PICK r2, x, d : /\ r2 = [r EXCEPT !.at = "again", !.text = x, !.dst = d]
                        /\ x = b_board[Cards!DoingCard] /\ d = Cards!Target
    OBVIOUS
  <2>1. b_run' = [b_run EXCEPT ![p] = r2] /\ UNCHANGED b_lock
    BY <1>0, <1>3, <2>0 DEF Cards!Scan
  <2>2. SameBut(r2, r, {"at", "text", "dst"}) /\ r2.at = "again" /\ r2.text = x /\ r2.dst = d
    BY <1>2, <2>0 DEF SameBut, Fields
  <2>3. x \in Cards!Text
    BY <1>2, <1>3, <2>0 DEF Cards!Candidate, Cards!Has, BoardFits, Filed
  <2>4. d \in Cards!Path /\ d[2] = DoingTask /\ d[1] \in {"blocked", "review"} /\ Known(d[2])
    <3>1. DoingTask \in Cards!Card
      BY DEF Cards!Card, Cards!Number, CardsParameters
    <3> QED BY <2>0, <3>1, Places DEF Cards!Target, Cards!Path, Cards!Zone, Known
  <2>5. RunTyped(r2, a)
    BY <1>1, <1>2, <2>2, <2>3, <2>4 DEF RunTyped, SameBut, Fields, Stepping
  <2>6. ReconcileFits(r2, a)
    BY <1>1, <1>2, <2>2, <2>3, <2>4 DEF ReconcileFits, RunFits, Holding, SameBut, Fields
  <2>7. RestoreFits(r2, a)
    BY <1>1, <1>2, <2>2 DEF RestoreFits, RunFits, SameBut, Fields
  <2>8. NumbersKnown(r2)
    BY <1>1, <1>2, <2>2, <2>4 DEF NumbersKnown, SameBut, Fields, Creating
  <2>9. r2.cmd = "reconcile" /\ r2.at # "end"
    BY <1>1, <2>2 DEF SameBut, Fields
  <2> QED BY <1>0, <1>1, <1>2, <2>1, <2>5, <2>6, <2>7, <2>8, <2>9, ReconcileGoes
<1>4. CASE ~Cards!Candidate
  <2>1. Cards!Stops(p)
    BY <1>4 DEF Cards!Scan
  <2> QED BY <1>0, <1>1, <1>2, <2>1, MaintenanceStops
<1> QED BY <1>3, <1>4

LEMMA ScanAgainKeeps ==
  ASSUME CardsParameters, CardsInv, NEW p \in Proc, Cards!ScanAgain(p) PROVE CardsInv'
<1>0. PICK r, a, r2 : r = b_run[p] /\ a = b_aside[p] /\ r2 = [r EXCEPT !.at = "claim"]
  OBVIOUS
<1>1. /\ r.cmd = "reconcile" /\ r.at = "again" /\ Holding(r) /\ UNCHANGED b_retained
      /\ Cards!Keeps /\ BoardKept /\ UNCHANGED b_aside
  BY <1>0 DEF Cards!ScanAgain, Cards!Is, BoardKept, Holding
<1>2. /\ RunFits(r, a) /\ RunTyped(r, a) /\ DOMAIN r = Fields /\ NumbersKnown(r)
      /\ Taken(a) /\ BoardFits /\ SetAside(p, a)
  BY <1>0, <1>1, Holder, AsideKept
<1>3. CASE Cards!Goes(p, "claim") /\ UNCHANGED b_lock
  <2>1. b_run' = [b_run EXCEPT ![p] = r2]
    BY <1>0, <1>3 DEF Cards!Goes
  <2>2. SameBut(r2, r, {"at"}) /\ r2.at = "claim"
    BY <1>0, <1>2 DEF SameBut, Fields
  <2>3. RunTyped(r2, a)
    BY <1>1, <1>2, <2>2 DEF RunTyped, SameBut, Fields, Stepping
  <2>4. ReconcileFits(r2, a)
    BY <1>1, <1>2, <2>2 DEF ReconcileFits, RunFits, SameBut, Fields
  <2>5. RestoreFits(r2, a)
    BY <1>1, <1>2, <2>2 DEF RestoreFits, RunFits, SameBut, Fields
  <2>6. NumbersKnown(r2)
    BY <1>1, <1>2, <2>2 DEF NumbersKnown, SameBut, Fields, Creating
  <2>7. r2.cmd = "reconcile" /\ r2.at # "end"
    BY <1>1, <2>2 DEF SameBut, Fields
  <2> QED BY <1>0, <1>1, <1>2, <1>3, <2>1, <2>3, <2>4, <2>5, <2>6, <2>7, ReconcileGoes
<1>4. CASE Cards!Stops(p)
  BY <1>0, <1>1, <1>2, <1>4, MaintenanceStops
<1> QED BY <1>3, <1>4 DEF Cards!ScanAgain

LEMMA ClaimKeeps ==
  ASSUME CardsParameters, CardsInv, NEW p \in Proc, Cards!Claim(p) PROVE CardsInv'
<1>0. PICK r, a, r2 : r = b_run[p] /\ a = b_aside[p] /\ r2 = [r EXCEPT !.at = "verify"]
  OBVIOUS
<1>1. /\ r.cmd = "reconcile" /\ r.at = "claim" /\ Holding(r) /\ UNCHANGED b_retained
      /\ Cards!Keeps
  BY <1>0 DEF Cards!Claim, Cards!Is, Holding
<1>2. /\ RunFits(r, a) /\ RunTyped(r, a) /\ DOMAIN r = Fields /\ NumbersKnown(r)
      /\ Taken(a) /\ BoardFits /\ b_lock = p /\ Bare(a)
  BY <1>0, <1>1, Holder DEF RunFits, ReconcileFits
<1>3. CASE Cards!Has(Cards!DoingCard)
  <2>0. PICK x, a2 : x = b_board[Cards!DoingCard] /\ a2 = Cards!Put(a, Cards!DoingCard, x)
    OBVIOUS
  <2>1. /\ b_board' = Cards!Without(b_board, Cards!DoingCard) /\ UNCHANGED b_lock
        /\ b_aside' = [b_aside EXCEPT ![p] = a2]
        /\ b_run' = [b_run EXCEPT ![p] = r2]
    BY <1>0, <1>3, <2>0 DEF Cards!Claim, Cards!Goes
  <2>2. SetAside(p, a2) /\ OneGone(p)
    BY <1>2, <2>1, AsideSet DEF OneGone
  <2>3. x \in Cards!Text
    BY <1>2, <1>3, <2>0 DEF Cards!Has, BoardFits, Filed
  <2>4. Taken(a2) /\ DOMAIN a2 = {Cards!DoingCard}
    <3>1. Filed(a) /\ DOMAIN a = {} /\ Cards!DoingCard \in Cards!Path
      BY <1>2, Places DEF Taken, Bare
    <3>2. Filed(Cards!Put(a, Cards!DoingCard, x))
          /\ DOMAIN Cards!Put(a, Cards!DoingCard, x) = DOMAIN a \cup {Cards!DoingCard}
      BY <2>3, <3>1, PutFiles
    <3> QED BY <2>0, <3>1, <3>2 DEF Taken
  <2>5. SameBut(r2, r, {"at"}) /\ r2.at = "verify"
    BY <1>0, <1>2 DEF SameBut, Fields
  <2>6. RunTyped(r2, a2)
    BY <1>1, <1>2, <2>4, <2>5 DEF RunTyped, SameBut, Fields, Stepping
  <2>7. ReconcileFits(r2, a2)
    BY <1>1, <1>2, <2>4, <2>5 DEF ReconcileFits, RunFits, SameBut, Fields
  <2>8. RestoreFits(r2, a2)
    BY <1>1, <1>2, <2>5 DEF RestoreFits, RunFits, SameBut, Fields
  <2>9. NumbersKnown(r2)
    BY <1>1, <1>2, <2>5 DEF NumbersKnown, SameBut, Fields, Creating
  <2>10. r2.cmd = "reconcile" /\ r2.at # "end"
    BY <1>1, <2>5 DEF SameBut, Fields
  <2> QED BY <1>0, <1>1, <2>1, <2>2, <2>6, <2>7, <2>8, <2>9, <2>10, ReconcileGoes
<1>4. CASE ~Cards!Has(Cards!DoingCard)
  <2>1. Cards!Stops(p) /\ BoardKept /\ UNCHANGED b_aside
    BY <1>4 DEF Cards!Claim, BoardKept
  <2>2. SetAside(p, a) /\ Taken(a)
    BY <1>0, <1>2, <2>1, AsideKept
  <2> QED BY <1>0, <1>1, <2>1, <2>2, MaintenanceStops
<1> QED BY <1>3, <1>4

LEMMA VerifyClaimKeeps ==
  ASSUME CardsParameters, CardsInv, NEW p \in Proc, Cards!VerifyClaim(p) PROVE CardsInv'
<1>0. PICK r, a : r = b_run[p] /\ a = b_aside[p]
  OBVIOUS
<1>1. /\ r.cmd = "reconcile" /\ r.at = "verify" /\ Holding(r) /\ UNCHANGED b_retained
      /\ Cards!Keeps /\ BoardKept /\ UNCHANGED b_aside /\ UNCHANGED b_lock
  BY <1>0 DEF Cards!VerifyClaim, Cards!Is, Holding, BoardKept
<1>2. /\ RunFits(r, a) /\ RunTyped(r, a) /\ DOMAIN r = Fields /\ NumbersKnown(r)
      /\ Taken(a) /\ DOMAIN a = {Cards!DoingCard} /\ SetAside(p, a)
  BY <1>0, <1>1, Holder, AsideKept DEF RunFits, ReconcileFits
<1>3. CASE a[Cards!DoingCard] # r.text \/ Cards!Has(Cards!DoingCard) \/ Cards!Has(r.dst)
  <2>0. PICK r2 : r2 = [r EXCEPT !.at = "restore", !.left = {Cards!DoingCard}]
    OBVIOUS
  <2>1. b_run' = [b_run EXCEPT ![p] = r2]
    BY <1>0, <1>3, <2>0 DEF Cards!VerifyClaim
  <2>2. SameBut(r2, r, {"at", "left"}) /\ r2.at = "restore" /\ r2.left = {Cards!DoingCard}
    BY <1>2, <2>0 DEF SameBut, Fields
  <2>3. RunTyped(r2, a)
    BY <1>1, <1>2, <2>2, Places DEF RunTyped, SameBut, Fields, Stepping
  <2>4. ReconcileFits(r2, a)
    BY <1>1, <1>2, <2>2 DEF ReconcileFits, RunFits, SameBut, Fields
  <2>5. RestoreFits(r2, a)
    BY <1>1, <1>2, <2>2 DEF RestoreFits, RunFits, SameBut, Fields, Bare
  <2>6. NumbersKnown(r2)
    BY <1>1, <1>2, <2>2, Places DEF NumbersKnown, SameBut, Fields, Creating, Known
  <2>7. r2.cmd = "reconcile" /\ r2.at # "end"
    BY <1>1, <2>2 DEF SameBut, Fields
  <2> QED BY <1>0, <1>1, <1>2, <2>1, <2>3, <2>4, <2>5, <2>6, <2>7, ReconcileGoes
<1>4. CASE ~(a[Cards!DoingCard] # r.text \/ Cards!Has(Cards!DoingCard) \/ Cards!Has(r.dst))
  <2>0. PICK r2, s : r2 = [r EXCEPT !.at = "publish", !.seen = s] /\ s = Cards!Looked(r.dst)
    OBVIOUS
  <2>1. b_run' = [b_run EXCEPT ![p] = r2]
    BY <1>0, <1>4, <2>0 DEF Cards!VerifyClaim
  <2>2. SameBut(r2, r, {"at", "seen"}) /\ r2.at = "publish" /\ r2.seen = s
    BY <1>2, <2>0 DEF SameBut, Fields
  <2>3. RunTyped(r2, a)
    BY <1>1, <1>2, <2>2 DEF RunTyped, SameBut, Fields, Stepping
  <2>4. ReconcileFits(r2, a)
    <3>1. r.dst \in DOMAIN s /\ s[r.dst] = Absent
      BY <1>4, <2>0 DEF Cards!Looked, Cards!At, Cards!Has
    <3> QED BY <1>1, <1>2, <2>2, <3>1 DEF ReconcileFits, RunFits, SameBut, Fields, Empty
  <2>5. RestoreFits(r2, a)
    BY <1>1, <1>2, <2>2 DEF RestoreFits, RunFits, SameBut, Fields
  <2>6. NumbersKnown(r2)
    BY <1>1, <1>2, <2>2 DEF NumbersKnown, SameBut, Fields, Creating
  <2>7. r2.cmd = "reconcile" /\ r2.at # "end"
    BY <1>1, <2>2 DEF SameBut, Fields
  <2> QED BY <1>0, <1>1, <1>2, <2>1, <2>3, <2>4, <2>5, <2>6, <2>7, ReconcileGoes
<1> QED BY <1>3, <1>4

LEMMA PublishKeeps ==
  ASSUME CardsParameters, CardsInv, NEW p \in Proc, Cards!Publish(p) PROVE CardsInv'
<1>0. PICK r, a, new : r = b_run[p] /\ a = b_aside[p] /\ new = [r.text EXCEPT !.cell = r.dst[1]]
  OBVIOUS
<1>1. /\ r.cmd = "reconcile" /\ r.at = "publish" /\ Holding(r) /\ UNCHANGED b_retained
      /\ Cards!Keeps /\ UNCHANGED b_aside /\ Cards!Stops(p)
      /\ b_board' = Cards!Put(b_board, r.dst, new)
  BY <1>0 DEF Cards!Publish, Cards!Is, Holding
<1>2. /\ RunFits(r, a) /\ RunTyped(r, a) /\ NumbersKnown(r) /\ Taken(a) /\ SetAside(p, a)
      /\ UNCHANGED b_reservation
  BY <1>0, <1>1, Holder, AsideKept, Quiet
<1>3. /\ r.text \in Cards!Text /\ r.dst \in Cards!Path
      /\ r.dst[1] \in {"blocked", "review", "doing"}
  BY <1>1, <1>2 DEF RunFits, ReconcileFits, RunTyped
<1>4. new \in Cards!Text /\ r.dst # Cards!Replacement
  BY <1>0, <1>3, Places DEF Cards!Text, Cards!Zone
<1>5. Known(r.dst[2])'
  BY <1>2, KnownStays DEF NumbersKnown
<1>6. OnePut
  BY <1>1, <1>3, <1>4, <1>5 DEF OnePut
<1>7. r.cmd # "maintain"
  BY <1>1
<1> QED BY <1>0, <1>1, <1>2, <1>6, <1>7, MaintenanceStops

-----------------------------------------------------------------------------
(* Putting back what was set aside, and cleanup.                           *)

\* A command goes on, or back, to what it set aside.
LEMMA RestoreGoes ==
  ASSUME CardsParameters, CardsInv, NEW p \in Proc, NEW r, NEW r2, NEW a2,
         r = b_run[p], Holding(r), r.cmd \in {"reconcile", "cleanup"},
         SameBut(r2, r, {"at", "left", "seen", "stage"}), r2.at = "restore",
         b_run' = [b_run EXCEPT ![p] = r2],
         UNCHANGED <<b_lock, b_reservation, b_evidence, b_retained>>, b_acts' \in 0..MaxActs,
         SetAside(p, a2), (BoardKept \/ OnePut \/ OneGone(p)), Taken(a2),
         r2.left \subseteq DOMAIN a2, Filed(r2.stage),
         (\A q \in DOMAIN r2.stage : q \in DOMAIN a2 /\ Empty(r2, q))
  PROVE  CardsInv'
<1>0. PICK a : a = b_aside[p]
  OBVIOUS
<1>1. /\ RunFits(r, a) /\ RunTyped(r, a) /\ NumbersKnown(r)
  BY <1>0, Holder
<1>2. r2.cmd = r.cmd /\ r2.src = r.src /\ r2.dst = r.dst /\ r2.text = r.text
      /\ r2.number = r.number /\ r2.made = r.made /\ DOMAIN r2 = Fields
  BY DEF SameBut, Fields
<1>3. Holding(r2) /\ ~Creating(r2) /\ ~Carrying(r2) /\ Stepping(r2.cmd, r2.at)
  BY <1>2 DEF Holding, Creating, Carrying, Stepping
<1>4. DOMAIN a2 \subseteq Cards!Path
  BY DEF Taken, Filed
<1>5. RunTyped(r2, a2)
  BY <1>1, <1>2, <1>3, <1>4 DEF RunTyped
<1>6. ReconcileFits(r2, a2)
  <2>1. r.cmd = "reconcile" => ReconcileFits(r, a)
    BY <1>1 DEF RunFits
  <2> QED BY <1>2, <2>1 DEF ReconcileFits
<1>7. CleanupFits(r2, a2)
  <2>1. r.cmd = "cleanup" => r.at # "end" /\ CleanupFits(r, a)
    BY <1>1 DEF RunFits, Holding
  <2> QED BY <1>2, <2>1 DEF CleanupFits
<1>8. RestoreFits(r2, a2) /\ MaintainFits(r2)
  BY <1>2 DEF RestoreFits, MaintainFits
<1>9. RunFits(r2, a2)
  BY <1>3, <1>5, <1>6, <1>7, <1>8 DEF RunFits, CarriesFit, CreatesFit
<1>10. \A q \in DOMAIN a2 : Known(q[2])
  BY Places DEF Known, Taken
<1>11. NumbersKnown(r2)
  BY <1>1, <1>2, <1>3, <1>10 DEF NumbersKnown
<1>12. r2.cmd = r.cmd /\ ~(r2.cmd = "maintain" /\ r2.at = "swap")
  BY <1>2
<1> QED BY <1>3, <1>9, <1>11, <1>12, HolderGoes

LEMMA LookBackKeeps ==
  ASSUME CardsParameters, CardsInv, NEW p \in Proc, Cards!LookBack(p) PROVE CardsInv'
<1>0. PICK r, a : r = b_run[p] /\ a = b_aside[p]
  OBVIOUS
<1>1. /\ r.at = "restore" /\ r.stage = Cards!Nothing /\ UNCHANGED b_retained
      /\ Cards!Keeps /\ BoardKept /\ UNCHANGED b_aside
  BY <1>0 DEF Cards!LookBack, BoardKept
<1>2. r.cmd \in {"reconcile", "cleanup"} /\ Holding(r)
  BY <1>0, <1>1 DEF CardsInv, RunFits, RunTyped, Stepping, Holding
<1>3. /\ RunFits(r, a) /\ RunTyped(r, a) /\ DOMAIN r = Fields /\ Taken(a) /\ SetAside(p, a)
      /\ r.left \subseteq DOMAIN a
  BY <1>0, <1>1, <1>2, Holder, AsideKept DEF RunFits, RestoreFits
<1>4. UNCHANGED <<b_reservation, b_evidence, b_retained>> /\ b_acts' \in 0..MaxActs
  BY <1>1, Quiet
<1>5. CASE r.left = {}
  <2>1. Cards!Stops(p) /\ r.cmd # "maintain"
    BY <1>0, <1>2, <1>5 DEF Cards!LookBack
  <2> QED BY <1>0, <1>1, <1>2, <1>3, <2>1, MaintenanceStops
<1>6. CASE r.left # {}
  <2>1. PICK q \in r.left :
          b_run' = IF Cards!Has(q) THEN [b_run EXCEPT ![p].left = @ \ {q}]
                   ELSE [b_run EXCEPT ![p].stage = [x \in {q} |-> b_aside[p][q]],
                                      ![p].seen = Cards!SeesToo(p, Cards!Looked(q))]
    BY <1>0, <1>6 DEF Cards!LookBack
  <2>2. UNCHANGED <<b_lock, b_reservation, b_evidence, b_retained>>
    BY <1>0, <1>4, <1>6 DEF Cards!LookBack
  <2>3. CASE Cards!Has(q)
    <3>0. PICK r2 : r2 = [r EXCEPT !.left = r.left \ {q}]
      OBVIOUS
    <3>1. b_run' = [b_run EXCEPT ![p] = r2]
      BY <1>0, <2>1, <2>3, <3>0
    <3>2. SameBut(r2, r, {"at", "left", "seen", "stage"}) /\ r2.at = "restore"
          /\ r2.left = r.left \ {q} /\ r2.stage = Cards!Nothing
      BY <1>1, <1>3, <3>0 DEF SameBut, Fields
    <3>3. r2.left \subseteq DOMAIN a /\ Filed(r2.stage)
          /\ (\A y \in DOMAIN r2.stage : y \in DOMAIN a /\ Empty(r2, y))
      BY <1>3, <3>2, NoFiles
    <3> QED BY <1>0, <1>1, <1>2, <1>3, <1>4, <2>2, <3>1, <3>2, <3>3, RestoreGoes
  <2>4. CASE ~Cards!Has(q)
    <3>0. PICK r2, t, s : /\ r2 = [r EXCEPT !.stage = t, !.seen = s]
                          /\ t = [x \in {q} |-> a[q]] /\ s = Cards!SeesToo(p, Cards!Looked(q))
      OBVIOUS
    <3>1. b_run' = [b_run EXCEPT ![p] = r2]
      BY <1>0, <2>1, <2>4, <3>0
    <3>2. SameBut(r2, r, {"at", "left", "seen", "stage"}) /\ r2.at = "restore"
          /\ r2.left = r.left /\ r2.stage = t /\ r2.seen = s
      BY <1>1, <1>3, <3>0 DEF SameBut, Fields
    <3>3. q \in DOMAIN a /\ q \in Cards!Path /\ a[q] \in Cards!Text
      BY <1>3 DEF Taken, Filed
    <3>4. Filed(t) /\ DOMAIN t = {q}
      BY <3>0, <3>3 DEF Filed
    <3>5. SeenToo(s, r.seen, q, Absent)
      BY <1>0, <2>4, <3>0, Looks DEF Cards!Has, Cards!At
    <3>6. r2.left \subseteq DOMAIN a /\ Filed(r2.stage)
          /\ (\A y \in DOMAIN r2.stage : y \in DOMAIN a /\ Empty(r2, y))
      BY <1>3, <3>2, <3>3, <3>4, <3>5 DEF Empty, SeenToo
    <3> QED BY <1>0, <1>1, <1>2, <1>3, <1>4, <2>2, <3>1, <3>2, <3>6, RestoreGoes
  <2> QED BY <2>3, <2>4
<1> QED BY <1>5, <1>6

LEMMA PutBackKeeps ==
  ASSUME CardsParameters, CardsInv, NEW p \in Proc, Cards!PutBack(p) PROVE CardsInv'
<1>0. PICK r, a : r = b_run[p] /\ a = b_aside[p]
  OBVIOUS
<1>1. /\ r.at = "restore" /\ UNCHANGED b_retained /\ UNCHANGED b_lock /\ Cards!Keeps
  BY <1>0 DEF Cards!PutBack
<1>2. r.cmd \in {"reconcile", "cleanup"} /\ Holding(r)
  BY <1>0, <1>1 DEF CardsInv, RunFits, RunTyped, Stepping, Holding
<1>3. /\ RunFits(r, a) /\ RunTyped(r, a) /\ DOMAIN r = Fields /\ Taken(a)
      /\ r.left \subseteq DOMAIN a /\ (\A q \in DOMAIN r.stage : q \in DOMAIN a)
  BY <1>0, <1>1, <1>2, Holder DEF RunFits, RestoreFits
<1>4. UNCHANGED <<b_lock, b_reservation, b_evidence, b_retained>> /\ b_acts' \in 0..MaxActs
      /\ UNCHANGED b_reservation
  BY <1>1, Quiet
<1>n. PICK q \in DOMAIN r.stage :
        /\ b_board' = Cards!Put(b_board, q, b_aside[p][q])
        /\ b_aside' = [b_aside EXCEPT ![p] = Cards!Without(b_aside[p], q)]
        /\ b_run' = [b_run EXCEPT ![p].stage = Cards!Nothing, ![p].left = @ \ {q}]
  BY <1>0 DEF Cards!PutBack
<1>m. PICK x, a2, r2 :
        /\ x = a[q] /\ a2 = Cards!Without(a, q)
        /\ r2 = [r EXCEPT !.stage = Cards!Nothing, !.left = r.left \ {q}]
  OBVIOUS
<1>5. /\ x = a[q] /\ b_board' = Cards!Put(b_board, q, x)
      /\ a2 = Cards!Without(a, q) /\ b_aside' = [b_aside EXCEPT ![p] = a2]
      /\ r2 = [r EXCEPT !.stage = Cards!Nothing, !.left = r.left \ {q}]
      /\ b_run' = [b_run EXCEPT ![p] = r2]
  BY <1>0, <1>n, <1>m
<1>6. /\ q \in Cards!Path /\ x \in Cards!Text
      /\ q \in {Cards!DoingCard} \cup Cards!Group
  BY <1>3, <1>5 DEF Taken, Filed
<1>7. OnePut
  <2>1. Known(q[2])' /\ q # Cards!Replacement
    BY <1>6, Places DEF Known
  <2> QED BY <1>5, <1>6, <2>1 DEF OnePut
<1>8. SetAside(p, a2) /\ Taken(a2) /\ DOMAIN a2 = DOMAIN a \ {q}
  BY <1>3, <1>5, AsideSet, WithoutFile DEF Taken
<1>9. SameBut(r2, r, {"at", "left", "seen", "stage"}) /\ r2.at = "restore"
      /\ r2.left = r.left \ {q} /\ r2.stage = Cards!Nothing
  BY <1>1, <1>3, <1>5 DEF SameBut, Fields
<1>10. r2.left \subseteq DOMAIN a2 /\ Filed(r2.stage)
       /\ (\A y \in DOMAIN r2.stage : y \in DOMAIN a2 /\ Empty(r2, y))
  BY <1>3, <1>8, <1>9, NoFiles
<1>11. b_run' = [b_run EXCEPT ![p] = r2]
  BY <1>5
<1> QED BY <1>0, <1>2, <1>4, <1>7, <1>8, <1>9, <1>10, <1>11, RestoreGoes

\* A cleanup that finds something else than it proved.
LEMMA Restoring ==
  ASSUME CardsParameters, CardsInv, NEW p \in Proc, NEW r, r = b_run[p], Holding(r),
         r.cmd = "cleanup", r.at # "restore", Cards!Restores(p), BoardKept, UNCHANGED b_aside,
         UNCHANGED <<b_lock, b_reservation, b_evidence, b_retained>>, b_acts' \in 0..MaxActs
  PROVE  CardsInv'
<1>0. PICK a, r2 : a = b_aside[p] /\ r2 = [r EXCEPT !.at = "restore", !.left = DOMAIN a]
  OBVIOUS
<1>1. /\ RunFits(r, a) /\ RunTyped(r, a) /\ DOMAIN r = Fields /\ Taken(a) /\ SetAside(p, a)
      /\ Bare(r.stage)
  BY <1>0, Holder, AsideKept DEF RunFits, RestoreFits
<1>2. b_run' = [b_run EXCEPT ![p] = r2]
  BY <1>0 DEF Cards!Restores
<1>3. SameBut(r2, r, {"at", "left", "seen", "stage"}) /\ r2.at = "restore"
      /\ r2.left = DOMAIN a /\ r2.stage = r.stage
  BY <1>0, <1>1 DEF SameBut, Fields
<1>4. r2.left \subseteq DOMAIN a /\ Filed(r2.stage)
      /\ (\A q \in DOMAIN r2.stage : q \in DOMAIN a /\ Empty(r2, q))
  BY <1>1, <1>3 DEF Bare, RunTyped
<1>5. r.cmd \in {"reconcile", "cleanup"}
  OBVIOUS
<1> QED BY <1>0, <1>1, <1>2, <1>3, <1>4, <1>5, RestoreGoes

\* The cleanup goes on.
LEMMA CleanupGoes ==
  ASSUME CardsParameters, CardsInv, NEW p \in Proc, NEW r, NEW r2, NEW a2,
         r = b_run[p], Holding(r), r.cmd = "cleanup", r2.cmd = "cleanup",
         r2.at \notin {"end", "protect", "restore"}, b_run' = [b_run EXCEPT ![p] = r2],
         UNCHANGED b_lock, UNCHANGED b_retained, Cards!Keeps,
         SetAside(p, a2), (BoardKept \/ OneGone(p)),
         RunTyped(r2, a2), CleanupFits(r2, a2), Bare(r2.stage), NumbersKnown(r2)
  PROVE  CardsInv'
<1>1. Holding(r2) /\ ~Creating(r2) /\ ~Carrying(r2)
  BY DEF Holding, Creating, Carrying
<1>2. RunFits(r2, a2)
  BY <1>1 DEF RunFits, CarriesFit, CreatesFit, ReconcileFits, RestoreFits, MaintainFits
<1>3. UNCHANGED <<b_lock, b_reservation, b_evidence, b_retained>> /\ b_acts' \in 0..MaxActs
  BY Quiet
<1>4. r2.cmd = r.cmd /\ ~(r2.cmd = "maintain" /\ r2.at = "swap")
  OBVIOUS
<1> QED BY <1>1, <1>2, <1>3, <1>4, HolderGoes

LEMMA CleanupKeeps ==
  ASSUME CardsParameters, CardsInv, NEW p \in Proc, Cards!Cleanup(p) PROVE CardsInv'
<1>0. PICK r, e, a : r = b_run[p] /\ e = Cards!Begin(p, "cleanup", "protect") /\ a = b_aside[p]
  OBVIOUS
<1>1. /\ r.cmd = "none" /\ b_run' = [b_run EXCEPT ![p] = e] /\ Cards!Keeps
      /\ UNCHANGED <<b_aside, b_lock, b_evidence, b_retained>> /\ BoardKept
  BY <1>0 DEF Cards!Cleanup, BoardKept, Cards!Keeps
<1>2. /\ DOMAIN e = Fields /\ e.cmd = "cleanup" /\ e.at = "protect"
      /\ e.src = Cards!DoingCard /\ e.dst = Cards!DoingCard
      /\ e.stage = Cards!Nothing /\ e.left = {}
      /\ RunTyped(e, a) /\ Bare(a) /\ DOMAIN Cards!Nothing = {} /\ ~Holding(r)
      /\ Known(DoingTask)'
  BY <1>0, <1>1, BeginIs DEF Stepping
<1>3. ~Creating(e) /\ ~Carrying(e) /\ ~Holding(e)
  BY <1>2 DEF Creating, Carrying, Holding
<1>4. RunFits(e, a)
  BY <1>2, <1>3 DEF RunFits, CarriesFit, CreatesFit, CleanupFits, MaintainFits,
     ReconcileFits, RestoreFits, Bare
<1>5. NumbersKnown(e)'
  BY <1>2, <1>3, Places DEF NumbersKnown
<1>6. UNCHANGED b_reservation /\ b_acts' \in 0..MaxActs /\ BoardFits
  BY <1>1, Quiet DEF CardsInv
<1>7. Numbered
  BY <1>6 DEF BoardFits, Numbered, CardsParameters
<1> QED BY <1>0, <1>1, <1>2, <1>3, <1>4, <1>5, <1>6, <1>7, VerbAdvances

LEMMA ProtectKeeps ==
  ASSUME CardsParameters, CardsInv, NEW p \in Proc, Cards!Protect(p) PROVE CardsInv'
<1>0. PICK r, a : r = b_run[p] /\ a = b_aside[p]
  OBVIOUS
<1>1. /\ r.cmd = "cleanup" /\ r.at = "protect" /\ ~Holding(r) /\ Cards!Keeps
      /\ UNCHANGED <<b_aside, b_retained, b_evidence>> /\ BoardKept
  BY <1>0 DEF Cards!Protect, Cards!Is, Holding, BoardKept, Cards!Keeps
<1>2. RunFits(r, a) /\ RunTyped(r, a) /\ DOMAIN r = Fields /\ NumbersKnown(r) /\ BoardFits
  BY <1>0 DEF CardsInv, RunHolds, RunFits, RunTyped
<1>3. Bare(a) /\ Taken(a) /\ Bare(r.stage) /\ r.src = Cards!DoingCard /\ r.dst = Cards!DoingCard
  BY <1>1, <1>2 DEF RunFits, CleanupFits, RestoreFits, RunTyped
<1>4. UNCHANGED b_reservation /\ b_acts' \in 0..MaxActs
  BY <1>1, Quiet
<1>5. CASE Cards!Blocked
  <2>1. PICK e : e = Done(r.cmd)
    OBVIOUS
  <2>2. b_run' = [b_run EXCEPT ![p] = e] /\ UNCHANGED b_lock
    BY <1>0, <1>5, <2>1 DEF Cards!Protect, Cards!Ends, Done
  <2>3. Stepping(r.cmd, "end")
    BY <1>1 DEF Stepping
  <2>4. /\ RunFits(e, a) /\ NumbersKnown(e)' /\ ~Holding(e) /\ ~Creating(e) /\ ~Carrying(e)
    BY <1>1, <1>3, <2>1, <2>3, DoneFits
  <2>5. Numbered /\ UNCHANGED <<b_aside, b_lock, b_evidence, b_retained>>
    BY <1>1, <1>2, <1>4, <2>2 DEF BoardFits, Numbered, CardsParameters
  <2> QED BY <1>0, <1>1, <1>4, <2>2, <2>4, <2>5, VerbAdvances
<1>6. CASE ~Cards!Blocked
  <2>0. PICK r2 : r2 = [r EXCEPT !.at = "prove"]
    OBVIOUS
  <2>1. b_lock = None /\ b_lock' = p /\ b_run' = [b_run EXCEPT ![p] = r2]
    BY <1>0, <1>6, <2>0 DEF Cards!Protect, Cards!TakesLock, Cards!Goes
  <2>2. SameBut(r2, r, {"at"}) /\ r2.at = "prove" /\ r2.cmd = "cleanup"
    BY <1>1, <1>2, <2>0 DEF SameBut, Fields
  <2>3. ~Creating(r2) /\ ~Carrying(r2) /\ Holding(r2)
    BY <2>2 DEF Creating, Carrying, Holding
  <2>4. RunTyped(r2, a)
    BY <1>1, <1>2, <2>2 DEF RunTyped, SameBut, Fields, Stepping
  <2>5. RunFits(r2, a)
    BY <1>3, <2>2, <2>3, <2>4 DEF RunFits, CarriesFit, CreatesFit, CleanupFits, MaintainFits,
       ReconcileFits, RestoreFits, SameBut, Fields
  <2>6. NumbersKnown(r2)
    BY <1>1, <1>2, <2>2, <2>3 DEF NumbersKnown, SameBut, Fields
  <2>7. UNCHANGED <<b_reservation, b_evidence, b_retained, b_acts, b_aside>>
    BY <1>1 DEF Cards!Keeps
  <2>8. r2.cmd # "maintain"
    BY <2>2
  <2> QED BY <1>0, <1>1, <1>6, <2>1, <2>3, <2>5, <2>6, <2>7, <2>8, LockTaken
<1> QED BY <1>5, <1>6

LEMMA ProveKeeps ==
  ASSUME CardsParameters, CardsInv, NEW p \in Proc, Cards!Prove(p) PROVE CardsInv'
<1>0. PICK r, a, r2, g : /\ r = b_run[p] /\ a = b_aside[p] /\ g = Cards!Group
                         /\ r2 = [r EXCEPT !.at = "look", !.left = g]
  OBVIOUS
<1>1. /\ r.cmd = "cleanup" /\ r.at = "prove" /\ Holding(r) /\ UNCHANGED b_retained
      /\ Cards!Keeps /\ BoardKept /\ UNCHANGED b_aside
  BY <1>0 DEF Cards!Prove, Cards!Is, BoardKept, Holding
<1>2. /\ RunFits(r, a) /\ RunTyped(r, a) /\ DOMAIN r = Fields /\ NumbersKnown(r)
      /\ Taken(a) /\ SetAside(p, a)
  BY <1>0, <1>1, Holder, AsideKept
<1>3. CASE Cards!Removable
  <2>1. b_run' = [b_run EXCEPT ![p] = r2] /\ UNCHANGED b_lock
    BY <1>0, <1>3 DEF Cards!Prove
  <2>2. SameBut(r2, r, {"at", "left"}) /\ r2.at = "look" /\ r2.left = g
    BY <1>0, <1>2 DEF SameBut, Fields
  <2>3. g = {Cards!DoneCard, Cards!Owned} /\ g \subseteq Cards!Path
    BY <1>0, Places
  <2>4. Known(Cards!DoneCard[2]) /\ Known(Cards!Owned[2])
    BY Places DEF Known
  <2>5. RunTyped(r2, a)
    BY <1>1, <1>2, <2>2, <2>3 DEF RunTyped, SameBut, Fields, Stepping
  <2>6. CleanupFits(r2, a)
    <3>1. Bare(a) /\ r.src = Cards!DoingCard /\ r.dst = Cards!DoingCard
      BY <1>1, <1>2 DEF CleanupFits, RunFits
    <3> QED BY <1>0, <1>1, <2>2, <2>3, <3>1 DEF CleanupFits, SameBut, Fields, Bare
  <2>7. Bare(r2.stage)
    BY <1>1, <1>2, <2>2 DEF RestoreFits, RunFits, SameBut, Fields
  <2>8. NumbersKnown(r2)
    BY <1>1, <1>2, <2>2, <2>3, <2>4 DEF NumbersKnown, SameBut, Fields, Creating
  <2>9. r2.cmd = "cleanup" /\ r2.at \notin {"end", "protect", "restore"}
    BY <1>1, <2>2 DEF SameBut, Fields
  <2> QED BY <1>0, <1>1, <1>2, <2>1, <2>5, <2>6, <2>7, <2>8, <2>9, CleanupGoes
<1>4. CASE ~Cards!Removable
  <2>1. Cards!Stops(p) /\ r.cmd # "maintain"
    BY <1>1, <1>4 DEF Cards!Prove
  <2> QED BY <1>0, <1>1, <1>2, <2>1, MaintenanceStops
<1> QED BY <1>3, <1>4

LEMMA LookAtKeeps ==
  ASSUME CardsParameters, CardsInv, NEW p \in Proc, Cards!LookAt(p) PROVE CardsInv'
<1>0. PICK r, a, q : r = b_run[p] /\ a = b_aside[p] /\ q = Cards!Turn(p)
  OBVIOUS
<1>1. /\ r.cmd = "cleanup" /\ r.at = "look" /\ Holding(r) /\ UNCHANGED b_retained
      /\ Cards!Keeps /\ BoardKept /\ UNCHANGED b_aside /\ UNCHANGED b_lock
  BY <1>0 DEF Cards!LookAt, Cards!Is, BoardKept, Holding
<1>2. /\ RunFits(r, a) /\ RunTyped(r, a) /\ DOMAIN r = Fields /\ NumbersKnown(r)
      /\ Taken(a) /\ SetAside(p, a)
  BY <1>0, <1>1, Holder, AsideKept
<1>3. CASE Cards!At(b_board, q) = Cards!Source[q]
  <2>0. PICK r2, s : /\ r2 = [r EXCEPT !.at = "take", !.seen = s]
                     /\ s = Cards!SeesToo(p, Cards!Looked(q))
    OBVIOUS
  <2>1. b_run' = [b_run EXCEPT ![p] = r2]
    BY <1>0, <1>3, <2>0 DEF Cards!LookAt
  <2>2. SameBut(r2, r, {"at", "seen"}) /\ r2.at = "take"
    BY <1>2, <2>0 DEF SameBut, Fields
  <2>3. RunTyped(r2, a)
    BY <1>1, <1>2, <2>2 DEF RunTyped, SameBut, Fields, Stepping
  <2>4. CleanupFits(r2, a)
    BY <1>1, <1>2, <2>2 DEF CleanupFits, RunFits, SameBut, Fields
  <2>5. Bare(r2.stage)
    BY <1>1, <1>2, <2>2 DEF RestoreFits, RunFits, SameBut, Fields
  <2>6. NumbersKnown(r2)
    BY <1>1, <1>2, <2>2 DEF NumbersKnown, SameBut, Fields, Creating
  <2>7. r2.cmd = "cleanup" /\ r2.at \notin {"end", "protect", "restore"}
    BY <1>1, <2>2 DEF SameBut, Fields
  <2> QED BY <1>0, <1>1, <1>2, <2>1, <2>3, <2>4, <2>5, <2>6, <2>7, CleanupGoes
<1>4. CASE Cards!At(b_board, q) # Cards!Source[q]
  <2>1. Cards!Restores(p)
    BY <1>0, <1>4 DEF Cards!LookAt
  <2>2. UNCHANGED <<b_lock, b_reservation, b_evidence, b_retained>> /\ b_acts' \in 0..MaxActs
    BY <1>1, Quiet
  <2>3. r.at # "restore"
    BY <1>1
  <2> QED BY <1>0, <1>1, <2>1, <2>2, <2>3, Restoring
<1> QED BY <1>3, <1>4

\* The file whose turn it is.
LEMMA TurnIs ==
  ASSUME CardsParameters, NEW p \in Proc, NEW r, r = b_run[p], r.left # {},
         r.left \subseteq Cards!Group
  PROVE  Cards!Turn(p) \in r.left /\ Cards!Turn(p) \in Cards!Path
         /\ Cards!Turn(p)[2] # DoingTask
<1>1. r.left \subseteq {Cards!DoneCard, Cards!Owned}
  BY Places
<1>2. Cards!Turn(p) \in r.left /\ Cards!Turn(p) \in {Cards!DoneCard, Cards!Owned}
  BY <1>1 DEF Cards!Turn
<1>3. DoneTask # DoingTask /\ Receipt # DoingTask
  BY DEF CardsParameters
<1> QED BY <1>1, <1>2, <1>3, Places

LEMMA QuarantineKeeps ==
  ASSUME CardsParameters, CardsInv, NEW p \in Proc, Cards!Quarantine(p) PROVE CardsInv'
<1>0. PICK r, a, q : r = b_run[p] /\ a = b_aside[p] /\ q = Cards!Turn(p)
  OBVIOUS
<1>1. /\ r.cmd = "cleanup" /\ r.at = "take" /\ Holding(r) /\ UNCHANGED b_retained
      /\ Cards!Keeps /\ UNCHANGED b_lock
  BY <1>0 DEF Cards!Quarantine, Cards!Is, Holding
<1>2. /\ RunFits(r, a) /\ RunTyped(r, a) /\ DOMAIN r = Fields /\ NumbersKnown(r)
      /\ Taken(a) /\ BoardFits /\ b_lock = p
  BY <1>0, <1>1, Holder
<1>3. /\ r.left # {} /\ r.left \subseteq Cards!Group /\ DOMAIN a = Cards!Group \ r.left
      /\ r.src = Cards!DoingCard /\ r.dst = Cards!DoingCard
  BY <1>1, <1>2 DEF RunFits, CleanupFits
<1>4. q \in r.left /\ q \in Cards!Path /\ q[2] # DoingTask
  BY <1>0, <1>3, TurnIs
<1>5. CASE Cards!Has(q)
  <2>0. PICK x, a2, at, r2 : /\ x = b_board[q] /\ a2 = Cards!Put(a, q, x)
                             /\ at = IF r.left = {q} THEN "check" ELSE "look"
                             /\ r2 = [r EXCEPT !.at = at, !.left = r.left \ {q}]
    OBVIOUS
  <2>1. /\ b_board' = Cards!Without(b_board, q)
        /\ b_aside' = [b_aside EXCEPT ![p] = Cards!Put(b_aside[p], q, b_board[q])]
        /\ b_run' = [b_run EXCEPT ![p].at = IF b_run[p].left = {q} THEN "check" ELSE "look",
                                  ![p].left = @ \ {q}]
    BY <1>0, <1>5 DEF Cards!Quarantine
  <2>2. b_run' = [b_run EXCEPT ![p] = r2] /\ b_aside' = [b_aside EXCEPT ![p] = a2]
    BY <1>0, <2>0, <2>1
  <2>3. SetAside(p, a2) /\ OneGone(p)
    BY <1>2, <1>4, <2>1, <2>2, AsideSet DEF OneGone
  <2>4. x \in Cards!Text
    BY <1>2, <1>5, <2>0 DEF BoardFits, Filed, Cards!Has
  <2>5. Taken(a2) /\ DOMAIN a2 = Cards!Group \ (r.left \ {q})
    <3>1. Filed(Cards!Put(a, q, x)) /\ DOMAIN Cards!Put(a, q, x) = DOMAIN a \cup {q}
      BY <1>2, <1>4, <2>4, PutFiles DEF Taken
    <3> QED BY <1>3, <1>4, <2>0, <3>1 DEF Taken
  <2>6. SameBut(r2, r, {"at", "left"}) /\ r2.at = at /\ r2.left = r.left \ {q}
    BY <1>2, <2>0 DEF SameBut, Fields
  <2>7. at \in {"check", "look"} /\ (at = "look" <=> r.left \ {q} # {})
    BY <1>4, <2>0
  <2>8. RunTyped(r2, a2)
    BY <1>1, <1>2, <2>5, <2>6, <2>7 DEF RunTyped, SameBut, Fields, Stepping
  <2>9. CleanupFits(r2, a2)
    BY <1>3, <2>5, <2>6, <2>7 DEF CleanupFits, SameBut, Fields
  <2>10. Bare(r2.stage)
    BY <1>1, <1>2, <2>6 DEF RestoreFits, RunFits, SameBut, Fields
  <2>11. NumbersKnown(r2)
    BY <1>1, <1>2, <2>6 DEF NumbersKnown, SameBut, Fields, Creating
  <2>12. r2.cmd = "cleanup" /\ r2.at \notin {"end", "protect", "restore"}
    BY <1>1, <2>6, <2>7 DEF SameBut, Fields
  <2> QED BY <1>0, <1>1, <2>2, <2>3, <2>8, <2>9, <2>10, <2>11, <2>12, CleanupGoes
<1>6. CASE ~Cards!Has(q)
  <2>1. Cards!Restores(p) /\ BoardKept /\ UNCHANGED b_aside
    BY <1>0, <1>6 DEF Cards!Quarantine, BoardKept
  <2>2. UNCHANGED <<b_lock, b_reservation, b_evidence, b_retained>> /\ b_acts' \in 0..MaxActs
    BY <1>1, Quiet
  <2>3. r.at # "restore"
    BY <1>1
  <2> QED BY <1>0, <1>1, <2>1, <2>2, <2>3, Restoring
<1> QED BY <1>5, <1>6

LEMMA VerifyQuarantineKeeps ==
  ASSUME CardsParameters, CardsInv, NEW p \in Proc, Cards!VerifyQuarantine(p) PROVE CardsInv'
<1>0. PICK r, a : r = b_run[p] /\ a = b_aside[p]
  OBVIOUS
<1>1. /\ r.cmd = "cleanup" /\ r.at = "check" /\ Holding(r) /\ UNCHANGED b_retained
      /\ Cards!Keeps /\ BoardKept /\ UNCHANGED b_aside /\ UNCHANGED b_lock
  BY <1>0 DEF Cards!VerifyQuarantine, Cards!Is, BoardKept, Holding
<1>2. /\ RunFits(r, a) /\ RunTyped(r, a) /\ DOMAIN r = Fields /\ NumbersKnown(r)
      /\ Taken(a) /\ SetAside(p, a)
  BY <1>0, <1>1, Holder, AsideKept
<1>3. CASE (\A q \in Cards!Group : a[q] = Cards!Source[q]) /\ ~Cards!Named
  <2>0. PICK r2 : r2 = [r EXCEPT !.at = "reclaim"]
    OBVIOUS
  <2>1. b_run' = [b_run EXCEPT ![p] = r2]
    BY <1>0, <1>3, <2>0 DEF Cards!VerifyQuarantine, Cards!Goes
  <2>2. SameBut(r2, r, {"at"}) /\ r2.at = "reclaim"
    BY <1>2, <2>0 DEF SameBut, Fields
  <2>3. RunTyped(r2, a)
    BY <1>1, <1>2, <2>2 DEF RunTyped, SameBut, Fields, Stepping
  <2>4. CleanupFits(r2, a)
    BY <1>1, <1>2, <1>3, <2>2 DEF CleanupFits, RunFits, SameBut, Fields
  <2>5. Bare(r2.stage)
    BY <1>1, <1>2, <2>2 DEF RestoreFits, RunFits, SameBut, Fields
  <2>6. NumbersKnown(r2)
    BY <1>1, <1>2, <2>2 DEF NumbersKnown, SameBut, Fields, Creating
  <2>7. r2.cmd = "cleanup" /\ r2.at \notin {"end", "protect", "restore"}
    BY <1>1, <2>2 DEF SameBut, Fields
  <2> QED BY <1>0, <1>1, <1>2, <2>1, <2>3, <2>4, <2>5, <2>6, <2>7, CleanupGoes
<1>4. CASE ~((\A q \in Cards!Group : a[q] = Cards!Source[q]) /\ ~Cards!Named)
  <2>1. Cards!Restores(p)
    BY <1>0, <1>4 DEF Cards!VerifyQuarantine
  <2>2. UNCHANGED <<b_lock, b_reservation, b_evidence, b_retained>> /\ b_acts' \in 0..MaxActs
    BY <1>1, Quiet
  <2>3. r.at # "restore"
    BY <1>1
  <2> QED BY <1>0, <1>1, <2>1, <2>2, <2>3, Restoring
<1> QED BY <1>3, <1>4

LEMMA ReclaimKeeps ==
  ASSUME CardsParameters, CardsInv, NEW p \in Proc, Cards!Reclaim(p) PROVE CardsInv'
<1>0. PICK r, a2 : r = b_run[p] /\ a2 = Cards!Nothing
  OBVIOUS
<1>1. /\ r.cmd = "cleanup" /\ r.at = "reclaim" /\ Holding(r) /\ UNCHANGED b_retained
      /\ Cards!Keeps /\ BoardKept /\ b_aside' = [b_aside EXCEPT ![p] = a2] /\ Cards!Stops(p)
  BY <1>0 DEF Cards!Reclaim, Cards!Is, BoardKept, Holding
<1>2. SetAside(p, a2)
  BY <1>1, AsideSet
<1>3. Taken(a2) /\ r.cmd # "maintain"
  BY <1>0, <1>1, NoFiles DEF Taken
<1> QED BY <1>0, <1>1, <1>2, <1>3, MaintenanceStops

LEMMA SourceMovedKeeps ==
  ASSUME CardsParameters, CardsInv, NEW p \in Proc, Cards!SourceMoved(p) PROVE CardsInv'
<1>0. PICK r : r = b_run[p]
  OBVIOUS
<1>1. /\ r.cmd = "cleanup" /\ r.at # "restore" /\ Holding(r)
      /\ BoardKept /\ UNCHANGED b_aside /\ Cards!Restores(p)
      /\ UNCHANGED <<b_lock, b_reservation, b_evidence, b_retained>>
  BY <1>0 DEF Cards!SourceMoved, BoardKept, Holding
<1>2. b_acts' \in 0..MaxActs
  BY DEF Cards!SourceMoved, CardsInv, BoardFits, CardsParameters
<1> QED BY <1>0, <1>1, <1>2, Restoring

-----------------------------------------------------------------------------
(* Maintenance, and the invariant.                                         *)

\* The maintenance goes on: the board stays as it is.
LEMMA MaintainGoes ==
  ASSUME CardsParameters, CardsInv, NEW p \in Proc, NEW r, NEW r2, NEW a,
         r = b_run[p], a = b_aside[p], Holding(r), r.cmd = "maintain", r2.cmd = "maintain",
         r2.at # "end", b_run' = [b_run EXCEPT ![p] = r2],
         UNCHANGED b_lock, UNCHANGED b_retained, Cards!Keeps,
         UNCHANGED b_aside, BoardKept,
         RunTyped(r2, a), MaintainFits(r2), NumbersKnown(r2),
         (r2.at = "swap" => Cards!DoingCard \in DOMAIN b_board)
  PROVE  CardsInv'
<1>1. Stepping(r2.cmd, r2.at)
  BY DEF RunTyped
<1>2. Holding(r2) /\ ~Creating(r2) /\ ~Carrying(r2)
  BY <1>1 DEF Holding, Creating, Carrying, Stepping
<1>3. Bare(a) /\ SetAside(p, a)
  BY Holder, AsideKept
<1>4. RunFits(r2, a)
  <2>1. CarriesFit(r2) /\ CreatesFit(r2)
    BY <1>2 DEF CarriesFit, CreatesFit
  <2>2. r2.cmd \notin {"reconcile", "cleanup"} /\ r2.at # "restore"
    BY <1>1 DEF Stepping
  <2>3. ReconcileFits(r2, a) /\ CleanupFits(r2, a)
    BY <2>2 DEF ReconcileFits, CleanupFits
  <2>4. RestoreFits(r2, a)
    BY <1>3, <2>2 DEF RestoreFits
  <2> QED BY <2>1, <2>3, <2>4 DEF RunFits
<1>5. UNCHANGED <<b_lock, b_reservation, b_evidence, b_retained>> /\ b_acts' \in 0..MaxActs
  BY Quiet
<1>6. r2.at = "swap" => Lying(DoingTask)' # {}
  BY Places DEF BoardKept, Lying
<1> QED BY <1>2, <1>3, <1>4, <1>5, <1>6, HolderGoes

LEMMA MaintainKeeps ==
  ASSUME CardsParameters, CardsInv, NEW p \in Proc, Cards!Maintain(p) PROVE CardsInv'
<1>0. PICK r, e, f, a : /\ r = b_run[p] /\ e = Cards!Begin(p, "maintain", "copy")
                        /\ a = b_aside[p] /\ f = [e EXCEPT !.left = Cards!Zone]
  OBVIOUS
<1>1. /\ r.cmd = "none" /\ b_lock = None /\ b_lock' = p /\ b_run' = [b_run EXCEPT ![p] = f]
      /\ UNCHANGED <<b_reservation, b_evidence, b_retained, b_acts, b_aside>> /\ BoardKept
      /\ b_retained = Cards!Nothing
  BY <1>0 DEF Cards!Maintain, Cards!Keeps, BoardKept
<1>2. /\ DOMAIN e = Fields /\ e.cmd = "maintain" /\ e.at = "copy"
      /\ e.src = Cards!DoingCard /\ e.dst = Cards!DoingCard
      /\ e.stage = Cards!Nothing
      /\ RunTyped(e, a) /\ Bare(a) /\ DOMAIN Cards!Nothing = {}
  BY <1>0, <1>1, BeginIs DEF Stepping
<1>3. SameBut(f, e, {"left"}) /\ f.left = Cards!Zone
  BY <1>0, <1>2 DEF SameBut, Fields
<1>4. /\ f.cmd = "maintain" /\ f.at = "copy"
      /\ f.src = Cards!DoingCard /\ f.dst = Cards!DoingCard /\ f.stage = Cards!Nothing
  BY <1>2, <1>3 DEF SameBut, Fields
<1>5. ~Creating(f) /\ ~Carrying(f) /\ Holding(f)
  BY <1>4 DEF Creating, Carrying, Holding
<1>6. RunTyped(f, a)
  BY <1>2, <1>3 DEF RunTyped, SameBut, Fields
<1>7. MaintainFits(f)
  <2>1. \A q \in Cards!Path : q[1] \in Cards!Zone
    BY DEF Cards!Path
  <2> QED BY <1>2, <1>3, <1>4, <2>1 DEF MaintainFits
<1>8. RunFits(f, a)
  BY <1>2, <1>4, <1>5, <1>6, <1>7 DEF RunFits, CarriesFit, CreatesFit, CleanupFits,
     ReconcileFits, RestoreFits
<1>9. NumbersKnown(f)
  BY <1>2, <1>4, <1>5, Places DEF NumbersKnown, Known
<1>10. ~Exchanged /\ f.at # "swap" /\ f.cmd # "cleanup"
  BY <1>1, <1>2, <1>4 DEF Exchanged
<1> QED BY <1>0, <1>1, <1>5, <1>8, <1>9, <1>10, LockTaken

LEMMA CopyKeeps ==
  ASSUME CardsParameters, CardsInv, NEW p \in Proc, Cards!Copy(p) PROVE CardsInv'
<1> DEFINE there == {q \in Cards!Path : q[1] \in Cards!NextZones(p)}
           copy == [q \in there \cap DOMAIN b_board |-> b_board[q]]
           staged == [q \in DOMAIN b_run[p].stage \cup DOMAIN copy |->
                        IF q \in DOMAIN copy THEN copy[q] ELSE b_run[p].stage[q]]
           seen == Cards!SeesToo(p, [q \in there |-> Cards!At(b_board, q)])
<1>0. PICK r, a, zones : r = b_run[p] /\ a = b_aside[p] /\ zones = Cards!NextZones(p)
  OBVIOUS
<1>1. /\ r.cmd = "maintain" /\ r.at = "copy" /\ Holding(r) /\ UNCHANGED b_retained
      /\ Cards!Keeps /\ BoardKept /\ UNCHANGED b_aside /\ UNCHANGED b_lock
  BY <1>0 DEF Cards!Copy, Cards!Is, BoardKept, Holding
<1>2. /\ RunFits(r, a) /\ RunTyped(r, a) /\ DOMAIN r = Fields /\ NumbersKnown(r)
      /\ Filed(b_board) /\ \A q \in DOMAIN b_board : Known(q[2])
  BY <1>0, <1>1, Holder
<1>3. /\ r.src = Cards!DoingCard /\ r.dst = Cards!DoingCard /\ Filed(r.stage)
      /\ \A q \in Cards!Path :
           IF q[1] \in r.left THEN q \notin DOMAIN r.stage ELSE Copied(r, q)
  BY <1>1, <1>2 DEF RunFits, MaintainFits, RunTyped
<1>4. zones \subseteq r.left
  BY <1>0 DEF Cards!NextZones
<1>5. PICK st, s, at, left : /\ st = staged /\ s = seen
                             /\ at = (IF r.left = zones THEN "stage" ELSE "copy")
                             /\ left = r.left \ zones
  OBVIOUS
<1>6. /\ DOMAIN st = DOMAIN r.stage \cup (there \cap DOMAIN b_board)
      /\ \A q \in there \cap DOMAIN b_board : st[q] = b_board[q]
      /\ \A q \in DOMAIN r.stage \ (there \cap DOMAIN b_board) : st[q] = r.stage[q]
  BY <1>0, <1>5
<1>7. /\ DOMAIN s = DOMAIN r.seen \cup there
      /\ \A q \in there : s[q] = Cards!At(b_board, q)
      /\ \A q \in DOMAIN r.seen \ there : s[q] = r.seen[q]
  BY <1>0, <1>5 DEF Cards!SeesToo
<1>8. PICK r2 : r2 = [r EXCEPT !.stage = st, !.left = left, !.seen = s, !.at = at]
  OBVIOUS
<1>n. b_run' = [b_run EXCEPT ![p].stage = staged, ![p].left = @ \ zones, ![p].seen = seen,
                             ![p].at = IF b_run[p].left = zones THEN "stage" ELSE "copy"]
  BY <1>0 DEF Cards!Copy
<1>m. \A q : q \in there <=> q \in Cards!Path /\ q[1] \in zones
  BY <1>0
<1> HIDE DEF staged, seen, copy, there
<1>9. b_run' = [b_run EXCEPT ![p] = r2]
  BY <1>0, <1>5, <1>8, <1>n
<1>10. SameBut(r2, r, {"at", "left", "seen", "stage"}) /\ r2.at = at /\ r2.left = left
       /\ r2.seen = s /\ r2.stage = st
  BY <1>2, <1>8 DEF SameBut, Fields
<1>11. Filed(st) /\ \A q \in DOMAIN st : Known(q[2])
  BY <1>1, <1>2, <1>3, <1>6 DEF Filed, NumbersKnown
<1>12. RunTyped(r2, a)
  <2>1. left \subseteq Cards!Zone /\ at \in {"copy", "stage"}
    BY <1>1, <1>2, <1>5 DEF RunTyped
  <2> QED BY <1>1, <1>2, <1>10, <1>11, <2>1 DEF RunTyped, SameBut, Fields, Stepping
<1>13. ASSUME NEW q \in Cards!Path
       PROVE  IF q[1] \in left THEN q \notin DOMAIN st ELSE Copied(r2, q)
  <2>1. CASE q[1] \in left
    BY <1>3, <1>5, <1>6, <1>m, <2>1
  <2>2. CASE q[1] \in zones
    <3>1. q \in there /\ q \notin DOMAIN r.stage
      BY <1>3, <1>4, <1>m, <2>2
    <3>2. q \in DOMAIN s /\ s[q] = Cards!At(b_board, q)
      BY <1>7, <3>1
    <3>3. Copied(r2, q)
      <4>1. CASE q \in DOMAIN b_board
        BY <1>6, <1>10, <3>1, <3>2, <4>1 DEF Copied, Cards!At
      <4>2. CASE q \notin DOMAIN b_board
        BY <1>6, <1>10, <3>1, <3>2, <4>2 DEF Copied, Cards!At
      <4> QED BY <4>1, <4>2
    <3> QED BY <1>5, <2>2, <3>3
  <2>3. CASE q[1] \notin r.left
    <3>1. Copied(r, q) /\ q \notin there /\ q[1] \notin left
      BY <1>3, <1>4, <1>5, <1>m, <2>3
    <3>2. q \in DOMAIN s /\ s[q] = r.seen[q]
      BY <1>7, <3>1 DEF Copied
    <3>3. (q \in DOMAIN st <=> q \in DOMAIN r.stage) /\ (q \in DOMAIN r.stage => st[q] = r.stage[q])
      BY <1>6, <3>1
    <3> QED BY <1>10, <3>1, <3>2, <3>3 DEF Copied
  <2> QED BY <1>5, <2>1, <2>2, <2>3
<1>14. MaintainFits(r2)
  <2>1. at = "stage" => left = {}
    BY <1>5
  <2>2. at \in {"stage", "copy"}
    BY <1>5
  <2>3. r2.src = Cards!DoingCard /\ r2.dst = Cards!DoingCard
    BY <1>3, <1>10 DEF SameBut, Fields
  <2> QED BY <1>10, <1>13, <2>1, <2>2, <2>3 DEF MaintainFits
<1>15. NumbersKnown(r2)
  BY <1>1, <1>2, <1>10, <1>11 DEF NumbersKnown, SameBut, Fields, Creating
<1>16. r2.cmd = "maintain" /\ r2.at \notin {"end", "swap"}
  BY <1>1, <1>5, <1>10 DEF SameBut, Fields
<1> QED BY <1>0, <1>1, <1>9, <1>12, <1>14, <1>15, <1>16, MaintainGoes

LEMMA StageKeeps ==
  ASSUME CardsParameters, CardsInv, NEW p \in Proc, Cards!Stage(p) PROVE CardsInv'
<1>0. PICK r, a : r = b_run[p] /\ a = b_aside[p]
  OBVIOUS
<1>1. /\ r.cmd = "maintain" /\ r.at = "stage" /\ Holding(r) /\ UNCHANGED b_retained
      /\ Cards!Keeps /\ BoardKept /\ UNCHANGED b_aside
  BY <1>0 DEF Cards!Stage, Cards!Is, BoardKept, Holding
<1>2. /\ RunFits(r, a) /\ RunTyped(r, a) /\ DOMAIN r = Fields /\ NumbersKnown(r)
      /\ Taken(a) /\ SetAside(p, a) /\ Bare(a)
  BY <1>0, <1>1, Holder, AsideKept
<1>3. CASE Cards!DoingCard \in DOMAIN r.stage
  <2>0. PICK f, g : /\ f = Cards!Without(r.stage, Cards!DoingCard)
                    /\ g = Cards!Put(f, Cards!Replacement, Cards!Planned)
    OBVIOUS
  <2>1. PICK r2 : r2 = [r EXCEPT !.at = "exchange", !.stage = g]
    OBVIOUS
  <2>2. b_run' = [b_run EXCEPT ![p].at = "exchange",
                    ![p].stage = Cards!Put(Cards!Without(@, Cards!DoingCard),
                                           Cards!Replacement, Cards!Planned)]
        /\ UNCHANGED b_lock
    BY <1>0, <1>3 DEF Cards!Stage, Cards!Replaced
  <2>3. b_run' = [b_run EXCEPT ![p] = r2]
    BY <1>0, <2>0, <2>1, <2>2
  <2>4. SameBut(r2, r, {"at", "stage"}) /\ r2.at = "exchange" /\ r2.stage = g
    BY <1>2, <2>1 DEF SameBut, Fields
  <2>5. /\ Filed(f) /\ DOMAIN f = DOMAIN r.stage \ {Cards!DoingCard}
        /\ \A q \in DOMAIN r.stage \ {Cards!DoingCard} : f[q] = r.stage[q]
    BY <1>2, <2>0, WithoutFile DEF RunTyped
  <2>6. /\ Filed(g) /\ DOMAIN g = DOMAIN f \cup {Cards!Replacement}
        /\ \A q \in DOMAIN f \cup {Cards!Replacement} :
             g[q] = IF q = Cards!Replacement THEN Cards!Planned ELSE f[q]
    <3>1. Cards!Planned \in Cards!Text /\ Cards!Replacement \in Cards!Path
      BY Texts, Places
    <3>2. PICK h : h = Cards!Put(f, Cards!Replacement, Cards!Planned)
      OBVIOUS
    <3>3. /\ Filed(h) /\ DOMAIN h = DOMAIN f \cup {Cards!Replacement}
          /\ \A q \in DOMAIN f \cup {Cards!Replacement} :
               h[q] = IF q = Cards!Replacement THEN Cards!Planned ELSE f[q]
      BY <2>5, <3>1, <3>2, PutFiles
    <3> QED BY <2>0, <3>2, <3>3
  <2>7. RunTyped(r2, a)
    BY <1>1, <1>2, <2>4, <2>6 DEF RunTyped, SameBut, Fields, Stepping
  <2>8. MaintainFits(r2)
    <3>1. r.src = Cards!DoingCard /\ r.dst = Cards!DoingCard /\ \A q \in Cards!Path : Copied(r, q)
      BY <1>1, <1>2 DEF RunFits, MaintainFits
    <3>2. r2.seen = r.seen /\ r2.src = r.src /\ r2.dst = r.dst
      BY <2>4 DEF SameBut, Fields
    <3>3. \A q \in Cards!Path \ {Cards!DoingCard, Cards!Replacement} : Copied(r2, q)
      BY <2>4, <2>5, <2>6, <3>1, <3>2 DEF Copied
    <3>4. Cards!Replacement \in DOMAIN g /\ g[Cards!Replacement] = Cards!Planned
      BY <2>6
    <3> QED BY <2>4, <3>1, <3>2, <3>3, <3>4 DEF MaintainFits
  <2>9. NumbersKnown(r2)
    <3>1. \A q \in DOMAIN g : Known(q[2])
      BY <1>2, <2>5, <2>6, Places DEF NumbersKnown, Known
    <3> QED BY <1>1, <1>2, <2>4, <3>1 DEF NumbersKnown, SameBut, Fields, Creating
  <2>10. r2.cmd = "maintain" /\ r2.at \notin {"end", "swap"}
    BY <1>1, <2>4 DEF SameBut, Fields
  <2> QED BY <1>0, <1>1, <2>2, <2>3, <2>7, <2>8, <2>9, <2>10, MaintainGoes
<1>4. CASE Cards!DoingCard \notin DOMAIN r.stage
  <2>1. Cards!Stops(p)
    BY <1>0, <1>4 DEF Cards!Stage
  <2> QED BY <1>0, <1>1, <1>2, <2>1, MaintenanceStops
<1> QED BY <1>3, <1>4

LEMMA VerifyLiveKeeps ==
  ASSUME CardsParameters, CardsInv, NEW p \in Proc, Cards!VerifyLive(p) PROVE CardsInv'
<1>0. PICK r, a, q : r = b_run[p] /\ a = b_aside[p] /\ q = Cards!DoingCard
  OBVIOUS
<1>1. /\ r.cmd = "maintain" /\ r.at = "exchange" /\ Holding(r) /\ UNCHANGED b_retained
      /\ Cards!Keeps /\ BoardKept /\ UNCHANGED b_aside
  BY <1>0 DEF Cards!VerifyLive, Cards!Is, BoardKept, Holding
<1>2. /\ RunFits(r, a) /\ RunTyped(r, a) /\ DOMAIN r = Fields /\ NumbersKnown(r)
      /\ Taken(a) /\ SetAside(p, a) /\ Bare(a)
  BY <1>0, <1>1, Holder, AsideKept
<1>3. CASE Cards!At(b_board, q) = Cards!Planned
  <2>0. PICK r2, s : /\ r2 = [r EXCEPT !.at = "swap", !.seen = s]
                     /\ s = Cards!SeesToo(p, Cards!Looked(q))
    OBVIOUS
  <2>1. b_run' = [b_run EXCEPT ![p] = r2] /\ UNCHANGED b_lock
    BY <1>0, <1>3, <2>0 DEF Cards!VerifyLive
  <2>2. SameBut(r2, r, {"at", "seen"}) /\ r2.at = "swap" /\ r2.seen = s
    BY <1>2, <2>0 DEF SameBut, Fields
  <2>3. SeenToo(s, r.seen, q, Cards!Planned)
    BY <1>0, <1>3, <2>0, Looks
  <2>4. RunTyped(r2, a)
    BY <1>1, <1>2, <2>2 DEF RunTyped, SameBut, Fields, Stepping
  <2>5. MaintainFits(r2)
    <3>1. /\ r.src = Cards!DoingCard /\ r.dst = Cards!DoingCard
          /\ \A y \in Cards!Path \ {Cards!DoingCard, Cards!Replacement} : Copied(r, y)
          /\ Cards!Replacement \in DOMAIN r.stage
          /\ r.stage[Cards!Replacement] = Cards!Planned
      BY <1>1, <1>2 DEF RunFits, MaintainFits
    <3>2. r2.stage = r.stage /\ r2.src = r.src /\ r2.dst = r.dst
      BY <2>2 DEF SameBut, Fields
    <3>3. \A y \in Cards!Path \ {Cards!DoingCard, Cards!Replacement} : Copied(r2, y)
      BY <1>0, <2>2, <2>3, <3>1, <3>2 DEF Copied, SeenToo
    <3>4. Cards!DoingCard \in DOMAIN s /\ s[Cards!DoingCard] = Cards!Planned
      BY <1>0, <2>3 DEF SeenToo
    <3> QED BY <2>2, <3>1, <3>2, <3>3, <3>4 DEF MaintainFits
  <2>6. NumbersKnown(r2)
    BY <1>1, <1>2, <2>2 DEF NumbersKnown, SameBut, Fields, Creating
  <2>7. r2.cmd = "maintain" /\ r2.at # "end"
    BY <1>1, <2>2 DEF SameBut, Fields
  <2>8. Cards!DoingCard \in DOMAIN b_board
    <3>1. Cards!Planned \in Cards!Text /\ Absent \notin Cards!Text
      BY Texts DEF CardsParameters
    <3> QED BY <1>0, <1>3, <3>1 DEF Cards!At
  <2> QED BY <1>0, <1>1, <2>1, <2>4, <2>5, <2>6, <2>7, <2>8, MaintainGoes
<1>4. CASE Cards!At(b_board, q) # Cards!Planned
  <2>1. Cards!Stops(p)
    BY <1>0, <1>4 DEF Cards!VerifyLive
  <2> QED BY <1>0, <1>1, <1>2, <2>1, MaintenanceStops
<1> QED BY <1>3, <1>4

LEMMA ExchangeKeeps ==
  ASSUME CardsParameters, CardsInv, NEW p \in Proc, Cards!Exchange(p) PROVE CardsInv'
<1>0. PICK r, a, e : r = b_run[p] /\ a = b_aside[p] /\ e = Done(r.cmd)
  OBVIOUS
<1>1. /\ r.cmd = "maintain" /\ r.at = "swap" /\ Holding(r)
      /\ Cards!Keeps /\ UNCHANGED b_aside
      /\ b_board' = r.stage /\ b_retained' = b_board /\ Cards!Stops(p)
  BY <1>0 DEF Cards!Exchange, Cards!Is, Holding
<1>2. /\ RunFits(r, a) /\ RunTyped(r, a) /\ NumbersKnown(r) /\ b_lock = p /\ BoardFits
      /\ Taken(a) /\ SetAside(p, a) /\ Bare(a)
  BY <1>0, <1>1, Holder, AsideKept
<1>3. Lying(DoingTask) # {}
  BY <1>0, <1>1 DEF CardsInv, RunHolds
<1>4. Exchanged'
  BY <1>1, <1>3 DEF Exchanged, Lying
<1>5. b_run' = [b_run EXCEPT ![p] = e] /\ b_lock' = None
  BY <1>0, <1>1, <1>2 DEF Cards!Stops, Cards!Ends, Cards!Unlocks, Done
<1>6. /\ UNCHANGED b_reservation /\ UNCHANGED b_evidence /\ b_acts' \in 0..MaxActs
      /\ None \notin Proc
  BY <1>1, Quiet DEF CardsParameters
<1>7. BoardFits'
  <2>1. Filed(b_board') /\ \A q \in DOMAIN b_board' : Known(q[2])'
    <3>1. Filed(r.stage) /\ \A q \in DOMAIN r.stage : Known(q[2])
      BY <1>2 DEF RunTyped, NumbersKnown
    <3> QED BY <1>1, <1>6, <3>1, KnownStays
  <2> QED BY <1>2, <1>4, <1>5, <1>6, <2>1 DEF BoardFits, SetAside
<1>8. Apart(p)
  BY <1>2, <1>4, <1>5, <1>6 DEF Apart, BoardFits, CardsParameters
<1>9. /\ RunFits(e, a) /\ NumbersKnown(e)' /\ ~Holding(e) /\ ~Creating(e) /\ ~Carrying(e)
      /\ e.at = "end"
  <2>1. Stepping(r.cmd, "end")
    BY <1>1 DEF Stepping
  <2> QED BY <1>0, <1>2, <2>1, DoneFits, DoneIs
<1>10. RunHolds(p, e)'
  BY <1>5, <1>6, <1>9 DEF RunHolds
<1> QED BY <1>2, <1>5, <1>7, <1>8, <1>9, <1>10, Advances

-----------------------------------------------------------------------------
\* The invariant holds at the start and is kept by every step.
LEMMA CardsBegin ==
  ASSUME CardsParameters, Cards!Init PROVE CardsInv
<1>0. PICK e : e = Done("none")
  OBVIOUS
<1>1. /\ DOMAIN e = Fields /\ e.cmd = "none" /\ e.at = "end" /\ e.src = Cards!DoingCard
      /\ e.dst = Cards!DoingCard /\ e.seen = Cards!Nothing /\ e.text = None /\ e.left = {}
      /\ e.made = {} /\ e.number = 0 /\ e.stage = Cards!Nothing /\ e = Cards!Idle
  BY <1>0, DoneIs DEF Done, Cards!Idle
<1>2. Filed(Cards!Nothing) /\ DOMAIN Cards!Nothing = {} /\ 0 \in 0..MaxNumber /\ 0 \in 0..MaxActs
  BY NoFiles DEF CardsParameters
<1>3. /\ Known(DoingTask) /\ Known(DoneTask) /\ Known(Receipt) /\ (\A i \in Issue : Known(i))
      /\ Cards!DoingCard[2] = DoingTask /\ Cards!DoingCard \in Cards!Path
  BY Places DEF Known, CardsParameters
<1>4. ~Holding(e) /\ ~Creating(e) /\ ~Carrying(e)
  BY <1>1 DEF Holding, Creating, Carrying
<1>5. RunFits(e, Cards!Nothing)
  <2>1. RunTyped(e, Cards!Nothing)
    BY <1>1, <1>2, <1>3 DEF RunTyped, Stepping, Taken
  <2> QED BY <1>1, <1>2, <1>4, <2>1 DEF RunFits, RestoreFits, CarriesFit, CreatesFit,
          ReconcileFits, CleanupFits, MaintainFits, Bare
<1>6. NumbersKnown(e)
  BY <1>1, <1>2, <1>3, <1>4 DEF NumbersKnown
<1>7. ASSUME NEW p \in Proc PROVE RunHolds(p, e)
  BY <1>1, <1>4, <1>6 DEF RunHolds, Cards!Init, CardsParameters
<1>8. \A p \in Proc : b_run[p] = e /\ b_aside[p] = Cards!Nothing
  BY <1>1 DEF Cards!Init
<1>9. BoardFits
  <2>1. Filed(b_board) /\ \A q \in DOMAIN b_board : Known(q[2])
    BY <1>3, Texts, Places DEF Cards!Init
  <2>2. Cards!Replacement \notin DOMAIN b_board
    BY Texts, Places DEF Cards!Init
  <2> QED BY <1>2, <2>1, <2>2 DEF BoardFits, Cards!Init
<1> QED BY <1>5, <1>7, <1>8, <1>9 DEF CardsInv

LEMMA CardsStay ==
  ASSUME CardsInv, UNCHANGED Cards!vars PROVE CardsInv'
<1>1. /\ UNCHANGED <<b_board, b_aside, b_run, b_lock, b_reservation, b_evidence, b_retained>>
      /\ b_acts' = b_acts
  BY DEF Cards!vars
<1>2. BoardFits'
  BY <1>1 DEF CardsInv, BoardFits, Known, Exchanged
<1>3. ASSUME NEW o \in Proc PROVE RunFits(b_run'[o], b_aside'[o]) /\ RunHolds(o, b_run[o])'
  <2>1. PICK r : r = b_run[o] /\ r = b_run'[o]
    BY <1>1
  <2>2. RunFits(r, b_aside'[o]) /\ RunHolds(o, r)
    BY <1>1, <2>1 DEF CardsInv
  <2>3. RunHolds(o, r)'
    BY <1>1, <2>2, KnownStays DEF RunHolds, Exchanged, Cards!Blocked, Lying
  <2> QED BY <2>1, <2>2, <2>3
<1> QED BY <1>2, <1>3 DEF CardsInv

LEMMA CardsStep ==
  ASSUME CardsParameters, CardsInv, [Cards!Next]_(Cards!vars) PROVE CardsInv'
<1>1. ASSUME NEW p \in Proc, Cards!VerbStep(p) PROVE CardsInv'
  BY <1>1, RenameKeeps, ReadStampKeeps, WriteStampKeeps, ReadLinksKeeps, WriteLinksKeeps,
     NextIssueKeeps, ScanStepsKeep, TakeSentinelKeeps, ReserveKeeps, ReleaseKeeps, WriteNewKeeps,
     ReadIssueKeeps, WriteIssueKeeps, UndoKeeps DEF Cards!VerbStep
<1>2. ASSUME NEW p \in Proc, Cards!MaintenanceStep(p) PROVE CardsInv'
  BY <1>2, ScanKeeps, ScanAgainKeeps, ClaimKeeps, VerifyClaimKeeps, PublishKeeps, LookBackKeeps,
     PutBackKeeps, ProtectKeeps, ProveKeeps, LookAtKeeps, QuarantineKeeps, VerifyQuarantineKeeps,
     ReclaimKeeps, SourceMovedKeeps, CopyKeeps, StageKeeps, VerifyLiveKeeps, ExchangeKeeps
     DEF Cards!MaintenanceStep
<1>3. ASSUME NEW q \in DOMAIN b_board \cup UNION {{b_run[p].src, b_run[p].dst} : p \in Proc},
             Cards!Save(q)
      PROVE  CardsInv'
  BY <1>3, SavedPath, SaveKeeps
<1> QED BY <1>1, <1>2, <1>3, MoveKeeps, ArchiveKeeps, NewKeeps, NewByIdKeeps, PromoteKeeps, ReconcileKeeps,
        CleanupKeeps, MaintainKeeps, KillKeeps, RunsKeeps, CardsStay DEF Cards!Next, Cards!Step

-----------------------------------------------------------------------------
(* The theorems.                                                           *)

\* It is strong enough.
LEMMA CardsKeep ==
  ASSUME CardsParameters, CardsInv PROVE Cards!TypeOK /\ Cards!ActiveKept
<1>1. /\ BoardFits /\ None \notin Proc
      /\ \A p \in Proc : RunFits(b_run[p], b_aside[p]) /\ RunHolds(p, b_run[p])
  BY DEF CardsInv, CardsParameters
<1>2. Cards!ActiveKept
  <2>1. ASSUME NEW p \in Proc, b_run[p].cmd = "cleanup",
               b_run[p].at \in {"look", "take", "check", "reclaim"}
        PROVE  ~Cards!Blocked
    BY <1>1, <2>1 DEF RunHolds, Holding
  <2> QED BY <2>1 DEF Cards!ActiveKept
<1>3. \A p \in Proc : DOMAIN b_aside[p] \subseteq Cards!Path
  BY <1>1 DEF RunFits, RunTyped, Taken, Filed
<1>4. b_lock # None => /\ b_run[b_lock].cmd \in {"reconcile", "cleanup", "maintain"}
                       /\ b_run[b_lock].at # "end"
  <2> SUFFICES ASSUME b_lock # None
               PROVE  /\ b_run[b_lock].cmd \in {"reconcile", "cleanup", "maintain"}
                      /\ b_run[b_lock].at # "end"
    OBVIOUS
  <2>1. PICK p \in Proc : p = b_lock
    BY <1>1 DEF BoardFits
  <2>2. Holding(b_run[p])
    BY <1>1, <2>1 DEF RunHolds
  <2> QED BY <2>1, <2>2 DEF Holding
<1> QED BY <1>1, <1>2, <1>3, <1>4 DEF Cards!TypeOK, BoardFits, Filed

\* Types; the lock's owner is in a command that takes it; and no cleanup touches
\* the finished card while an execution of its task is on (protectCleanup,
\* cleanupBlocker), for any processes, issues, numbers, saves, kills and failures.
THEOREM ActiveKeptAlways == Behaviour => []ActiveKept
<1> USE CardsAssumption
<1> DEFINE C == which = "cards" => CardsInv
<1>1. Begins => C
  BY CardsBegin DEF Begins
<1>2. C /\ [Continues]_all => C'
  <2>1. [Continues]_all => which' = which /\ (which = "cards" => [Cards!Next]_(Cards!vars))
    BY DEF Continues, all, cards, Cards!vars
  <2> QED BY <2>1, CardsStep
<1>3. C => ActiveKept
  BY CardsKeep DEF ActiveKept
<1> QED BY <1>1, <1>2, <1>3, PTL DEF Behaviour

-----------------------------------------------------------------------------
\* The step is p's alone.
Only(p) == b_run' = [o \in Proc |-> IF o = p THEN b_run'[p] ELSE b_run[o]]

LEMMA VerbAlone ==
  ASSUME CardsInv, NEW p \in Proc,
         \/ \E z \in {"review", "blocked", "doing"} : Cards!Move(p, Cards!DoingCard, z)
         \/ Cards!Archive(p, Cards!DoneCard)
         \/ Cards!New(p) \/ (\E n \in Asked : Cards!NewById(p, n))
         \/ Cards!Promote(p) \/ Cards!Kill(p) \/ Cards!VerbStep(p)
  PROVE  Only(p)
<1>1. DOMAIN b_run = Proc
  BY DEF CardsInv, BoardFits
<1>2. Cards!Ends(p) \/ (\E at : Cards!Goes(p, at)) \/ Cards!GivesUp(p) => Only(p)
  BY <1>1 DEF Cards!Ends, Cards!Goes, Cards!GivesUp, Only
<1>3. ASSUME NEW z, Cards!Move(p, Cards!DoingCard, z) PROVE Only(p)
  BY <1>1, <1>3 DEF Cards!Move, Only
<1>4. Cards!Archive(p, Cards!DoneCard) => Only(p)
  BY <1>1 DEF Cards!Archive, Only
<1>5. Cards!New(p) \/ (\E n \in Asked : Cards!NewById(p, n)) \/ Cards!Promote(p) => Only(p)
  BY <1>1 DEF Cards!New, Cards!NewById, Cards!Promote, Only
<1>6. Cards!Kill(p) => Only(p)
  BY <1>2 DEF Cards!Kill
<1>7. Cards!Rename(p) => Only(p)
  BY <1>2 DEF Cards!Rename
<1>8. Cards!ReadStamp(p) => Only(p)
  BY <1>1, <1>2 DEF Cards!ReadStamp, Only
<1>9. Cards!WriteStamp(p) => Only(p)
  BY <1>1, <1>2 DEF Cards!WriteStamp, Only
<1>10. Cards!ReadLinks(p) => Only(p)
  BY <1>1, <1>2 DEF Cards!ReadLinks, Only
<1>11. Cards!WriteLinks(p) => Only(p)
  BY <1>1, <1>2 DEF Cards!WriteLinks, Only
<1>12. Cards!NextIssue(p) => Only(p)
  BY <1>1, <1>2 DEF Cards!NextIssue, Only
<1>13. Cards!Floor(p) \/ Cards!ListZone(p) \/ Cards!ReadFile(p) \/ Cards!RefFloor(p) => Only(p)
  BY <1>1, <1>2 DEF Cards!Floor, Cards!ListZone, Cards!ReadFile, Cards!RefFloor, Only
<1>14. Cards!TakeSentinel(p) => Only(p)
  BY <1>2 DEF Cards!TakeSentinel
<1>15. Cards!Reserve(p) => Only(p)
  BY <1>1, <1>2 DEF Cards!Reserve, Only
<1>16. Cards!Release(p) => Only(p)
  BY <1>2 DEF Cards!Release
<1>17. Cards!WriteNew(p) => Only(p)
  BY <1>1, <1>2 DEF Cards!WriteNew, Only
<1>18. Cards!ReadIssue(p) => Only(p)
  BY <1>1, <1>2 DEF Cards!ReadIssue, Only
<1>19. Cards!WriteIssue(p) => Only(p)
  BY <1>1, <1>2 DEF Cards!WriteIssue, Only
<1>20. Cards!Undo(p) => Only(p)
  BY <1>1, <1>2 DEF Cards!Undo, Only
<1>21. Cards!VerbStep(p) => Only(p)
  BY <1>7, <1>8, <1>9, <1>10, <1>11, <1>12, <1>13, <1>14, <1>15, <1>16, <1>17, <1>18, <1>19,
     <1>20 DEF Cards!VerbStep
<1> QED BY <1>3, <1>4, <1>5, <1>6, <1>21

LEMMA MaintenanceAlone ==
  ASSUME CardsInv, NEW p \in Proc,
         \/ Cards!Reconcile(p) \/ Cards!Cleanup(p) \/ Cards!Maintain(p)
         \/ Cards!MaintenanceStep(p)
  PROVE  Only(p)
<1>1. DOMAIN b_run = Proc
  BY DEF CardsInv, BoardFits
<1>2. \/ Cards!Ends(p) \/ Cards!Stops(p) \/ (\E at : Cards!Goes(p, at))
      \/ (\E at : Cards!TakesLock(p, at)) \/ Cards!Restores(p)
      => Only(p)
  BY <1>1 DEF Cards!Ends, Cards!Stops, Cards!Goes, Cards!TakesLock, Cards!Restores, Only
<1>3. Cards!Reconcile(p) \/ Cards!Cleanup(p) \/ Cards!Maintain(p) => Only(p)
  BY <1>1 DEF Cards!Reconcile, Cards!Cleanup, Cards!Maintain, Only
<1>4. Cards!Scan(p) => Only(p)
  BY <1>1, <1>2 DEF Cards!Scan, Only
<1>5. Cards!ScanAgain(p) => Only(p)
  BY <1>2 DEF Cards!ScanAgain
<1>6. Cards!Claim(p) => Only(p)
  BY <1>2 DEF Cards!Claim
<1>7. Cards!VerifyClaim(p) => Only(p)
  BY <1>1 DEF Cards!VerifyClaim, Only
<1>8. Cards!Publish(p) => Only(p)
  BY <1>2 DEF Cards!Publish
<1>9. Cards!LookBack(p) => Only(p)
  BY <1>1, <1>2 DEF Cards!LookBack, Only
<1>10. Cards!PutBack(p) => Only(p)
  BY <1>1 DEF Cards!PutBack, Only
<1>11. Cards!Protect(p) => Only(p)
  BY <1>2 DEF Cards!Protect
<1>12. Cards!Prove(p) => Only(p)
  BY <1>1, <1>2 DEF Cards!Prove, Only
<1>13. Cards!LookAt(p) => Only(p)
  BY <1>1, <1>2 DEF Cards!LookAt, Only
<1>14. Cards!Quarantine(p) => Only(p)
  BY <1>1, <1>2 DEF Cards!Quarantine, Only
<1>15. Cards!VerifyQuarantine(p) => Only(p)
  BY <1>2 DEF Cards!VerifyQuarantine
<1>16. Cards!Reclaim(p) => Only(p)
  BY <1>2 DEF Cards!Reclaim
<1>17. Cards!SourceMoved(p) => Only(p)
  BY <1>2 DEF Cards!SourceMoved
<1>18. Cards!Copy(p) => Only(p)
  BY <1>1 DEF Cards!Copy, Only
<1>19. Cards!Stage(p) => Only(p)
  BY <1>1, <1>2 DEF Cards!Stage, Only
<1>20. Cards!VerifyLive(p) => Only(p)
  BY <1>1, <1>2 DEF Cards!VerifyLive, Only
<1>21. Cards!Exchange(p) => Only(p)
  BY <1>2 DEF Cards!Exchange
<1> QED BY <1>3, <1>4, <1>5, <1>6, <1>7, <1>8, <1>9, <1>10, <1>11, <1>12, <1>13, <1>14, <1>15,
        <1>16, <1>17, <1>18, <1>19, <1>20, <1>21 DEF Cards!MaintenanceStep

\* Only Reserve gives a number out.
LEMMA ReserveAlone ==
  ASSUME CardsParameters, CardsInv, Cards!Next, NEW o \in Proc,
         b_run[o].at = "reserve", b_run'[o].at = "release"
  PROVE  Cards!Reserve(o)
<1>1. b_run[o].cmd \in {"new", "promote"} /\ DOMAIN b_run = Proc
  BY DEF CardsInv, BoardFits, RunFits, RunTyped, Stepping
<1>2. ASSUME NEW p \in Proc, Only(p) PROVE p = o
  BY <1>2 DEF Only
<1>3. ASSUME NEW p \in Proc, Cards!VerbStep(p) PROVE Cards!Reserve(o)
  <2>1. p = o
    BY <1>2, <1>3, VerbAlone
  <2>2. Cards!VerbStep(o)
    BY <1>3, <2>1
  <2> QED BY <1>1, <2>2 DEF Cards!VerbStep, Cards!Rename, Cards!ReadStamp, Cards!WriteStamp,
          Cards!ReadLinks, Cards!WriteLinks, Cards!NextIssue, Cards!Floor, Cards!ListZone,
          Cards!ReadFile, Cards!RefFloor, Cards!Walks, Cards!TakeSentinel, Cards!Release, Cards!WriteNew, Cards!ReadIssue, Cards!WriteIssue, Cards!Undo, Cards!Is
<1>4. ASSUME NEW p \in Proc, Cards!MaintenanceStep(p) PROVE FALSE
  <2>1. p = o
    BY <1>2, <1>4, MaintenanceAlone
  <2>2. Cards!MaintenanceStep(o)
    BY <1>4, <2>1
  <2> QED BY <1>1, <2>2 DEF Cards!MaintenanceStep, Cards!Scan, Cards!ScanAgain, Cards!Claim,
          Cards!VerifyClaim, Cards!Publish, Cards!LookBack, Cards!PutBack, Cards!Protect,
          Cards!Prove, Cards!LookAt, Cards!Quarantine, Cards!VerifyQuarantine, Cards!Reclaim,
          Cards!SourceMoved, Cards!Copy, Cards!Stage, Cards!VerifyLive, Cards!Exchange, Cards!Is
<1>5. ASSUME NEW p \in Proc, Cards!Kill(p) PROVE FALSE
  <2>1. p = o
    BY <1>2, <1>5, VerbAlone
  <2>2. b_run'[o].at = "end"
    BY <1>1, <1>5, <2>1 DEF Cards!Kill, Cards!Ends, Cards!Idle
  <2> QED BY <2>2
<1>6. ASSUME NEW p \in Proc, NEW z \in {"review", "blocked", "doing"},
             Cards!Move(p, Cards!DoingCard, z)
      PROVE FALSE
  <2>1. p = o
    BY <1>2, <1>6, VerbAlone
  <2> QED BY <1>1, <1>6, <2>1 DEF Cards!Move
<1>7. ASSUME NEW p \in Proc,
             \/ Cards!Archive(p, Cards!DoneCard) \/ Cards!New(p) \/ Cards!Promote(p)
             \/ \E n \in Asked : Cards!NewById(p, n)
      PROVE FALSE
  <2>1. p = o
    BY <1>2, <1>7, VerbAlone
  <2> QED BY <1>1, <1>7, <2>1 DEF Cards!Archive, Cards!New, Cards!NewById, Cards!Promote
<1>8. ASSUME NEW p \in Proc, Cards!Reconcile(p) \/ Cards!Cleanup(p) \/ Cards!Maintain(p)
      PROVE FALSE
  <2>1. p = o
    BY <1>2, <1>8, MaintenanceAlone
  <2> QED BY <1>1, <1>8, <2>1 DEF Cards!Reconcile, Cards!Cleanup, Cards!Maintain
<1>9. ASSUME NEW q, Cards!Save(q) PROVE FALSE
  BY <1>9 DEF Cards!Save
<1>10. ASSUME NEW t \in {DoingTask, DoneTask}, NEW e \in {"active", "abort"}, Cards!Runs(t, e)
       PROVE FALSE
  BY <1>10 DEF Cards!Runs
<1> QED BY <1>3, <1>4, <1>5, <1>6, <1>7, <1>8, <1>9, <1>10 DEF Cards!Next, Cards!Step

\* What the scan of a command has found: nothing that has stayed is missed.
Scanned(r, s) ==
  /\ r.at = "walk" =>
       \A q \in s : q[1] \in r.zones \/ q \in r.files \/ Cards!NumberOf(q[2]) <= r.number
  /\ r.at \in {"lock", "reserve"} =>
       RefHighest <= r.number /\ \A q \in s : Cards!NumberOf(q[2]) <= r.number
ScanInv == \A p \in Proc : Scanned(b_run[p], b_stayed[p])

\* What a step leaves of the files that have stayed.
LEMMA Staying ==
  ASSUME Cards!Next, NEW o \in Proc
  PROVE  /\ ~Cards!Scanning(b_run'[o]) => b_stayed'[o] = {}
         /\ Cards!Scanning(b_run'[o]) /\ Cards!Scanning(b_run[o]) =>
              b_stayed'[o] = b_stayed[o] \cap DOMAIN b_board'
         /\ Cards!Scanning(b_run'[o]) /\ ~Cards!Scanning(b_run[o]) =>
              b_stayed'[o] = DOMAIN b_board'
  BY DEF Cards!Next, Cards!Stays

\* A command at its scan before a step and after it took a step of the scan, or
\* none.
ScanStep(o) ==
  \/ Cards!Floor(o) \/ Cards!ListZone(o) \/ Cards!ReadFile(o) \/ Cards!RefFloor(o)
  \/ Cards!TakeSentinel(o)

\* The other verbs' steps do not end at the scan.
LEMMA VerbLeaves ==
  ASSUME CardsInv, NEW o \in Proc, Cards!VerbStep(o), ~ScanStep(o)
  PROVE  b_run'[o].at \notin {"walk", "lock", "reserve"}
<1> DEFINE S == {"walk", "lock", "reserve"}
<1>1. DOMAIN b_run = Proc /\ DOMAIN b_run[o] = Fields /\ {"at", "cmd"} \subseteq Fields
  BY DEF CardsInv, BoardFits, RunFits, RunTyped, Fields
<1>2. Cards!Ends(o) => b_run'[o].at \notin S
  BY <1>1 DEF Cards!Ends, Cards!Idle
<1>3. \A at : Cards!Goes(o, at) => b_run'[o].at = at
  BY <1>1 DEF Cards!Goes
<1>4. Cards!GivesUp(o) => b_run'[o].at \notin S
  BY <1>2, <1>3 DEF Cards!GivesUp
<1>5. Cards!Rename(o) => b_run'[o].at \notin S
  BY <1>2, <1>3 DEF Cards!Rename
<1>6. Cards!ReadStamp(o) => b_run'[o].at \notin S
  BY <1>1, <1>2 DEF Cards!ReadStamp
<1>7. Cards!WriteStamp(o) => b_run'[o].at \notin S
  BY <1>1, <1>2 DEF Cards!WriteStamp
<1>8. ASSUME Cards!ReadLinks(o) PROVE b_run'[o].at \notin S
  <2>1. CASE Cards!Ends(o)
    BY <1>2, <2>1
  <2>2. CASE ~Cards!Ends(o)
    <3>1. PICK d \in DOMAIN b_board :
            b_run' = [b_run EXCEPT ![o].text = b_board[d], ![o].left = {d},
                                   ![o].seen = Cards!SeesToo(o, Cards!Looked(d))]
      BY <1>8, <2>2 DEF Cards!ReadLinks, Cards!Linking
    <3> QED BY <1>1, <1>8, <3>1 DEF Cards!ReadLinks
  <2> QED BY <2>1, <2>2
<1>9. Cards!WriteLinks(o) => b_run'[o].at \notin S
  BY <1>1 DEF Cards!WriteLinks
<1>10. Cards!NextIssue(o) => b_run'[o].at \notin S
  BY <1>1, <1>2 DEF Cards!NextIssue
<1>11. Cards!Reserve(o) => b_run'[o].at \notin S
  BY <1>1, <1>4 DEF Cards!Reserve
<1>12. Cards!Release(o) => b_run'[o].at \notin S
  BY <1>3 DEF Cards!Release
<1>13. Cards!WriteNew(o) => b_run'[o].at \notin S
  BY <1>1, <1>2, <1>4 DEF Cards!WriteNew
<1>14. Cards!ReadIssue(o) => b_run'[o].at \notin S
  BY <1>1, <1>4 DEF Cards!ReadIssue, Cards!Is
<1>15. Cards!WriteIssue(o) => b_run'[o].at \notin S
  BY <1>1 DEF Cards!WriteIssue
<1>16. Cards!Undo(o) => b_run'[o].at \notin S
  BY <1>1, <1>2 DEF Cards!Undo, Cards!Is
<1> HIDE DEF S
<1>17. b_run'[o].at \notin S
  BY <1>5, <1>6, <1>7, <1>8, <1>9, <1>10, <1>11, <1>12, <1>13, <1>14, <1>15, <1>16
     DEF Cards!VerbStep, ScanStep
<1> QED BY <1>17 DEF S

\* Nor do those of the maintenance commands.
LEMMA MaintenanceLeaves ==
  ASSUME CardsInv, NEW o \in Proc, Cards!MaintenanceStep(o)
  PROVE  b_run'[o].at \notin {"walk", "lock", "reserve"}
<1> DEFINE S == {"walk", "lock", "reserve"}
<1>1. DOMAIN b_run = Proc /\ DOMAIN b_run[o] = Fields /\ {"at", "cmd"} \subseteq Fields
  BY DEF CardsInv, BoardFits, RunFits, RunTyped, Fields
<1>2. Cards!Stops(o) \/ Cards!Ends(o) \/ Cards!Restores(o) => b_run'[o].at \notin S
  BY <1>1 DEF Cards!Stops, Cards!Ends, Cards!Idle, Cards!Restores
<1>3. \A at : Cards!Goes(o, at) \/ Cards!TakesLock(o, at) => b_run'[o].at = at
  BY <1>1 DEF Cards!Goes, Cards!TakesLock
<1>4. Cards!Scan(o) => b_run'[o].at \notin S
  BY <1>1, <1>2 DEF Cards!Scan
<1>5. Cards!ScanAgain(o) => b_run'[o].at \notin S
  BY <1>2, <1>3 DEF Cards!ScanAgain
<1>6. Cards!Claim(o) => b_run'[o].at \notin S
  BY <1>2, <1>3 DEF Cards!Claim
<1>7. Cards!VerifyClaim(o) => b_run'[o].at \notin S
  BY <1>1 DEF Cards!VerifyClaim
<1>8. Cards!Publish(o) => b_run'[o].at \notin S
  BY <1>2 DEF Cards!Publish
<1>9. Cards!LookBack(o) => b_run'[o].at \notin S
  BY <1>1, <1>2 DEF Cards!LookBack
<1>10. Cards!PutBack(o) => b_run'[o].at \notin S
  BY <1>1 DEF Cards!PutBack
<1>11. Cards!Protect(o) => b_run'[o].at \notin S
  BY <1>2, <1>3 DEF Cards!Protect
<1>12. Cards!Prove(o) => b_run'[o].at \notin S
  BY <1>1, <1>2 DEF Cards!Prove
<1>13. Cards!LookAt(o) => b_run'[o].at \notin S
  BY <1>1, <1>2 DEF Cards!LookAt
<1>14. Cards!Quarantine(o) => b_run'[o].at \notin S
  BY <1>1, <1>2 DEF Cards!Quarantine
<1>15. Cards!VerifyQuarantine(o) => b_run'[o].at \notin S
  BY <1>2, <1>3 DEF Cards!VerifyQuarantine
<1>16. Cards!Reclaim(o) => b_run'[o].at \notin S
  BY <1>2 DEF Cards!Reclaim
<1>17. Cards!SourceMoved(o) => b_run'[o].at \notin S
  BY <1>2 DEF Cards!SourceMoved
<1>18. ASSUME Cards!Copy(o) PROVE b_run'[o].at \notin S
  <2>1. b_run'[o].at \in {"stage", "copy"}
    BY <1>1, <1>18 DEF Cards!Copy
  <2> QED BY <2>1
<1>19. Cards!Stage(o) => b_run'[o].at \notin S
  BY <1>1, <1>2 DEF Cards!Stage
<1>20. Cards!VerifyLive(o) => b_run'[o].at \notin S
  BY <1>1, <1>2 DEF Cards!VerifyLive
<1>21. Cards!Exchange(o) => b_run'[o].at \notin S
  BY <1>2 DEF Cards!Exchange
<1> HIDE DEF S
<1>22. b_run'[o].at \notin S
  BY <1>4, <1>5, <1>6, <1>7, <1>8, <1>9, <1>10, <1>11, <1>12, <1>13, <1>14, <1>15, <1>16,
     <1>17, <1>18, <1>19, <1>20, <1>21 DEF Cards!MaintenanceStep
<1> QED BY <1>22 DEF S

\* So a command whose record has changed and that is at its scan took a step of it.
LEMMA ScanAlone ==
  ASSUME CardsParameters, CardsInv, Cards!Next, NEW o \in Proc,
         b_run'[o] # b_run[o], b_run'[o].at \in {"walk", "lock", "reserve"}
  PROVE  ScanStep(o)
<1>1. DOMAIN b_run = Proc
  BY DEF CardsInv, BoardFits
<1>2. ASSUME NEW p \in Proc, Only(p) PROVE p = o
  BY <1>2 DEF Only
<1>3. ASSUME NEW p \in Proc, Cards!VerbStep(p) PROVE ScanStep(o)
  <2>1. p = o
    BY <1>2, <1>3, VerbAlone
  <2> QED BY <1>3, <2>1, VerbLeaves
<1>4. ASSUME NEW p \in Proc, Cards!MaintenanceStep(p) PROVE FALSE
  <2>1. p = o
    BY <1>2, <1>4, MaintenanceAlone
  <2> QED BY <1>4, <2>1, MaintenanceLeaves
<1>5. ASSUME NEW p \in Proc, Cards!Kill(p) PROVE FALSE
  <2>1. p = o
    BY <1>2, <1>5, VerbAlone
  <2>2. b_run'[o].at = "end"
    BY <1>1, <1>5, <2>1 DEF Cards!Kill, Cards!Ends, Cards!Idle
  <2> QED BY <2>2
<1>6. ASSUME NEW p \in Proc, NEW z \in {"review", "blocked", "doing"},
             Cards!Move(p, Cards!DoingCard, z)
      PROVE FALSE
  <2>1. p = o
    BY <1>2, <1>6, VerbAlone
  <2>2. b_run'[o].at \in {"end", "cell", "rename"}
    BY <1>1, <1>6, <2>1 DEF Cards!Move, Cards!Begin, Cards!Idle
  <2> QED BY <2>2
<1>7. ASSUME NEW p \in Proc, Cards!Archive(p, Cards!DoneCard) PROVE FALSE
  <2>1. p = o
    BY <1>2, <1>7, VerbAlone
  <2>2. b_run'[o].at \in {"end", "word"}
    BY <1>1, <1>7, <2>1 DEF Cards!Archive, Cards!Begin, Cards!Idle
  <2> QED BY <2>2
<1>8. ASSUME NEW p \in Proc,
             Cards!New(p) \/ (\E n \in Asked : Cards!NewById(p, n)) \/ Cards!Promote(p)
      PROVE FALSE
  <2>1. p = o
    BY <1>2, <1>8, VerbAlone
  <2>2. b_run'[o].at \in {"floor", "write", "next"}
    BY <1>1, <1>8, <2>1 DEF Cards!New, Cards!NewById, Cards!Promote, Cards!Begin, Cards!Idle
  <2> QED BY <2>2
<1>9. ASSUME NEW p \in Proc, Cards!Reconcile(p) \/ Cards!Cleanup(p) \/ Cards!Maintain(p)
      PROVE FALSE
  <2>1. p = o
    BY <1>2, <1>9, MaintenanceAlone
  <2>2. b_run'[o].at \in {"scan", "protect", "copy"}
    BY <1>1, <1>9, <2>1 DEF Cards!Reconcile, Cards!Cleanup, Cards!Maintain, Cards!Begin, Cards!Idle
  <2> QED BY <2>2
<1>10. ASSUME NEW q, Cards!Save(q) PROVE FALSE
  BY <1>10 DEF Cards!Save
<1>11. ASSUME NEW t \in {DoingTask, DoneTask}, NEW e \in {"active", "abort"}, Cards!Runs(t, e)
       PROVE FALSE
  BY <1>11 DEF Cards!Runs
<1> QED BY <1>3, <1>4, <1>5, <1>6, <1>7, <1>8, <1>9, <1>10, <1>11 DEF Cards!Next, Cards!Step

LEMMA ScanBegin == ASSUME Cards!Init PROVE ScanInv
<1>1. \A p \in Proc : b_run[p].at = "end"
  BY DEF Cards!Init, Cards!Idle
<1> QED BY <1>1 DEF ScanInv, Scanned

\* Of a scan that goes on, no file that has stayed is forgotten.
LEMMA ScanFinds ==
  ASSUME CardsParameters, CardsInv, ScanInv, NEW o \in Proc, ScanStep(o), Cards!Next
  PROVE  Scanned(b_run'[o], b_stayed'[o])
<1>0. PICK r, r2, s, s2 : /\ r = b_run[o] /\ r2 = b_run'[o]
                          /\ s = b_stayed[o] /\ s2 = b_stayed'[o]
  OBVIOUS
<1>1. /\ r.cmd \in {"new", "promote"} /\ r.at \in {"floor", "walk", "lock"} /\ Creating(r)
      /\ b_board' = b_board
  BY <1>0 DEF ScanStep, Cards!Floor, Cards!ListZone, Cards!ReadFile, Cards!RefFloor, Cards!Walks,
     Cards!TakeSentinel, Creating
<1>2. /\ CreatesFit(r) /\ DOMAIN r = Fields /\ DOMAIN b_run = Proc
  BY <1>0, <1>1, Creator DEF BoardFits
<1>3. r.at \in {"walk", "lock"} => r.number \in Nat
  BY <1>1, <1>2 DEF CreatesFit
<1>4. Scanned(r, s)
  BY <1>0 DEF ScanInv
<1>5. \A q : Cards!NumberOf(q[2]) \in Nat
  BY NumberIs
<1>6. CASE Cards!GivesUp(o)
  <2>1. b_run'[o].at \in {"undo", "end"}
    BY <1>0, <1>1, <1>2, <1>6 DEF Cards!GivesUp, Cards!Goes, Cards!Ends, Cards!Idle, Fields
  <2> QED BY <1>0, <2>1 DEF Scanned
<1>7. CASE Cards!Floor(o)
  <2>1. PICK empty :
          b_run' = [b_run EXCEPT ![o].at = "walk", ![o].number = 0, ![o].files = {},
                                 ![o].zones = {q[1] : q \in DOMAIN b_board} \cup empty]
    BY <1>7 DEF Cards!Floor
  <2>2. r2.at = "walk" /\ r2.zones = {q[1] : q \in DOMAIN b_board} \cup empty
    BY <1>0, <1>2, <2>1 DEF Fields
  <2>3. r.at = "floor"
    BY <1>0, <1>7 DEF Cards!Floor
  <2>4. s2 = DOMAIN b_board
    BY <1>0, <1>1, <2>2, <2>3, Staying DEF Cards!Scanning
  <2>5. \A q \in s2 : q[1] \in r2.zones
    BY <2>2, <2>4
  <2> QED BY <1>0, <2>2, <2>5 DEF Scanned
<1>8. CASE Cards!ListZone(o) /\ ~Cards!GivesUp(o)
  <2>1. PICK z, c :
          /\ b_run' = [b_run EXCEPT ![o].zones = b_run[o].zones \ {z}, ![o].files = c]
          /\ c = {q \in {x \in DOMAIN b_board : x[1] = z} : Cards!NumberOf(q[2]) > 0}
    BY <1>8 DEF Cards!ListZone
  <2>2. r2.at = r.at /\ r2.number = r.number /\ r2.zones = r.zones \ {z} /\ r2.files = c
    BY <1>0, <1>2, <2>1 DEF Fields
  <2>3. r.at = "walk" /\ r.files = {}
    BY <1>0, <1>8 DEF Cards!ListZone, Cards!Walks
  <2>4. s2 = s \cap DOMAIN b_board
    BY <1>0, <1>1, <2>2, <2>3, Staying DEF Cards!Scanning
  <2>5. ASSUME NEW q \in s2
        PROVE  q[1] \in r2.zones \/ q \in r2.files \/ Cards!NumberOf(q[2]) <= r2.number
    <3>1. q \in DOMAIN b_board /\ (q[1] \in r.zones \/ Cards!NumberOf(q[2]) <= r.number)
      BY <1>4, <2>3, <2>4, <2>5 DEF Scanned
    <3>2. Cards!NumberOf(q[2]) \in Nat /\ r.number \in Nat
      BY <1>3, <1>5, <2>3
    <3>3. CASE q[1] = z
      <4>1. Cards!NumberOf(q[2]) > 0 => q \in c
        BY <2>1, <3>1, <3>3
      <4> QED BY <2>2, <3>2, <4>1
    <3>4. CASE q[1] # z
      BY <2>2, <3>1, <3>4
    <3> QED BY <3>3, <3>4
  <2> QED BY <1>0, <2>2, <2>3, <2>5 DEF Scanned
<1>9. CASE Cards!ReadFile(o)
  <2>1. r.at = "walk"
    BY <1>0, <1>9 DEF Cards!ReadFile, Cards!Walks
  <2>2. PICK x \in r.files :
          b_run' = [b_run EXCEPT ![o].files = b_run[o].files \ {x},
                                 ![o].number = IF Cards!Has(x)
                                   THEN Cards!Higher(b_run[o].number, Cards!NumberOf(x[2]))
                                   ELSE b_run[o].number]
    BY <1>0, <1>9 DEF Cards!ReadFile
  <2>3. PICK n : n = IF Cards!Has(x) THEN Cards!Higher(r.number, Cards!NumberOf(x[2])) ELSE r.number
    OBVIOUS
  <2>4. b_run' = [b_run EXCEPT ![o].files = r.files \ {x}, ![o].number = n]
    BY <1>0, <2>2, <2>3
  <2>5. r2.at = "walk" /\ r2.number = n /\ r2.zones = r.zones /\ r2.files = r.files \ {x}
    BY <1>0, <1>2, <2>1, <2>4 DEF Fields
  <2>6. r.number \in Nat /\ n \in Nat /\ r.number <= n /\ (Cards!Has(x) => Cards!NumberOf(x[2]) <= n)
    BY <1>3, <1>5, <2>1, <2>3 DEF Cards!Higher
  <2>7. s2 = s \cap DOMAIN b_board
    BY <1>0, <1>1, <2>1, <2>5, Staying DEF Cards!Scanning
  <2>8. ASSUME NEW q \in s2
        PROVE  q[1] \in r2.zones \/ q \in r2.files \/ Cards!NumberOf(q[2]) <= r2.number
    <3>1. q \in DOMAIN b_board
          /\ (q[1] \in r.zones \/ q \in r.files \/ Cards!NumberOf(q[2]) <= r.number)
      BY <1>4, <2>1, <2>7, <2>8 DEF Scanned
    <3>2. Cards!NumberOf(q[2]) \in Nat
      BY <1>5
    <3>3. CASE q = x
      BY <2>5, <2>6, <3>1, <3>3 DEF Cards!Has
    <3>4. CASE q # x
      BY <2>5, <2>6, <3>1, <3>2, <3>4
    <3> QED BY <3>3, <3>4
  <2> QED BY <1>0, <2>5, <2>8 DEF Scanned
<1>10. CASE Cards!RefFloor(o)
  <2>1. r.at = "walk" /\ r.files = {} /\ r.zones = {}
    BY <1>0, <1>10 DEF Cards!RefFloor, Cards!Walks
  <2>2. PICK n : n = Cards!Higher(r.number, RefHighest)
    OBVIOUS
  <2>3. r2.at = "lock" /\ r2.number = n
    BY <1>0, <1>2, <1>10, <2>2 DEF Cards!RefFloor, Fields
  <2>4. r.number \in Nat /\ n \in Nat /\ r.number <= n /\ RefHighest <= n
    BY <1>3, <2>1, <2>2 DEF Cards!Higher, CardsParameters
  <2>5. s2 = s \cap DOMAIN b_board
    BY <1>0, <1>1, <2>1, <2>3, Staying DEF Cards!Scanning
  <2>6. \A q \in s : Cards!NumberOf(q[2]) <= r.number
    BY <1>4, <2>1 DEF Scanned
  <2>7. ASSUME NEW q \in s2 PROVE Cards!NumberOf(q[2]) <= n
    BY <1>5, <2>4, <2>5, <2>6, <2>7
  <2> QED BY <1>0, <2>3, <2>4, <2>7 DEF Scanned
<1>11. CASE Cards!TakeSentinel(o) /\ ~Cards!GivesUp(o)
  <2>1. Cards!Goes(o, "reserve") /\ r.at = "lock"
    BY <1>0, <1>11 DEF Cards!TakeSentinel
  <2>2. r2.at = "reserve" /\ r2.number = r.number
    BY <1>0, <1>2, <2>1 DEF Cards!Goes, Fields
  <2>3. s2 = s \cap DOMAIN b_board
    BY <1>0, <1>1, <2>1, <2>2, Staying DEF Cards!Scanning
  <2> QED BY <1>0, <1>4, <2>1, <2>2, <2>3 DEF Scanned
<1> QED BY <1>6, <1>7, <1>8, <1>9, <1>10, <1>11 DEF ScanStep

LEMMA ScanKept ==
  ASSUME CardsParameters, CardsInv, ScanInv, [Cards!Next]_(Cards!vars) PROVE ScanInv'
<1>1. CASE UNCHANGED Cards!vars
  BY <1>1 DEF Cards!vars, ScanInv
<1>2. ASSUME Cards!Next, NEW o \in Proc PROVE Scanned(b_run'[o], b_stayed'[o])
  <2>1. CASE b_run'[o].at \notin {"walk", "lock", "reserve"}
    BY <2>1 DEF Scanned
  <2>2. CASE b_run'[o].at \in {"walk", "lock", "reserve"} /\ b_run'[o] # b_run[o]
    BY <1>2, <2>2, ScanAlone, ScanFinds
  <2>3. CASE b_run'[o].at \in {"walk", "lock", "reserve"} /\ b_run'[o] = b_run[o]
    <3>1. b_stayed'[o] \subseteq b_stayed[o]
      BY <1>2, <2>3, Staying DEF Cards!Scanning
    <3>2. Scanned(b_run[o], b_stayed[o])
      BY DEF ScanInv
    <3> QED BY <2>3, <3>1, <3>2 DEF Scanned
  <2> QED BY <2>1, <2>2, <2>3
<1> QED BY <1>1, <1>2 DEF ScanInv

\* The number it gives out is new.
LEMMA ReserveFresh ==
  ASSUME CardsParameters, CardsInv, ScanInv, NEW p \in Proc, Cards!Reserve(p),
         b_run'[p].at = "release"
  PROVE  /\ b_run'[p].number > RefHighest
         /\ \A q \in Cards!Homes(b_run'[p].number) : q[2] \notin Cards!Number /\ q \notin b_stayed[p]
         /\ \A o \in Proc \ {p} : b_run[o].at \in {"release", "write", "stamp"} =>
                                    b_run[o].number # b_run'[p].number
<1>0. PICK r, next : r = b_run[p] /\ next = Cards!Reached(p) + 1
  OBVIOUS
<1>1. r.cmd \in {"new", "promote"} /\ r.at = "reserve" /\ Creating(r) /\ DOMAIN b_run = Proc
  BY <1>0 DEF Cards!Reserve, Creating, CardsInv, BoardFits
<1>2. /\ RunTyped(r, b_aside[p]) /\ CreatesFit(r) /\ DOMAIN r = Fields /\ BoardFits
      /\ b_reservation.highest \in Nat /\ Scanned(r, b_stayed[p])
  <2>1. RunTyped(r, b_aside[p]) /\ CreatesFit(r) /\ DOMAIN r = Fields /\ BoardFits
    BY <1>0, <1>1, Creator
  <2> QED BY <1>0, <2>1 DEF BoardFits, ScanInv
<1>3. next \in Nat /\ next > r.number /\ next > b_reservation.highest /\ r.number \in Nat
  <2>1. r.number \in Nat
    BY <1>1, <1>2 DEF CreatesFit
  <2> QED BY <1>0, <1>2, <2>1 DEF Cards!Reached, Cards!Higher
<1>4. CASE next <= MaxNumber
  <2>1. b_run' = [b_run EXCEPT ![p].at = "release", ![p].number = next]
    BY <1>0, <1>3, <1>4 DEF Cards!Reserve, CardsParameters
  <2>2. PICK r2 : r2 = [r EXCEPT !.at = "release", !.number = next]
    OBVIOUS
  <2>3. b_run' = [b_run EXCEPT ![p] = r2]
    BY <1>0, <2>1, <2>2
  <2>4. b_run'[p].number = next
    BY <1>1, <1>2, <2>2, <2>3 DEF Fields
  <2>5. ~Known(next)
    BY <1>2, <1>3 DEF Known
  <2>6. RefHighest <= r.number /\ \A q \in b_stayed[p] : Cards!NumberOf(q[2]) <= r.number
    BY <1>1, <1>2 DEF Scanned
  <2>7. next > RefHighest
    BY <1>3, <2>6 DEF CardsParameters
  <2>8. ASSUME NEW q \in Cards!Homes(next) PROVE q[2] \notin Cards!Number /\ q \notin b_stayed[p]
    <3>1. q \in DOMAIN b_board /\ Cards!NumberOf(q[2]) = next
      BY <2>8 DEF Cards!Homes
    <3>2. Known(q[2])
      BY <1>2, <3>1 DEF BoardFits
    <3>3. q[2] \notin Cards!Number
      <4>1. q[2] \in Cards!Number => Cards!NumberOf(q[2]) = q[2]
        BY DEF Cards!NumberOf
      <4> QED BY <2>5, <3>1, <3>2, <4>1
    <3>4. q \notin b_stayed[p]
      BY <1>3, <2>6, <3>1
    <3> QED BY <3>3, <3>4
  <2>9. ASSUME NEW o \in Proc \ {p}, b_run[o].at \in {"release", "write", "stamp"}
        PROVE  b_run[o].number # next
    <3>1. PICK q : q = b_run[o]
      OBVIOUS
    <3>2. NumbersKnown(q) /\ Stepping(q.cmd, q.at)
      BY <3>1 DEF CardsInv, RunHolds, RunFits, RunTyped
    <3>3. Known(q.number)
      BY <2>9, <3>1, <3>2 DEF NumbersKnown, Creating, Stepping
    <3> QED BY <2>5, <3>1, <3>3
  <2> QED BY <2>4, <2>7, <2>8, <2>9
<1>5. CASE next > MaxNumber
  <2>1. Cards!GivesUp(p)
    BY <1>0, <1>5 DEF Cards!Reserve
  <2>2. b_run'[p].at \in {"undo", "end"}
    <3>1. CASE r.cmd = "promote"
      <4>1. PICK r2 : r2 = [r EXCEPT !.at = "undo"]
        OBVIOUS
      <4>2. b_run' = [b_run EXCEPT ![p] = r2]
        BY <1>0, <2>1, <3>1, <4>1 DEF Cards!GivesUp, Cards!Goes
      <4> QED BY <1>1, <1>2, <4>1, <4>2 DEF Fields
    <3>2. CASE r.cmd # "promote"
      BY <1>0, <1>1, <2>1, <3>2 DEF Cards!GivesUp, Cards!Ends, Cards!Idle
    <3> QED BY <3>1, <3>2
  <2> QED BY <2>2
<1> QED BY <1>3, <1>4, <1>5 DEF CardsParameters

\* The ledger gives no number twice, none a commit names, none that a card it made
\* has, and none of another card that has stayed where it is since the scan began,
\* whoever fails, is killed, moves or edits cards in between (ScanFloor, RefFloor,
\* cardid.Next), for any numbers the two tasks have and any that are passed by hand.
THEOREM NumbersOnceAlways == Behaviour => NumbersOnce
<1> USE CardsAssumption
<1> DEFINE C == which = "cards" => CardsInv /\ ScanInv
           Once == \A p \in Proc :
             b_run[p].at = "reserve" /\ b_run'[p].at = "release" =>
               LET n == b_run'[p].number
               IN /\ n > RefHighest
                  /\ \A q \in Cards!Homes(n) : q[2] \notin Cards!Number /\ q \notin b_stayed[p]
                  /\ \A o \in Proc \ {p} : b_run[o].at \in {"release", "write", "stamp"} =>
                                             b_run[o].number # n
<1>1. Begins => C
  BY CardsBegin, ScanBegin DEF Begins
<1>2. [Continues]_all => which' = which /\ (which = "cards" => [Cards!Next]_(Cards!vars))
                         /\ (which # "cards" => UNCHANGED Cards!vars)
  BY DEF Continues, all, cards, Cards!vars
<1>3. C /\ [Continues]_all => C'
  BY <1>2, CardsStep, ScanKept
<1>4. C /\ [Continues]_all => [Once]_(Cards!vars)
  <2> SUFFICES ASSUME C, [Continues]_all, ~(UNCHANGED Cards!vars) PROVE Once
    OBVIOUS
  <2>1. CardsInv /\ ScanInv /\ Cards!Next
    BY <1>2
  <2> QED BY <2>1, ReserveAlone, ReserveFresh
<1>5. NumbersOnce <=> [][Once]_(Cards!vars)
  BY DEF NumbersOnce, Cards!NumbersOnce
<1> QED BY <1>1, <1>3, <1>4, <1>5, PTL DEF Behaviour

-----------------------------------------------------------------------------
(* Nothing is lost unseen.                                                 *)

\* Where a saved text is to be found.
Marked(f, m) == \E q \in DOMAIN f : f[q].by # Made /\ m = <<q[2], f[q].by>>

\* What Kept holds, before and after a step.
LEMMA KeptIs ==
  ASSUME NEW m
  PROVE  /\ m \in Cards!Kept <=> \/ Marked(b_board, m) \/ Marked(Cards!Source, m)
                                 \/ \E p \in Proc : Marked(b_aside[p], m)
         /\ m \in Cards!Kept' <=> \/ Marked(b_board', m) \/ Marked(Cards!Source, m)
                                  \/ \E p \in Proc : Marked(b_aside'[p], m)
<1>1. ASSUME NEW f PROVE m \in Cards!Marks(f) <=> Marked(f, m)
  BY DEF Cards!Marks, Marked
<1>2. PICK b, c, u, v, w : /\ b = Cards!Marks(b_board) /\ c = Cards!Marks(b_board')
                         /\ u = UNION {Cards!Marks(b_aside[p]) : p \in Proc}
                         /\ v = UNION {Cards!Marks(b_aside'[p]) : p \in Proc}
                         /\ w = Cards!Marks(Cards!Source)
  OBVIOUS
<1>3. /\ m \in u <=> \E p \in Proc : Marked(b_aside[p], m)
      /\ m \in v <=> \E p \in Proc : Marked(b_aside'[p], m)
  BY <1>1, <1>2
<1>4. (m \in b <=> Marked(b_board, m)) /\ (m \in c <=> Marked(b_board', m))
      /\ (m \in w <=> Marked(Cards!Source, m))
  BY <1>1, <1>2
<1>5. Cards!Kept = b \cup u \cup w /\ Cards!Kept' = c \cup v \cup w
  BY <1>2 DEF Cards!Kept
<1>6. /\ m \in Cards!Kept <=> m \in b \/ m \in u \/ m \in w
      /\ m \in Cards!Kept' <=> m \in c \/ m \in v \/ m \in w
  BY <1>5
<1> QED BY <1>3, <1>4, <1>6

\* The step takes a saved text from p's files only if p saw another there.
Loses(p, m) == \E q \in DOMAIN b_board : m = <<q[2], b_board[q].by>> /\ Cards!Saw(p, q)
Unseen(p) == \A m \in Cards!Kept \ Cards!Kept' : Loses(p, m)

LEMMA NothingMoved ==
  ASSUME NEW p \in Proc, b_board' = b_board, b_aside' = b_aside PROVE Unseen(p)
  BY KeptIs DEF Unseen

\* What a command overwrites with a text of the same editor, or where it saw
\* nothing or that text.
LEMMA PutSeen ==
  ASSUME CardsParameters, BoardFits, NEW p \in Proc, NEW q \in Cards!Path, NEW t \in Cards!Text,
         b_board' = Cards!Put(b_board, q, t), b_aside' = b_aside,
         q \in DOMAIN b_board =>
           /\ q \in DOMAIN b_run[p].seen
           /\ b_run[p].seen[q] = Absent \/ b_run[p].seen[q].by = t.by
  PROVE  Unseen(p)
<1>1. /\ DOMAIN b_board' = DOMAIN b_board \cup {q} /\ b_board'[q] = t
      /\ \A x \in DOMAIN b_board \ {q} : b_board'[x] = b_board[x]
  BY PutFiles DEF BoardFits
<1>2. ASSUME NEW m \in Cards!Kept, m \notin Cards!Kept' PROVE Loses(p, m)
  <2>1. Marked(b_board, m) /\ ~Marked(b_board', m)
    BY <1>2, KeptIs
  <2>2. PICK x \in DOMAIN b_board : b_board[x].by # Made /\ m = <<x[2], b_board[x].by>>
    BY <2>1 DEF Marked
  <2>3. x = q /\ t.by # b_board[q].by
    BY <1>1, <2>1, <2>2 DEF Marked
  <2>4. b_board[q] # Absent
    BY <2>2, <2>3 DEF BoardFits, Filed, CardsParameters
  <2> QED BY <2>2, <2>3, <2>4 DEF Loses, Cards!Saw
<1> QED BY <1>2 DEF Unseen

LEMMA RenameSees ==
  ASSUME CardsParameters, CardsInv, NEW p \in Proc, Cards!Rename(p) PROVE Unseen(p)
<1>0. PICK r, s, d : r = b_run[p] /\ s = r.src /\ d = r.dst
  OBVIOUS
<1>1. r.cmd \in {"move", "archive"} /\ r.at = "rename" /\ Carrying(r) /\ b_aside' = b_aside
  BY <1>0 DEF Cards!Rename, Carrying, Cards!Steps
<1>2. CarriesFit(r) /\ RunTyped(r, b_aside[p]) /\ BoardFits
  BY <1>0, <1>1, Carrier DEF CardsInv
<1>3. d[2] = s[2] /\ Empty(r, d) /\ d \in Cards!Path /\ d # s
  BY <1>0, <1>1, <1>2 DEF CarriesFit, RunTyped
<1>4. CASE Cards!Has(s)
  <2>0. PICK f, x : f = Cards!Without(b_board, s) /\ x = b_board[s]
    OBVIOUS
  <2>1. b_board' = Cards!Put(f, d, x) /\ s \in DOMAIN b_board /\ x \in Cards!Text
    BY <1>0, <1>2, <1>4, <2>0 DEF Cards!Rename, Cards!Has, BoardFits, Filed
  <2>2. /\ Filed(f) /\ DOMAIN f = DOMAIN b_board \ {s}
        /\ \A y \in DOMAIN b_board \ {s} : f[y] = b_board[y]
    BY <1>2, <2>0, WithoutFile DEF BoardFits
  <2>3. PICK g : g = Cards!Put(f, d, x)
    OBVIOUS
  <2>4. /\ DOMAIN g = DOMAIN f \cup {d} /\ g[d] = x
        /\ \A y \in DOMAIN f \ {d} : g[y] = f[y]
    <3>1. x \in Cards!Text /\ Filed(f)
      BY <2>1, <2>2
    <3>2. /\ DOMAIN g = DOMAIN f \cup {d}
          /\ \A y \in DOMAIN f \cup {d} : g[y] = IF y = d THEN x ELSE f[y]
      BY <1>3, <2>3, <3>1, PutFiles
    <3> QED BY <3>2
  <2>5. ASSUME NEW m \in Cards!Kept, m \notin Cards!Kept' PROVE Loses(p, m)
    <3>1. Marked(b_board, m) /\ ~Marked(g, m)
      BY <1>1, <2>1, <2>3, <2>5, KeptIs
    <3>2. PICK y \in DOMAIN b_board : b_board[y].by # Made /\ m = <<y[2], b_board[y].by>>
      BY <3>1 DEF Marked
    <3>3. y # s
      BY <1>3, <2>0, <2>4, <3>1, <3>2 DEF Marked
    <3>4. y = d
      BY <2>2, <2>4, <3>1, <3>2, <3>3 DEF Marked
    <3>5. b_board[d] # Absent
      BY <1>2, <3>2, <3>4 DEF BoardFits, Filed, CardsParameters
    <3> QED BY <1>0, <1>3, <3>2, <3>4, <3>5 DEF Loses, Cards!Saw, Empty
  <2> QED BY <2>5 DEF Unseen
<1>5. CASE ~Cards!Has(s)
  BY <1>0, <1>1, <1>5, NothingMoved DEF Cards!Rename
<1> QED BY <1>4, <1>5

LEMMA WriteStampSees ==
  ASSUME CardsParameters, CardsInv, NEW p \in Proc, Cards!WriteStamp(p) PROVE Unseen(p)
<1>0. PICK r, q, zone, new :
        /\ r = b_run[p] /\ q = Cards!Stamped(r)
        /\ zone = IF r.cmd = "move" THEN r.dst[1] ELSE "done"
        /\ new = IF r.at = "cell" THEN [r.text EXCEPT !.cell = zone]
                 ELSE [r.text EXCEPT !.word = zone]
  OBVIOUS
<1>1. r.cmd \in {"move", "archive"} /\ r.at \in {"cell", "word"} /\ Carrying(r)
      /\ b_aside' = b_aside /\ r.text # None
  BY <1>0 DEF Cards!WriteStamp, Carrying, Cards!Steps
<1>2. CarriesFit(r) /\ RunTyped(r, b_aside[p]) /\ BoardFits
  BY <1>0, <1>1, Carrier DEF CardsInv
<1>3. Read(r, q) /\ q \in Cards!Path /\ r.text \in Cards!Text /\ r.dst \in Cards!Path
  BY <1>0, <1>1, <1>2 DEF CarriesFit, RunTyped, Cards!Stamped
<1>4. new \in Cards!Text /\ new.by = r.text.by
  BY <1>0, <1>3 DEF Cards!Text, Cards!Path, Cards!Zone
<1>5. b_board' = Cards!Put(b_board, q, new)
  BY <1>0 DEF Cards!WriteStamp
<1>6. q \in DOMAIN b_run[p].seen /\ b_run[p].seen[q].by = new.by
  BY <1>0, <1>3, <1>4 DEF Read
<1> QED BY <1>1, <1>2, <1>3, <1>4, <1>5, <1>6, PutSeen

LEMMA WriteLinksSees ==
  ASSUME CardsParameters, CardsInv, NEW p \in Proc, Cards!WriteLinks(p) PROVE Unseen(p)
<1>0. PICK r : r = b_run[p]
  OBVIOUS
<1>1. r.cmd \in {"move", "archive"} /\ r.at = "links" /\ Carrying(r)
      /\ b_aside' = b_aside /\ r.text # None
  BY <1>0 DEF Cards!WriteLinks, Carrying, Cards!Steps
<1>2. CarriesFit(r) /\ RunTyped(r, b_aside[p]) /\ BoardFits
  BY <1>0, <1>1, Carrier DEF CardsInv
<1>3. PICK d \in r.left : b_board' = Cards!Put(b_board, d, [r.text EXCEPT !.link = r.dst])
  BY <1>0 DEF Cards!WriteLinks
<1>4. PICK new : new = [r.text EXCEPT !.link = r.dst]
  OBVIOUS
<1>5. Read(r, d) /\ d \in Cards!Path /\ r.text \in Cards!Text /\ r.dst \in Cards!Path
  BY <1>1, <1>2 DEF CarriesFit, RunTyped
<1>6. new \in Cards!Text /\ new.by = r.text.by
  BY <1>4, <1>5 DEF Cards!Text
<1>7. d \in DOMAIN b_run[p].seen /\ b_run[p].seen[d].by = new.by
  BY <1>0, <1>5, <1>6 DEF Read
<1>8. b_board' = Cards!Put(b_board, d, new)
  BY <1>3, <1>4
<1> QED BY <1>1, <1>2, <1>5, <1>6, <1>7, <1>8, PutSeen

LEMMA WriteIssueSees ==
  ASSUME CardsParameters, CardsInv, NEW p \in Proc, Cards!WriteIssue(p) PROVE Unseen(p)
<1>0. PICK r, q : r = b_run[p] /\ q = r.src
  OBVIOUS
<1>1. r.cmd = "promote" /\ r.at = "stamp" /\ Creating(r) /\ r.text # None /\ b_aside' = b_aside
  BY <1>0 DEF Cards!WriteIssue, Cards!Is, Creating, Cards!Steps
<1>2. RunTyped(r, b_aside[p]) /\ CreatesFit(r) /\ BoardFits
  BY <1>0, <1>1, Creator
<1>3. Read(r, q) /\ q \in Cards!Path /\ r.text \in Cards!Text /\ r.number \in Cards!Number
  BY <1>0, <1>1, <1>2 DEF RunTyped, CreatesFit, CardsParameters, Cards!Number
<1>4. PICK new : new = [r.text EXCEPT !.promoted = r.text.promoted \cup {r.number}]
  OBVIOUS
<1>5. b_board' = Cards!Put(b_board, q, new)
  BY <1>0, <1>4 DEF Cards!WriteIssue
<1>6. new \in Cards!Text /\ new.by = r.text.by
  BY <1>3, <1>4 DEF Cards!Text
<1>7. q \in DOMAIN b_run[p].seen /\ b_run[p].seen[q].by = new.by
  BY <1>0, <1>3, <1>6 DEF Read
<1> QED BY <1>1, <1>2, <1>3, <1>5, <1>6, <1>7, PutSeen

LEMMA WriteNewSees ==
  ASSUME CardsParameters, CardsInv, NEW p \in Proc, Cards!WriteNew(p) PROVE Unseen(p)
<1>0. PICK r, q : r = b_run[p] /\ q = <<"todo", r.number>>
  OBVIOUS
<1>1. /\ r.cmd \in {"new", "promote"} /\ r.at = "write" /\ Creating(r) /\ b_aside' = b_aside
      /\ IF Cards!Has(q) THEN b_board' = b_board
         ELSE b_board' = Cards!Put(b_board, q, Cards!NewCard)
  BY <1>0 DEF Cards!WriteNew, Creating, Cards!Steps
<1>2. RunTyped(r, b_aside[p]) /\ CreatesFit(r) /\ BoardFits
  BY <1>0, <1>1, Creator
<1>3. q \in Cards!Path /\ Cards!NewCard \in Cards!Text
  <2>1. r.number \in Cards!Number \cup Cards!ByHand
    BY <1>1, <1>2 DEF CreatesFit
  <2> QED BY <1>0, <2>1, Texts DEF Cards!Path, Cards!Zone, Cards!Card
<1>4. CASE Cards!Has(q)
  BY <1>1, <1>4, NothingMoved
<1>5. CASE q \notin DOMAIN b_board
  BY <1>1, <1>2, <1>3, <1>5, PutSeen DEF Cards!Has
<1> QED BY <1>4, <1>5 DEF Cards!Has

\* What leaves the board and stays with p is not lost.
LEMMA TakenSeen ==
  ASSUME CardsParameters, BoardFits, NEW p \in Proc, NEW q \in DOMAIN b_board, NEW a,
         a = b_aside[p], Filed(a), q \notin DOMAIN a,
         b_board' = Cards!Without(b_board, q),
         b_aside' = [b_aside EXCEPT ![p] = Cards!Put(a, q, b_board[q])]
  PROVE  Unseen(p)
<1>0. PICK x, a2 : x = b_board[q] /\ a2 = Cards!Put(a, q, x)
  OBVIOUS
<1>1. /\ DOMAIN b_board' = DOMAIN b_board \ {q}
      /\ \A y \in DOMAIN b_board \ {q} : b_board'[y] = b_board[y]
  BY WithoutFile DEF BoardFits
<1>2. x \in Cards!Text /\ q \in Cards!Path
  BY <1>0 DEF BoardFits, Filed
<1>3. /\ DOMAIN a2 = DOMAIN a \cup {q} /\ a2[q] = x
      /\ \A y \in DOMAIN a \ {q} : a2[y] = a[y]
  <2>1. /\ DOMAIN a2 = DOMAIN a \cup {q}
        /\ \A y \in DOMAIN a \cup {q} : a2[y] = IF y = q THEN x ELSE a[y]
    BY <1>0, <1>2, PutFiles
  <2> QED BY <2>1
<1>4. b_aside'[p] = a2 /\ \A o \in Proc \ {p} : b_aside'[o] = b_aside[o]
  BY <1>0 DEF BoardFits
<1>5. ASSUME NEW m \in Cards!Kept PROVE m \in Cards!Kept'
  <2>1. CASE Marked(b_board, m)
    <3>1. PICK y \in DOMAIN b_board : b_board[y].by # Made /\ m = <<y[2], b_board[y].by>>
      BY <2>1 DEF Marked
    <3>2. CASE y = q
      <4>1. Marked(a2, m)
        BY <1>0, <1>3, <3>1, <3>2 DEF Marked
      <4> QED BY <1>4, <4>1, KeptIs
    <3>3. CASE y # q
      <4>1. Marked(b_board', m)
        BY <1>1, <3>1, <3>3 DEF Marked
      <4> QED BY <4>1, KeptIs
    <3> QED BY <3>2, <3>3
  <2>2. CASE Marked(a, m)
    <3>1. Marked(a2, m)
      BY <1>3, <2>2 DEF Marked
    <3> QED BY <1>4, <3>1, KeptIs
  <2>3. ASSUME NEW o \in Proc \ {p}, Marked(b_aside[o], m) PROVE m \in Cards!Kept'
    <3>1. Marked(b_aside'[o], m)
      BY <1>4, <2>3
    <3> QED BY <3>1, KeptIs
  <2>4. CASE Marked(Cards!Source, m)
    BY <2>4, KeptIs
  <2> QED BY <2>1, <2>2, <2>3, <2>4, KeptIs
<1> QED BY <1>5 DEF Unseen

LEMMA ClaimSees ==
  ASSUME CardsParameters, CardsInv, NEW p \in Proc, Cards!Claim(p) PROVE Unseen(p)
<1>0. PICK r, a, q : r = b_run[p] /\ a = b_aside[p] /\ q = Cards!DoingCard
  OBVIOUS
<1>1. r.cmd = "reconcile" /\ r.at = "claim" /\ Holding(r)
  BY <1>0 DEF Cards!Claim, Cards!Is, Holding
<1>2. Taken(a) /\ BoardFits /\ Bare(a)
  BY <1>0, <1>1, Holder DEF RunFits, ReconcileFits
<1>3. CASE q \in DOMAIN b_board
  <2>1. /\ b_board' = Cards!Without(b_board, q)
        /\ b_aside' = [b_aside EXCEPT ![p] = Cards!Put(a, q, b_board[q])]
    BY <1>0, <1>3 DEF Cards!Claim, Cards!Has
  <2>2. Filed(a) /\ q \notin DOMAIN a
    BY <1>2 DEF Taken, Bare
  <2> QED BY <1>0, <1>2, <1>3, <2>1, <2>2, TakenSeen
<1>4. CASE q \notin DOMAIN b_board
  BY <1>0, <1>4, NothingMoved DEF Cards!Claim, Cards!Has
<1> QED BY <1>3, <1>4

LEMMA QuarantineSees ==
  ASSUME CardsParameters, CardsInv, NEW p \in Proc, Cards!Quarantine(p) PROVE Unseen(p)
<1>0. PICK r, a, q : r = b_run[p] /\ a = b_aside[p] /\ q = Cards!Turn(p)
  OBVIOUS
<1>1. r.cmd = "cleanup" /\ r.at = "take" /\ Holding(r)
  BY <1>0 DEF Cards!Quarantine, Cards!Is, Holding
<1>2. RunFits(r, a) /\ Taken(a) /\ BoardFits
  BY <1>0, <1>1, Holder
<1>3. r.left # {} /\ r.left \subseteq Cards!Group /\ DOMAIN a = Cards!Group \ r.left
  BY <1>1, <1>2 DEF RunFits, CleanupFits
<1>4. q \in r.left
  BY <1>0, <1>3, TurnIs
<1>5. CASE q \in DOMAIN b_board
  <2>1. /\ b_board' = Cards!Without(b_board, q)
        /\ b_aside' = [b_aside EXCEPT ![p] = Cards!Put(a, q, b_board[q])]
    BY <1>0, <1>5 DEF Cards!Quarantine, Cards!Has
  <2>2. Filed(a) /\ q \notin DOMAIN a
    BY <1>2, <1>3, <1>4 DEF Taken
  <2> QED BY <1>0, <1>2, <1>5, <2>1, <2>2, TakenSeen
<1>6. CASE q \notin DOMAIN b_board
  BY <1>0, <1>6, NothingMoved DEF Cards!Quarantine, Cards!Has
<1> QED BY <1>5, <1>6

LEMMA UndoSees ==
  ASSUME CardsParameters, CardsInv, NEW p \in Proc, Cards!Undo(p) PROVE Unseen(p)
<1>0. PICK r : r = b_run[p]
  OBVIOUS
<1>1. r.cmd = "promote" /\ r.at = "undo" /\ Creating(r) /\ b_aside' = b_aside
  BY <1>0 DEF Cards!Undo, Cards!Is, Creating, Cards!Steps
<1>2. CreatesFit(r) /\ BoardFits
  BY <1>0, <1>1, Creator
<1>3. CASE r.made # {}
  <2>1. PICK q \in r.made : b_board' = Cards!Without(b_board, q)
    BY <1>0, <1>3 DEF Cards!Undo
  <2>2. q \in DOMAIN r.seen /\ r.seen[q].by = Made
    BY <1>1, <1>2 DEF CreatesFit
  <2>3. /\ DOMAIN b_board' = DOMAIN b_board \ {q}
        /\ \A x \in DOMAIN b_board \ {q} : b_board'[x] = b_board[x]
    BY <1>2, <2>1, WithoutFile DEF BoardFits
  <2>4. ASSUME NEW m \in Cards!Kept, m \notin Cards!Kept' PROVE Loses(p, m)
    <3>1. Marked(b_board, m) /\ ~Marked(b_board', m)
      BY <1>1, <2>4, KeptIs
    <3>2. PICK x \in DOMAIN b_board : b_board[x].by # Made /\ m = <<x[2], b_board[x].by>>
      BY <3>1 DEF Marked
    <3>3. x = q
      BY <2>3, <3>1, <3>2 DEF Marked
    <3> QED BY <1>0, <2>2, <3>2, <3>3 DEF Loses, Cards!Saw
  <2> QED BY <2>4 DEF Unseen
<1>4. CASE r.made = {}
  BY <1>0, <1>1, <1>4, NothingMoved DEF Cards!Undo
<1> QED BY <1>3, <1>4

LEMMA PublishSees ==
  ASSUME CardsParameters, CardsInv, NEW p \in Proc, Cards!Publish(p) PROVE Unseen(p)
<1>0. PICK r, a, q, new : /\ r = b_run[p] /\ a = b_aside[p] /\ q = r.dst
                          /\ new = [r.text EXCEPT !.cell = q[1]]
  OBVIOUS
<1>1. /\ r.cmd = "reconcile" /\ r.at = "publish" /\ Holding(r) /\ b_aside' = b_aside
      /\ b_board' = Cards!Put(b_board, q, new)
  BY <1>0 DEF Cards!Publish, Cards!Is, Holding
<1>2. RunFits(r, a) /\ RunTyped(r, a) /\ BoardFits
  BY <1>0, <1>1, Holder
<1>3. /\ r.text \in Cards!Text /\ q \in Cards!Path /\ q[1] \in {"blocked", "review", "doing"}
      /\ Empty(r, q)
  BY <1>0, <1>1, <1>2 DEF RunFits, ReconcileFits, RunTyped
<1>4. new \in Cards!Text
  BY <1>0, <1>3 DEF Cards!Text, Cards!Zone
<1>5. q \in DOMAIN b_run[p].seen /\ b_run[p].seen[q] = Absent
  BY <1>0, <1>3 DEF Empty
<1> QED BY <1>1, <1>2, <1>3, <1>4, <1>5, PutSeen

LEMMA PutBackSees ==
  ASSUME CardsParameters, CardsInv, NEW p \in Proc, Cards!PutBack(p) PROVE Unseen(p)
<1>0. PICK r, a : r = b_run[p] /\ a = b_aside[p]
  OBVIOUS
<1>1. r.at = "restore"
  BY <1>0 DEF Cards!PutBack
<1>2. r.cmd \in {"reconcile", "cleanup"} /\ Holding(r)
  BY <1>0, <1>1 DEF CardsInv, RunFits, RunTyped, Stepping, Holding
<1>3. Taken(a) /\ BoardFits /\ \A q \in DOMAIN r.stage : q \in DOMAIN a /\ Empty(r, q)
  BY <1>0, <1>1, <1>2, Holder DEF RunFits, RestoreFits
<1>4. PICK q \in DOMAIN r.stage :
        /\ b_board' = Cards!Put(b_board, q, b_aside[p][q])
        /\ b_aside' = [b_aside EXCEPT ![p] = Cards!Without(b_aside[p], q)]
  BY <1>0 DEF Cards!PutBack
<1>5. PICK x, a2, g : x = a[q] /\ a2 = Cards!Without(a, q) /\ g = Cards!Put(b_board, q, x)
  OBVIOUS
<1>6. b_board' = g /\ b_aside'[p] = a2 /\ \A o \in Proc \ {p} : b_aside'[o] = b_aside[o]
  BY <1>0, <1>3, <1>4, <1>5 DEF BoardFits
<1>7. q \in DOMAIN a /\ Empty(r, q) /\ q \in Cards!Path /\ x \in Cards!Text /\ Filed(a)
  BY <1>3, <1>5 DEF Taken, Filed
<1>8. DOMAIN a2 = DOMAIN a \ {q} /\ \A y \in DOMAIN a \ {q} : a2[y] = a[y]
  BY <1>5, <1>7, WithoutFile
<1>9. /\ DOMAIN g = DOMAIN b_board \cup {q}
      /\ \A y \in DOMAIN b_board \cup {q} : g[y] = IF y = q THEN x ELSE b_board[y]
  <2>1. g = Cards!Put(b_board, q, x)
    BY <1>5
  <2> QED BY <2>1 DEF Cards!Put
<1>10. ASSUME NEW m \in Cards!Kept, m \notin Cards!Kept' PROVE Loses(p, m)
  <2>1. ~Marked(g, m) /\ ~Marked(Cards!Source, m) /\ \A o \in Proc : ~Marked(b_aside'[o], m)
    BY <1>6, <1>10, KeptIs
  <2>2. ~Marked(a, m)
    <3>1. ASSUME NEW y \in DOMAIN a, a[y].by # Made, m = <<y[2], a[y].by>> PROVE FALSE
      <4>1. CASE y = q
        BY <1>5, <1>9, <2>1, <3>1, <4>1 DEF Marked
      <4>2. CASE y # q
        <5>1. Marked(a2, m)
          BY <1>8, <3>1, <4>2 DEF Marked
        <5> QED BY <1>6, <2>1, <5>1
      <4> QED BY <4>1, <4>2
    <3> QED BY <3>1 DEF Marked
  <2>3. \A o \in Proc : ~Marked(b_aside[o], m)
    BY <1>0, <1>6, <2>1, <2>2
  <2>4. Marked(b_board, m)
    BY <1>10, <2>1, <2>3, KeptIs
  <2>5. PICK y \in DOMAIN b_board : b_board[y].by # Made /\ m = <<y[2], b_board[y].by>>
    BY <2>4 DEF Marked
  <2>6. y = q
    BY <1>9, <2>1, <2>5 DEF Marked
  <2>7. b_board[q] # Absent
    BY <1>3, <2>5, <2>6 DEF BoardFits, Filed, CardsParameters
  <2> QED BY <1>0, <1>7, <2>5, <2>6, <2>7 DEF Loses, Cards!Saw, Empty
<1> QED BY <1>10 DEF Unseen

\* What a cleanup removes is in the pinned commit.
LEMMA ReclaimSees ==
  ASSUME CardsParameters, CardsInv, NEW p \in Proc, Cards!Reclaim(p) PROVE Unseen(p)
<1>0. PICK r, a : r = b_run[p] /\ a = b_aside[p]
  OBVIOUS
<1>1. /\ r.cmd = "cleanup" /\ r.at = "reclaim" /\ Holding(r) /\ b_board' = b_board
      /\ b_aside' = [b_aside EXCEPT ![p] = Cards!Nothing]
  BY <1>0 DEF Cards!Reclaim, Cards!Is, Holding
<1>2. RunFits(r, a) /\ BoardFits
  BY <1>0, <1>1, Holder
<1>3. DOMAIN a = Cards!Group /\ \A q \in Cards!Group : a[q] = Cards!Source[q]
  BY <1>1, <1>2 DEF RunFits, CleanupFits
<1>4. \A o \in Proc \ {p} : b_aside'[o] = b_aside[o]
  BY <1>1, <1>2 DEF BoardFits
<1>5. ASSUME NEW m, Marked(a, m) PROVE Marked(Cards!Source, m)
  <2>1. DOMAIN Cards!Source = Cards!Group
    BY Texts
  <2> QED BY <1>3, <1>5, <2>1 DEF Marked
<1>6. ASSUME NEW m \in Cards!Kept PROVE m \in Cards!Kept'
  <2>1. CASE Marked(b_board, m) \/ Marked(Cards!Source, m)
    BY <1>1, <2>1, KeptIs
  <2>2. ASSUME NEW o \in Proc, Marked(b_aside[o], m) PROVE m \in Cards!Kept'
    <3>1. CASE o = p
      BY <1>0, <1>5, <2>2, <3>1, KeptIs
    <3>2. CASE o # p
      <4>1. Marked(b_aside'[o], m)
        BY <1>4, <2>2, <3>2
      <4> QED BY <4>1, KeptIs
    <3> QED BY <3>1, <3>2
  <2> QED BY <2>1, <2>2, KeptIs
<1> QED BY <1>6 DEF Unseen

\* The staged board has every file as the copy saw it.
LEMMA ExchangeSees ==
  ASSUME CardsParameters, CardsInv, NEW p \in Proc, Cards!Exchange(p) PROVE Unseen(p)
<1>0. PICK r, a, st : r = b_run[p] /\ a = b_aside[p] /\ st = r.stage
  OBVIOUS
<1>1. /\ r.cmd = "maintain" /\ r.at = "swap" /\ Holding(r) /\ b_aside' = b_aside
      /\ b_board' = st
  BY <1>0 DEF Cards!Exchange, Cards!Is, Holding
<1>2. RunFits(r, a) /\ BoardFits /\ ~Exchanged
  BY <1>0, <1>1, Holder
<1>3. Cards!Replacement \notin DOMAIN b_board /\ DOMAIN b_board \subseteq Cards!Path
  BY <1>2 DEF BoardFits, Filed
<1>4. /\ \A q \in Cards!Path \ {Cards!DoingCard, Cards!Replacement} : Copied(r, q)
      /\ Cards!Replacement \in DOMAIN st /\ st[Cards!Replacement] = Cards!Planned
      /\ Cards!DoingCard \in DOMAIN r.seen /\ r.seen[Cards!DoingCard] = Cards!Planned
  BY <1>0, <1>1, <1>2 DEF RunFits, MaintainFits
<1>5. ASSUME NEW m \in Cards!Kept, m \notin Cards!Kept' PROVE Loses(p, m)
  <2>1. Marked(b_board, m) /\ ~Marked(st, m)
    BY <1>1, <1>5, KeptIs
  <2>2. PICK q \in DOMAIN b_board : b_board[q].by # Made /\ m = <<q[2], b_board[q].by>>
    BY <2>1 DEF Marked
  <2>3. q \in DOMAIN r.seen /\ r.seen[q] # b_board[q]
    <3>1. CASE q = Cards!DoingCard
      <4>1. q[2] = Cards!Replacement[2]
        BY <3>1, Places
      <4>2. b_board[q] # Cards!Planned
        BY <1>4, <2>1, <2>2, <4>1 DEF Marked
      <4> QED BY <1>4, <3>1, <4>2
    <3>2. CASE q # Cards!DoingCard
      <4>1. Copied(r, q)
        BY <1>3, <1>4, <2>2, <3>2
      <4>2. b_board[q] # Absent
        BY <1>2, <2>2 DEF BoardFits, Filed, CardsParameters
      <4>3. q \in DOMAIN st => st[q] # b_board[q]
        BY <2>1, <2>2 DEF Marked
      <4> QED BY <1>0, <4>1, <4>2, <4>3 DEF Copied
    <3> QED BY <3>1, <3>2
  <2> QED BY <1>0, <2>2, <2>3 DEF Loses, Cards!Saw
<1> QED BY <1>5 DEF Unseen

\* The steps that leave the files where they are.
Still(p) ==
  \/ \E z \in {"review", "blocked", "doing"} : Cards!Move(p, Cards!DoingCard, z)
  \/ Cards!Archive(p, Cards!DoneCard) \/ Cards!New(p) \/ (\E n \in Asked : Cards!NewById(p, n))
  \/ Cards!Promote(p) \/ Cards!Kill(p)
  \/ Cards!ListZone(p) \/ Cards!ReadFile(p) \/ Cards!RefFloor(p)
  \/ Cards!ReadStamp(p) \/ Cards!ReadLinks(p) \/ Cards!NextIssue(p) \/ Cards!Floor(p)
  \/ Cards!TakeSentinel(p) \/ Cards!Reserve(p) \/ Cards!Release(p) \/ Cards!ReadIssue(p)
  \/ Cards!Reconcile(p) \/ Cards!Cleanup(p) \/ Cards!Maintain(p)
  \/ Cards!Scan(p) \/ Cards!ScanAgain(p) \/ Cards!VerifyClaim(p) \/ Cards!LookBack(p)
  \/ Cards!Protect(p) \/ Cards!Prove(p) \/ Cards!LookAt(p) \/ Cards!VerifyQuarantine(p)
  \/ Cards!SourceMoved(p) \/ Cards!Copy(p) \/ Cards!Stage(p) \/ Cards!VerifyLive(p)

LEMMA StillSees == ASSUME NEW p \in Proc, Still(p) PROVE Unseen(p)
<1>1. b_board' = b_board
  BY DEF Still, Cards!Move, Cards!Archive, Cards!New, Cards!NewById, Cards!Promote, Cards!Kill,
     Cards!ListZone, Cards!ReadFile, Cards!RefFloor, Cards!ReadStamp, Cards!ReadLinks, Cards!NextIssue, Cards!Floor, Cards!TakeSentinel,
     Cards!Reserve, Cards!Release, Cards!ReadIssue, Cards!Reconcile, Cards!Cleanup,
     Cards!Maintain, Cards!Scan, Cards!ScanAgain, Cards!VerifyClaim, Cards!LookBack,
     Cards!Protect, Cards!Prove, Cards!LookAt, Cards!VerifyQuarantine, Cards!SourceMoved,
     Cards!Copy, Cards!Stage, Cards!VerifyLive
<1>2. b_aside' = b_aside
  BY DEF Still, Cards!Move, Cards!Archive, Cards!New, Cards!NewById, Cards!Promote, Cards!Kill,
     Cards!ListZone, Cards!ReadFile, Cards!RefFloor, Cards!ReadStamp, Cards!ReadLinks, Cards!NextIssue, Cards!Floor, Cards!TakeSentinel,
     Cards!Reserve, Cards!Release, Cards!ReadIssue, Cards!Reconcile, Cards!Cleanup,
     Cards!Maintain, Cards!Scan, Cards!ScanAgain, Cards!VerifyClaim, Cards!LookBack,
     Cards!Protect, Cards!Prove, Cards!LookAt, Cards!VerifyQuarantine, Cards!SourceMoved,
     Cards!Copy, Cards!Stage, Cards!VerifyLive, Cards!Steps
<1> QED BY <1>1, <1>2, NothingMoved

\* The commands are one function of the processes.
Rows == b_run = [p \in Proc |-> b_run[p]]

\* Whoever changes a command takes nothing from the board that it did not see.
LEMMA StepsSee ==
  ASSUME CardsParameters, CardsInv, Cards!Next
  PROVE  b_run' = b_run \/ \E p \in Proc : Only(p) /\ Unseen(p)
<1>2. ASSUME NEW p \in Proc, Cards!VerbStep(p) PROVE Only(p) /\ Unseen(p)
  <2>1. Only(p)
    BY <1>2, VerbAlone
  <2>2. \/ Still(p) \/ Cards!Rename(p) \/ Cards!WriteStamp(p) \/ Cards!WriteLinks(p)
        \/ Cards!WriteNew(p) \/ Cards!WriteIssue(p) \/ Cards!Undo(p)
    BY <1>2 DEF Cards!VerbStep, Still
  <2> QED BY <2>1, <2>2, StillSees, RenameSees, WriteStampSees, WriteLinksSees, WriteNewSees,
          WriteIssueSees, UndoSees
<1>3. ASSUME NEW p \in Proc, Cards!MaintenanceStep(p) PROVE Only(p) /\ Unseen(p)
  <2>1. Only(p)
    BY <1>3, MaintenanceAlone
  <2>2. \/ Still(p) \/ Cards!Claim(p) \/ Cards!Publish(p) \/ Cards!PutBack(p)
        \/ Cards!Quarantine(p) \/ Cards!Reclaim(p) \/ Cards!Exchange(p)
    BY <1>3 DEF Cards!MaintenanceStep, Still
  <2> QED BY <2>1, <2>2, StillSees, ClaimSees, PublishSees, PutBackSees, QuarantineSees,
          ReclaimSees, ExchangeSees
<1>4. ASSUME NEW p \in Proc,
             \/ \E z \in {"review", "blocked", "doing"} : Cards!Move(p, Cards!DoingCard, z)
             \/ Cards!Archive(p, Cards!DoneCard) \/ Cards!New(p)
             \/ (\E n \in Asked : Cards!NewById(p, n)) \/ Cards!Promote(p) \/ Cards!Kill(p)
      PROVE  Only(p) /\ Unseen(p)
  <2>1. Only(p)
    BY <1>4, VerbAlone
  <2>2. Still(p)
    BY <1>4 DEF Still
  <2> QED BY <2>1, <2>2, StillSees
<1>5. ASSUME NEW p \in Proc, Cards!Reconcile(p) \/ Cards!Cleanup(p) \/ Cards!Maintain(p)
      PROVE  Only(p) /\ Unseen(p)
  <2>1. Only(p)
    BY <1>5, MaintenanceAlone
  <2>2. Still(p)
    BY <1>5 DEF Still
  <2> QED BY <2>1, <2>2, StillSees
<1>6. ASSUME NEW q, Cards!Save(q) PROVE b_run' = b_run
  BY <1>6 DEF Cards!Save
<1>7. ASSUME NEW t \in {DoingTask, DoneTask}, NEW e \in {"active", "abort"}, Cards!Runs(t, e)
      PROVE b_run' = b_run
  BY <1>7 DEF Cards!Runs
<1> QED BY <1>2, <1>3, <1>4, <1>5, <1>6, <1>7 DEF Cards!Next, Cards!Step

LEMMA RowsStep ==
  ASSUME CardsParameters, CardsInv, Rows, [Cards!Next]_(Cards!vars) PROVE Rows'
<1>1. CASE UNCHANGED Cards!vars
  BY <1>1 DEF Cards!vars, Rows
<1>2. CASE b_run' = b_run
  BY <1>2 DEF Rows
<1>3. ASSUME NEW p \in Proc, Only(p) PROVE Rows'
  <2>1. PICK r : r = b_run'[p]
    OBVIOUS
  <2>2. b_run' = [o \in Proc |-> IF o = p THEN r ELSE b_run[o]]
    BY <1>3, <2>1 DEF Only
  <2> QED BY <2>2 DEF Rows
<1> QED BY <1>1, <1>2, <1>3, StepsSee

LEMMA RowsDiffer ==
  ASSUME Rows, Rows', b_run' # b_run, NEW p \in Proc, Only(p) PROVE b_run'[p] # b_run[p]
<1>1. \A o \in Proc \ {p} : b_run'[o] = b_run[o]
  BY DEF Only
<1> QED BY <1>1 DEF Rows

\* No verb and no maintenance command overwrites, removes or retains away a text
\* somebody saved unless the file has changed since the command last looked at
\* it: what is lost is lost in the moment between a look and the write, never
\* for want of a look (reconcileMove, applyCleanupGroup, verifyLiveBefore,
\* MoveCard).
THEOREM NothingLostUnseenAlways == Behaviour => NothingLostUnseen
<1> USE CardsAssumption
<1> DEFINE C == which = "cards" => CardsInv /\ Rows
           Sees == b_run' # b_run =>
             \A m \in Cards!Kept \ Cards!Kept' :
               \E p \in Proc, q \in DOMAIN b_board :
                 /\ b_run'[p] # b_run[p]
                 /\ <<q[2], b_board[q].by>> = m
                 /\ Cards!Saw(p, q)
<1>1. Begins => C
  <2>1. Cards!Init => Rows
    BY DEF Cards!Init, Rows
  <2> QED BY <2>1, CardsBegin DEF Begins
<1>2. [Continues]_all => which' = which /\ (which = "cards" => [Cards!Next]_(Cards!vars))
                         /\ (which # "cards" => UNCHANGED Cards!vars)
  BY DEF Continues, all, cards, Cards!vars
<1>3. C /\ [Continues]_all => C'
  BY <1>2, CardsStep, RowsStep
<1>4. C /\ [Continues]_all => [Sees]_(Cards!vars)
  <2> SUFFICES ASSUME C, [Continues]_all, ~(UNCHANGED Cards!vars), b_run' # b_run PROVE Sees
    OBVIOUS
  <2>1. CardsInv /\ Cards!Next /\ Rows /\ Rows'
    BY <1>2, RowsStep
  <2>2. PICK p \in Proc : Only(p) /\ Unseen(p)
    BY <2>1, StepsSee
  <2>3. b_run'[p] # b_run[p]
    BY <2>1, <2>2, RowsDiffer
  <2> QED BY <2>2, <2>3 DEF Unseen, Loses
<1>5. NothingLostUnseen <=> [][Sees]_(Cards!vars)
  BY DEF NothingLostUnseen, Cards!NothingLostUnseen
<1> QED BY <1>1, <1>3, <1>4, <1>5, PTL DEF Behaviour
==============================================================================
