-------------------------- MODULE ContextRegistry --------------------------
(***************************************************************************)
(* The registry of intents, batches and iterations, and of the evidence    *)
(* linked to tasks (internal/taskstore: context_registry.go,               *)
(* context_iteration.go, evidence_link.go; internal/intentdoc).            *)
(*                                                                         *)
(* A document is published once, under a key of kind, ID and revision, by  *)
(* a link that does not overwrite.  A reference carries the digest of the  *)
(* document it means; here the digest is the document itself, or None for  *)
(* a digest of something else.  The session lock makes each command one    *)
(* step, except that it can be killed once the link is there.  A command   *)
(* the board refuses, for a pending transition say, changes nothing.       *)
(* Fields no other document depends on (titles, triggers, criteria, usage) *)
(* are left out: a wrong one only makes the command refuse.                *)
(***************************************************************************)
EXTENDS Naturals, FiniteSets

CONSTANTS
  Intents,      \* the intents somebody may register
  BatchId, IterationId, Task, Event,
  Receipts,     \* the interruption receipts somebody may link
  MaxCount,     \* math.MaxUint32
  MaxUntold,    \* bound: documents whose registration nobody was told of
  None

ASSUME IntentsAssumption == \A d \in Intents : d.kind = "intent"

VARIABLES
  registry,     \* key -> document or linked receipt
  present,      \* the TASK cards of the board
  told          \* keys and contents a caller was told are registered

vars == <<registry, present, told>>

Decision == {"continue", "idle", "stopped"}   \* "revise" ends a lineage as "stopped" does

-----------------------------------------------------------------------------
(* Documents.                                                              *)

Key(d) == <<d.kind, d.id, d.revision>>
Ref(d) == [id |-> d.id, revision |-> d.revision, digest |-> d]
Docs(kind) == {registry[k] : k \in {x \in DOMAIN registry : x[1] = kind}}

\* Parse: what a document must satisfy on its own.
ValidIntent(d) == d.revision > 0 /\ d.mode \in {"completion", "maintenance"}

ValidBatch(d) == d.revision > 0 /\ d.tasks # {}

ValidIteration(d) ==
  /\ d.revision = 1
  /\ d.ordinal > 0
  /\ (d.previous = None) = (d.ordinal = 1)
  /\ d.previous # None => d.previous.id # d.id
  /\ d.decision = "idle" => d.batch = None /\ ~d.progress
  /\ d.progress => d.noProgress = 0
  /\ d.previous = None => d.noProgress = IF d.progress \/ d.decision = "idle" THEN 0 ELSE 1

Valid(d) == CASE d.kind = "intent" -> ValidIntent(d)
              [] d.kind = "batch" -> ValidBatch(d)
              [] d.kind = "iteration" -> ValidIteration(d)

-----------------------------------------------------------------------------
(* References, looked up under the lock the document is published under.   *)

\* requiredContext and matchContextReference
Resolves(kind, ref) ==
  LET k == <<kind, ref.id, ref.revision>>
  IN k \in DOMAIN registry /\ registry[k] = ref.digest

\* ValidateBatchIntentReference
FitsIntent(d, intent) == ~(intent.mode = "maintenance" /\ d.achieved)

\* Mutant of BatchReferences: the intent of a batch is not looked up.
BatchReferencesUnread(d) ==
  FitsIntent(d, d.intent.digest) /\ d.tasks \subseteq present

BatchReferences(d) ==
  /\ Resolves("intent", d.intent)
  /\ FitsIntent(d, d.intent.digest)
  /\ d.tasks \subseteq present

\* Mutant of Follows: an idle observation counts like one without progress.
FollowsIdle(d, p) ==
  /\ p.intent = d.intent
  /\ p.ordinal # MaxCount /\ d.ordinal = p.ordinal + 1
  /\ p.decision # "stopped"
  /\ IF d.progress THEN d.noProgress = 0
     ELSE p.noProgress # MaxCount /\ d.noProgress = p.noProgress + 1

\* validatePredecessor: the counters go on from the previous iteration; at the
\* top of 32 bits there is no next value.
Follows(d, p) ==
  /\ p.intent = d.intent
  /\ p.ordinal # MaxCount /\ d.ordinal = p.ordinal + 1
  /\ p.decision # "stopped"
  /\ CASE d.decision = "idle" -> d.noProgress = p.noProgress
       [] d.decision # "idle" /\ d.progress -> d.noProgress = 0
       [] OTHER -> p.noProgress # MaxCount /\ d.noProgress = p.noProgress + 1

IterationReferences(d) ==
  /\ Resolves("intent", d.intent)
  /\ d.intent.digest.mode = "maintenance"
  /\ d.previous # None => Resolves("iteration", d.previous) /\ Follows(d, d.previous.digest)
  /\ d.batch # None => /\ Resolves("batch", d.batch)
                       /\ d.batch.digest.intent = d.intent
                       /\ FitsIntent(d.batch.digest, d.intent.digest)

ReferencesHold(d) == CASE d.kind = "intent" -> TRUE
                       [] d.kind = "batch" -> BatchReferences(d)
                       [] d.kind = "iteration" -> IterationReferences(d)

-----------------------------------------------------------------------------
(* Commands.                                                               *)

Init ==
  /\ registry = [k \in {} |-> None]
  /\ present \in SUBSET Task
  /\ told = {}

Untold == DOMAIN registry \ {w[1] : w \in told}

\* Mutant of Publish: the stage is renamed over whatever is there.
PublishOver(k, content) ==
  /\ registry' = [x \in DOMAIN registry \cup {k} |-> IF x = k THEN content ELSE registry[x]]
  /\ told' = told \cup {<<k, content>>}

\* Link: it fails when the name is there.  A kill comes before the answer.
Publish(k, content) ==
  /\ k \notin DOMAIN registry
  /\ registry' = [x \in DOMAIN registry \cup {k} |-> IF x = k THEN content ELSE registry[x]]
  /\ \/ told' = told \cup {<<k, content>>}
     \/ Cardinality(Untold) < MaxUntold /\ UNCHANGED told

\* The same content again is reported as registered, other content refused.
Repeat(k, content) ==
  /\ k \in DOMAIN registry
  /\ registry[k] = content
  /\ told' = told \cup {<<k, content>>}
  /\ UNCHANGED registry

\* RegisterContext
Register(d) ==
  /\ Valid(d)
  /\ \/ Repeat(Key(d), d)
     \/ ReferencesHold(d) /\ Publish(Key(d), d)
  /\ UNCHANGED present

\* parseEvidenceReceipt: the event is the one classified and names no other
\* task; a classification is confirmed only by a structured observation.
Fits(receipt, t, e) ==
  /\ receipt.event = e /\ receipt.classified = e
  /\ receipt.task \in {None, t}
  /\ receipt.reason = "unknown" => receipt.certainty = "unknown"
  /\ receipt.certainty = "confirmed" => receipt.observed

\* LinkEvidence
LinkEvidence(t, e, receipt) ==
  /\ Fits(receipt, t, e)
  /\ t \in present
  /\ \/ Repeat(<<"evidence", t, e>>, receipt)
     \/ Publish(<<"evidence", t, e>>, receipt)
  /\ UNCHANGED present

\* Other commands create cards and take them off the board.
CardComesOrGoes(t) ==
  /\ present' = IF t \in present THEN present \ {t} ELSE present \cup {t}
  /\ UNCHANGED <<registry, told>>

-----------------------------------------------------------------------------
(* What callers bring: any field right or wrong.                           *)

RefTo(docs, id) == {Ref(d) : d \in docs} \cup {[id |-> id, revision |-> 1, digest |-> None]}

Batches ==
  [kind : {"batch"}, id : BatchId, revision : {1}, intent : {Ref(i) : i \in Intents},
   tasks : SUBSET Task, achieved : BOOLEAN]

Iterations ==
  {d \in [kind : {"iteration"}, id : IterationId, revision : {1},
          intent : {Ref(i) : i \in Intents},
          ordinal : 0..MaxCount,
          previous : {None} \cup UNION {RefTo(Docs("iteration"), x) : x \in IterationId},
          batch : {None} \cup {Ref(b) : b \in Docs("batch")},
          noProgress : 0..MaxCount,
          progress : BOOLEAN, decision : Decision] :
     ValidIteration(d)}

Next ==
  \/ \E d \in Intents : Register(d)
  \/ \E d \in Batches : Register(d)
  \/ \E d \in Iterations : Register(d)
  \/ \E t \in Task, e \in Event, receipt \in Receipts : LinkEvidence(t, e, receipt)
  \/ \E t \in Task : CardComesOrGoes(t)

Spec == Init /\ [][Next]_vars

-----------------------------------------------------------------------------
(* Properties.                                                             *)

TypeOK ==
  /\ present \subseteq Task
  /\ \A k \in DOMAIN registry :
       IF k[1] = "evidence" THEN Fits(registry[k], k[2], k[3]) ELSE Key(registry[k]) = k

\* What a caller was told is registered, under a key, is there with that very
\* content, whoever else registers or was killed while registering.
ToldHolds == \A w \in told : w[1] \in DOMAIN registry /\ registry[w[1]] = w[2]

\* Every document a registered document refers to is registered, with the
\* content the reference means.
Stands(d) ==
  /\ d.kind \in {"batch", "iteration"} => Resolves("intent", d.intent)
  /\ d.kind = "iteration" =>
       /\ d.previous # None => Resolves("iteration", d.previous)
       /\ d.batch # None => Resolves("batch", d.batch)
ReferencesStand == \A k \in DOMAIN registry : k[1] # "evidence" => Stands(registry[k])

\* The counters of an iteration are the truth about the whole lineage behind it:
\* its ordinal is the length, its noProgress the observations since the last
\* progress that were not idle, and nothing before it had ended the lineage.
Lineage(d) ==
  LET back[n \in 0..(d.ordinal - 1)] == IF n = 0 THEN d ELSE back[n - 1].previous.digest
  IN back
CountsTrue ==
  \A d \in Docs("iteration") :
    LET back == Lineage(d)
        since == {n \in DOMAIN back : \A m \in 0..n : ~back[m].progress}
    IN /\ back[d.ordinal - 1].previous = None
       /\ d.noProgress = Cardinality({n \in since : back[n].decision # "idle"})
       /\ \A n \in DOMAIN back \ {0} : back[n].decision # "stopped" /\ back[n].intent = d.intent
=============================================================================
