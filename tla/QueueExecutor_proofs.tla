------------------------ MODULE QueueExecutor_proofs ------------------------
(***************************************************************************)
(* Proofs about the integration queue and its workers, for any number of   *)
(* requests, resources, owners and invocations.                            *)
(*                                                                         *)
(* Moved says what any operation may do to one request, so the queue's own *)
(* invariants are proved once, from that.  QueueInv is what the workers    *)
(* add: what a view is worth, whose claim is recorded, and what the        *)
(* adapter's steps know of the provider.                                   *)
(***************************************************************************)
EXTENDS QueueExecutor, TLAPS

\* The view a worker took of a request stays a view of a request that exists,
\* and an outcome is there to publish.
ViewsTyped ==
  \A w \in Worker :
    /\ pc[w] # "new" => view[w] \in View
    /\ pc[w] = "publish" => out[w] \in Outcome

\* Revisions only grow, so a view at the request's revision is up to date.
ViewsAgree ==
  \A w \in Worker : pc[w] # "new" =>
    LET v == view[w]
    IN  /\ Present(v.id)
        /\ v.rev <= queue[v.id].rev
        /\ v.rev = queue[v.id].rev =>
             v.state = queue[v.id].state /\ v.claim = queue[v.id].claim

\* Steps that a worker takes with a claim of its own.
ClaimSteps == {"admitted", "recovered"} \cup AdapterSteps

\* What the worker's view says at each of its steps.
ViewsFit ==
  \A w \in Worker :
    LET v == view[w]
    IN  /\ pc[w] \in ClaimSteps => v.claim = w
        /\ pc[w] \in AdapterSteps => v.state = "running"
        /\ pc[w] \in {"admitted", "recovered"} => v.state = "admitted"
        /\ pc[w] \in {"probe", "recover"} =>
             v.state \in Active /\ v.claim \in Worker
        /\ pc[w] = "recover" => pc[v.claim] \in Ended

\* A recorded claim names an invocation that made it; while that invocation
\* runs, nobody else has changed the request.
ClaimsLive ==
  \A id \in Id : queue[id].claim \in Worker =>
    LET w == queue[id].claim
    IN  /\ pc[w] \in ClaimSteps \cup Ended
        /\ view[w].id = id
        /\ pc[w] \notin Ended => view[w].rev = queue[id].rev

\* A worker inside the adapter still holds the request it runs.
AdapterHolds ==
  \A w \in Worker :
    pc[w] \in AdapterSteps => view[w].rev = queue[view[w].id].rev

\* A request waits for revalidation only after its worker has gone.
RevalidationIdle ==
  \A id \in Id :
    queue[id].state = "revalidation-required" => pc[queue[id].claim] \in Ended

ClaimInv == ViewsAgree /\ ViewsFit /\ ClaimsLive /\ AdapterHolds
              /\ RevalidationIdle

\* A provider works for running requests only, and what it landed is either
\* running, not yet reconciled, or succeeded; a request whose exit was misread
\* may be anywhere, but is succeeded only if it landed.
ProviderTracked ==
  \A id \in Id :
    /\ native[id] = "running" => queue[id].state = "running" \/ id \in misread
    /\ native[id] = "landed" =>
         queue[id].state \in {"running", "succeeded"} \/ id \in misread
    /\ queue[id].state = "succeeded" => native[id] = "landed"

\* What a worker inside the adapter knows of the provider.
AdapterKnows ==
  \A w \in Worker :
    LET n == native[view[w].id]
        barred == n \notin MayLand \/ view[w].id \in misread
    IN  /\ pc[w] = "execute" => barred
        /\ pc[w] = "publish" =>
             /\ out[w].state = "succeeded" => n = "landed"
             /\ out[w].state \in {"failed", "revalidation-required"} => barred
             /\ out[w].state \in {"succeeded", "failed", "running", "invalid",
                                  "revalidation-required"}

-----------------------------------------------------------------------------
(* The queue's own invariants.                                             *)

TypeInv == TypeOK /\ ViewsTyped

\* What an operation may do to the request it changes.
Moved(id) ==
  /\ Present(id)
  /\ queue' \in [Id -> Request]
  /\ \A x \in Id \ {id} : queue'[x] = queue[x]
  /\ queue'[id].spec = queue[id].spec
  /\ queue'[id].seq = queue[id].seq
  /\ queue'[id].rev = queue[id].rev + 1
  /\ queue[id].state \notin Terminal
  /\ queue'[id].state \in Claimed \cup Terminal
  /\ (queue'[id].claim # NoWorker) <=> (queue'[id].state \in Claimed)
  /\ \/ queue'[id].state \notin Active
     \/ queue[id].state \in Active
     \/ \A x \in Id \ {id} : SameResource(x, id) => queue[x].state \notin Active
  /\ \/ queue[id].state # "queued"
     \/ queue'[id].state = "cancelled"
     \/ \A x \in Id \ {id} : SameResource(x, id) =>
          ~(queue[x].state = "queued" /\ queue[x].seq < queue[id].seq)
  /\ UNCHANGED <<files, nextSeq>>

\* What Publish does to the state, whatever it publishes.
LEMMA PublishFacts ==
  ASSUME QueueTypeOK, NEW id \in Id, NEW r \in Request, Publish(id, r)
  PROVE  /\ queue' \in [Id -> Request]
         /\ \A x \in Id \ {id} : queue'[x] = queue[x]
         /\ queue'[id].spec = r.spec
         /\ queue'[id].seq = r.seq
         /\ queue'[id].state = r.state
         /\ queue'[id].claim = r.claim
         /\ queue'[id].rev = queue[id].rev + 1
         /\ UNCHANGED <<files, nextSeq>>
<1>1. queue[id].rev + 1 \in Nat
  BY DEF QueueTypeOK, Request
<1>2. [r EXCEPT !.rev = queue[id].rev + 1] \in Request
  BY <1>1 DEF Request
<1> QED BY <1>1, <1>2 DEF Publish, QueueTypeOK, Request

LEMMA AdmitMoves ==
  ASSUME QueueTypeOK, NEW id \in Id, NEW rev, NEW w \in Worker,
         CanAdmit(id, rev), PublishAdmit(id, w)
  PROVE  Moved(id) /\ queue'[id].state = "admitted" /\ queue'[id].claim = w
<1> DEFINE r == [queue[id] EXCEPT !.state = "admitted", !.claim = w]
<1>1. r \in Request
  <2>1. queue[id] \in Request /\ w \in Worker \cup {NoWorker}
    BY DEF QueueTypeOK
  <2>2. "admitted" \in State \cup {"absent"}
    BY DEF State, Claimed
  <2> QED BY <2>1, <2>2 DEF Request
<1>2. r.spec = queue[id].spec /\ r.seq = queue[id].seq
        /\ r.state = "admitted" /\ r.claim = w
  BY DEF QueueTypeOK, Request
<1>3. Publish(id, r)
  BY DEF PublishAdmit
<1> HIDE DEF r
<1> QED
  BY <1>1, <1>2, <1>3, PublishFacts, QueueAssumption
     DEF CanAdmit, Current, Moved, Claimed, Terminal, Active

LEMMA MarkMoves ==
  ASSUME QueueTypeOK, NEW id \in Id, NEW rev, NEW w, NEW to \in State,
         NEW exit \in Int, CanMark(id, rev, w, to), PublishMark(id, to, exit)
  PROVE  /\ Moved(id)
         /\ queue'[id].state = to
         /\ queue'[id].claim = IF to \in Terminal THEN NoWorker ELSE w
<1> DEFINE r == [queue[id] EXCEPT !.state = to, !.exit = exit,
                   !.claim = IF to \in Terminal THEN NoWorker ELSE @]
<1>1. r \in Request
  <2>1. queue[id] \in Request /\ to \in State \cup {"absent"}
    BY DEF QueueTypeOK
  <2> QED BY <2>1 DEF Request
<1>2. r.spec = queue[id].spec /\ r.seq = queue[id].seq /\ r.state = to
        /\ r.claim = IF to \in Terminal THEN NoWorker ELSE w
  BY DEF QueueTypeOK, Request, CanMark
<1>3. queue[id].state \in {"admitted", "running"}
        /\ to \in (Claimed \ {"admitted"}) \cup Terminal
  BY DEF CanMark, Current, AllowedTransition, QueueTypeOK, Claimed, Terminal
<1>4. Publish(id, r)
  BY DEF PublishMark
<1>5. w # NoWorker /\ Present(id)
  BY DEF CanMark, Current
<1> HIDE DEF r
<1>6. (queue'[id].claim # NoWorker) <=> (queue'[id].state \in Claimed)
  BY <1>1, <1>2, <1>3, <1>4, <1>5, PublishFacts DEF Claimed, Terminal
<1> QED
  BY <1>1, <1>2, <1>3, <1>4, <1>5, <1>6, PublishFacts
     DEF Moved, Claimed, Terminal, Active

LEMMA CancelMoves ==
  ASSUME QueueTypeOK, NEW id \in Id, NEW rev, CanCancel(id, rev),
         PublishCancel(id)
  PROVE  Moved(id) /\ queue'[id].state = "cancelled" /\ queue'[id].claim = NoWorker
<1> DEFINE r == [queue[id] EXCEPT !.state = "cancelled", !.claim = NoWorker]
<1>1. r \in Request
  <2>1. queue[id] \in Request /\ NoWorker \in Worker \cup {NoWorker}
    BY DEF QueueTypeOK
  <2>2. "cancelled" \in State \cup {"absent"}
    BY DEF State, Terminal
  <2> QED BY <2>1, <2>2 DEF Request
<1>2. r.spec = queue[id].spec /\ r.seq = queue[id].seq
        /\ r.state = "cancelled" /\ r.claim = NoWorker
  BY DEF QueueTypeOK, Request
<1>3. Publish(id, r)
  BY DEF PublishCancel
<1> HIDE DEF r
<1> QED
  BY <1>1, <1>2, <1>3, PublishFacts
     DEF CanCancel, Current, Moved, Claimed, Terminal, Active

LEMMA RecoverMoves ==
  ASSUME QueueTypeOK, NEW id \in Id, NEW rev, NEW state, NEW expected,
         NEW w \in Worker, CanRecover(id, rev, state, expected),
         PublishRecover(id, w)
  PROVE  Moved(id) /\ queue'[id].state = state /\ queue'[id].claim = w
<1> DEFINE r == [queue[id] EXCEPT !.claim = w]
<1>1. r \in Request
  BY DEF QueueTypeOK, Request
<1>2. r.spec = queue[id].spec /\ r.seq = queue[id].seq
        /\ r.state = state /\ r.claim = w
  BY DEF QueueTypeOK, Request, CanRecover
<1>3. Publish(id, r)
  BY DEF PublishRecover
<1>4. state \in Claimed
  BY DEF CanRecover, Current, QueueTypeOK
<1> HIDE DEF r
<1> QED
  BY <1>1, <1>2, <1>3, <1>4, PublishFacts, QueueAssumption
     DEF CanRecover, Current, Moved, Claimed, Terminal, Active

LEMMA ResumeMoves ==
  ASSUME QueueTypeOK, NEW id \in Id, ResumeRevalidation(id)
  PROVE  /\ Moved(id)
         /\ queue[id].state = "revalidation-required"
         /\ queue'[id].state = "admitted"
         /\ queue'[id].claim = queue[id].claim
<1> DEFINE r == [queue[id] EXCEPT !.state = "admitted"]
<1>1. r \in Request
  <2>1. queue[id] \in Request
    BY DEF QueueTypeOK
  <2>2. "admitted" \in State \cup {"absent"}
    BY DEF State, Claimed
  <2> QED BY <2>1, <2>2 DEF Request
<1>2. r.spec = queue[id].spec /\ r.seq = queue[id].seq
        /\ r.state = "admitted" /\ r.claim = queue[id].claim
  BY DEF QueueTypeOK, Request
<1>3. Publish(id, r)
  BY DEF ResumeRevalidation
<1> HIDE DEF r
<1> QED
  BY <1>1, <1>2, <1>3, PublishFacts
     DEF ResumeRevalidation, CanResume, Current, Moved, Claimed, Terminal, Active

\* Any step leaves the requests alone, adds one, or moves one.
QueueStep ==
  \/ UNCHANGED <<nextSeq, queue>> /\ files' \in {files, "state", "marked"}
  \/ \E s \in Submission : Enqueue(s)
  \/ \E id \in Id : Moved(id)

LEMMA QueueSteps == ASSUME TypeInv, [Next]_vars PROVE QueueStep
<1> USE DEF TypeInv, TypeOK
<1>1. CASE CommandStep
  <2>1. CASE CreateState \/ WriteMarker
    BY <2>1 DEF CreateState, WriteMarker, QueueStep
  <2>2. CASE \E s \in Submission : Enqueue(s)
    BY <2>2 DEF QueueStep
  <2>3. ASSUME NEW id \in Id, OwnerCancel(id) PROVE QueueStep
    BY <2>3, CancelMoves DEF OwnerCancel, QueueStep
  <2>4. ASSUME NEW id \in Id, ResumeRevalidation(id) PROVE QueueStep
    BY <2>4, ResumeMoves DEF QueueStep
  <2> QED BY <1>1, <2>1, <2>2, <2>3, <2>4 DEF CommandStep
<1>2. ASSUME NEW w \in Worker, WorkerStep(w) PROVE QueueStep
  <2>1. CASE UNCHANGED queueVars
    BY <2>1 DEF queueVars, QueueStep
  <2>2. pc[w] # "new" => view[w].id \in Id /\ view[w].state \in State
    BY DEF ViewsTyped, View
  <2>3. CASE Admit(w)
    BY <2>1, <2>2, <2>3, AdmitMoves DEF Admit, QueueStep
  <2>4. CASE CancelAdmitted(w)
    BY <2>1, <2>2, <2>4, CancelMoves DEF CancelAdmitted, QueueStep
  <2>5. CASE MarkRunning(w)
    <3>1. view[w].id \in Id
      BY <2>2, <2>5 DEF MarkRunning
    <3>2. queue[view[w].id].exit \in Int /\ "running" \in State
      BY <3>1 DEF QueueTypeOK, Request, State, Claimed
    <3> QED BY <2>1, <2>5, <3>1, <3>2, MarkMoves DEF MarkRunning, QueueStep
  <2>6. CASE Recover(w)
    BY <2>1, <2>2, <2>6, RecoverMoves DEF Recover, QueueStep
  <2>7. CASE PublishOutcome(w)
    <3> DEFINE to == IF out[w].state = "invalid" THEN "running" ELSE out[w].state
    <3>1. to \in State /\ out[w].exit \in Int
      BY <2>7 DEF PublishOutcome, ViewsTyped, Outcome, State, Claimed
    <3>2. view[w].id \in Id
      BY <2>2, <2>7 DEF PublishOutcome
    <3> HIDE DEF to
    <3>3. \/ CanMark(view[w].id, view[w].rev, w, to)
               /\ PublishMark(view[w].id, to, out[w].exit)
          \/ UNCHANGED queueVars
      BY <2>7 DEF PublishOutcome, to
    <3> QED BY <2>1, <3>1, <3>2, <3>3, MarkMoves DEF QueueStep
  <2> QED
    BY <1>2, <2>1, <2>3, <2>4, <2>5, <2>6, <2>7
       DEF WorkerStep, ExecuteGet, ResumeGet, Probe, RuntimeRefuses,
           RuntimeRevalidates, ProviderStarts, ExecuteReturns, ReconcileReturns
<1>3. CASE UNCHANGED queueVars
  BY <1>3 DEF queueVars, QueueStep
<1> QED BY <1>1, <1>2, <1>3 DEF Next, Crash, ProviderEnds, vars, queueVars

\* The queue keeps its types whatever step is taken.
LEMMA QueueTypeStep ==
  ASSUME QueueTypeOK, QueueStep PROVE QueueTypeOK'
<1>1. CASE UNCHANGED <<nextSeq, queue>> /\ files' \in {files, "state", "marked"}
  BY <1>1 DEF QueueTypeOK, Present
<1>2. ASSUME NEW s \in Submission, Enqueue(s) PROVE QueueTypeOK'
  <2> DEFINE r == [spec |-> s, state |-> "queued", seq |-> nextSeq + 1, rev |-> 1,
                   claim |-> NoWorker, exit |-> 0]
  <2>1. s.id \in Id
    BY QueueAssumption
  <2>2. r \in Request
    BY DEF QueueTypeOK, Request, State
  <2>3. queue' = [queue EXCEPT ![s.id] = r]
    BY <1>2 DEF Enqueue
  <2>4. queue' \in [Id -> Request] /\ queue'[s.id] = r
          /\ \A x \in Id \ {s.id} : queue'[x] = queue[x]
    BY <2>1, <2>2, <2>3 DEF QueueTypeOK
  <2>5. files' = files /\ nextSeq' = nextSeq + 1
    BY <1>2 DEF Enqueue
  <2>6. ASSUME NEW x \in Id, queue'[x].state # "absent"
        PROVE  /\ queue'[x].spec \in Submission /\ queue'[x].spec.id = x
               /\ queue'[x].seq \in 1..nextSeq' /\ queue'[x].rev > 0
               /\ (queue'[x].claim # NoWorker) <=> (queue'[x].state \in Claimed)
    <3>1. CASE x = s.id
      BY <2>4, <2>5, <3>1 DEF QueueTypeOK, Claimed
    <3>2. CASE x # s.id
      BY <2>4, <2>5, <2>6, <3>2 DEF QueueTypeOK, Present
    <3> QED BY <3>1, <3>2
  <2> QED BY <2>4, <2>5, <2>6 DEF QueueTypeOK, Present
<1>3. ASSUME NEW id \in Id, Moved(id) PROVE QueueTypeOK'
  <2>1. ASSUME NEW x \in Id, queue'[x].state # "absent"
        PROVE  /\ queue'[x].spec \in Submission /\ queue'[x].spec.id = x
               /\ queue'[x].seq \in 1..nextSeq' /\ queue'[x].rev > 0
               /\ (queue'[x].claim # NoWorker) <=> (queue'[x].state \in Claimed)
    <3>1. CASE x = id
      BY <1>3, <3>1 DEF Moved, QueueTypeOK, Request
    <3>2. CASE x # id
      BY <1>3, <2>1, <3>2 DEF Moved, QueueTypeOK, Present
    <3> QED BY <3>1, <3>2
  <2> QED BY <1>3, <2>1 DEF Moved, QueueTypeOK, Present
<1> QED BY <1>1, <1>2, <1>3 DEF QueueStep

\* Keys, sequence numbers and held resources stay unique.
LEMMA QueueValidStep ==
  ASSUME QueueTypeOK, QueueValid, QueueStep PROVE QueueValid'
<1>1. CASE UNCHANGED <<nextSeq, queue>>
  BY <1>1 DEF QueueValid, SameResource, Present
<1>2. ASSUME NEW s \in Submission, Enqueue(s) PROVE QueueValid'
  <2>1. s.id \in Id
    BY QueueAssumption
  <2>2. /\ queue'[s.id].state = "queued" /\ queue'[s.id].spec = s
        /\ queue'[s.id].seq = nextSeq + 1
        /\ \A x \in Id \ {s.id} : queue'[x] = queue[x]
    BY <1>2, <2>1 DEF Enqueue, QueueTypeOK
  <2>3. \A x \in Id : Present(x) =>
          x # s.id /\ queue[x].spec.key # s.key /\ queue[x].seq # nextSeq + 1
    BY <1>2 DEF Enqueue, QueueTypeOK
  <2> QED BY <2>1, <2>2, <2>3 DEF QueueValid, SameResource, Present, Active
<1>3. ASSUME NEW id \in Id, Moved(id) PROVE QueueValid'
  <2> SUFFICES ASSUME NEW x \in Id, NEW y \in Id, x # y, Present(x)', Present(y)'
               PROVE  /\ queue'[x].spec.key # queue'[y].spec.key
                      /\ queue'[x].seq # queue'[y].seq
                      /\ SameResource(x, y)' =>
                           ~(queue'[x].state \in Active /\ queue'[y].state \in Active)
    BY DEF QueueValid
  <2>1. Present(x) /\ Present(y)
    BY <1>3 DEF Moved, Present
  <2>2. queue'[x].spec = queue[x].spec /\ queue'[x].seq = queue[x].seq
          /\ queue'[y].spec = queue[y].spec /\ queue'[y].seq = queue[y].seq
    BY <1>3 DEF Moved
  <2>3. SameResource(x, y)' => SameResource(x, y) /\ SameResource(y, x)
    BY <2>1, <2>2 DEF SameResource
  <2>4. \/ x # id /\ queue'[x] = queue[x] /\ queue'[y] = queue[y]  /\ y # id
        \/ x = id /\ queue'[y] = queue[y] /\ y # id
        \/ y = id /\ queue'[x] = queue[x] /\ x # id
    BY <1>3 DEF Moved
  <2>5. SameResource(x, y)' =>
          ~(queue'[x].state \in Active /\ queue'[y].state \in Active)
    BY <1>3, <2>1, <2>3, <2>4 DEF Moved, QueueValid
  <2> QED BY <2>1, <2>2, <2>5 DEF QueueValid
<1> QED BY <1>1, <1>2, <1>3 DEF QueueStep

\* Nobody overtakes a waiting request.
LEMMA NoOvertakingStep ==
  ASSUME QueueTypeOK, NoOvertaking, QueueStep PROVE NoOvertaking'
<1>1. CASE UNCHANGED <<nextSeq, queue>>
  BY <1>1 DEF NoOvertaking, SameResource, Present
<1>2. ASSUME NEW s \in Submission, Enqueue(s) PROVE NoOvertaking'
  <2>1. s.id \in Id
    BY QueueAssumption
  <2>2. /\ queue'[s.id].state = "queued" /\ queue'[s.id].spec = s
        /\ queue'[s.id].seq = nextSeq + 1
        /\ \A x \in Id \ {s.id} : queue'[x] = queue[x]
    BY <1>2, <2>1 DEF Enqueue, QueueTypeOK
  <2>3. nextSeq \in Nat /\ \A x \in Id : Present(x) => queue[x].seq \in 1..nextSeq
    BY DEF QueueTypeOK
  <2> SUFFICES ASSUME NEW x \in Id, NEW y \in Id, SameResource(x, y)',
                      queue'[x].seq < queue'[y].seq, queue'[x].state = "queued",
                      y # s.id
               PROVE  queue'[y].state \in {"queued", "cancelled"}
    BY <2>2 DEF NoOvertaking
  <2>4. queue'[y] = queue[y] /\ Present(y)
    BY <2>2 DEF SameResource, Present
  <2>5. x # s.id
    BY <2>2, <2>3, <2>4
  <2> QED BY <2>2, <2>4, <2>5 DEF NoOvertaking, SameResource, Present
<1>3. ASSUME NEW id \in Id, Moved(id) PROVE NoOvertaking'
  <2> SUFFICES ASSUME NEW x \in Id, NEW y \in Id, SameResource(x, y)',
                      queue'[x].seq < queue'[y].seq, queue'[x].state = "queued"
               PROVE  queue'[y].state \in {"queued", "cancelled"}
    BY DEF NoOvertaking
  <2>1. x # id /\ queue'[x] = queue[x]
    BY <1>3 DEF Moved, Claimed, Terminal
  <2>2. queue'[y].spec = queue[y].spec /\ queue'[y].seq = queue[y].seq
          /\ Present(y)
    BY <1>3 DEF Moved, Present, SameResource
  <2>3. SameResource(x, y) /\ queue[x].seq < queue[y].seq /\ queue[x].state = "queued"
    BY <2>1, <2>2 DEF SameResource, Present
  <2>4. queue[y].state \in {"queued", "cancelled"}
    BY <2>3 DEF NoOvertaking
  <2>5. CASE y # id
    BY <1>3, <2>4, <2>5 DEF Moved
  <2>6. CASE y = id
    BY <1>3, <2>1, <2>3, <2>4, <2>6 DEF Moved, Terminal
  <2> QED BY <2>5, <2>6
<1> QED BY <1>1, <1>2, <1>3 DEF QueueStep

-----------------------------------------------------------------------------
(* The workers' types.                                                     *)

\* A worker's snapshot of a request that is there is a view.
LEMMA SnapshotTyped ==
  ASSUME QueueTypeOK, NEW w \in Worker, NEW id \in Id, queue[id].state \in State,
         view \in [Worker -> View \cup {NoView}], Snapshot(w, id)
  PROVE  /\ view' \in [Worker -> View \cup {NoView}]
         /\ view' = [view EXCEPT ![w] = view'[w]]
         /\ view'[w] \in View
         /\ view'[w].id = id
         /\ view'[w].rev = queue[id].rev
         /\ view'[w].state = queue[id].state
         /\ view'[w].claim = queue[id].claim
<1> DEFINE v == [id |-> id, rev |-> queue[id].rev, state |-> queue[id].state,
                 claim |-> queue[id].claim]
<1>1. v \in View
  BY DEF QueueTypeOK, Request, View
<1> QED BY <1>1 DEF Snapshot

\* A worker that published expects what it published.
LEMMA AdvanceTyped ==
  ASSUME NEW w \in Worker, view \in [Worker -> View \cup {NoView}],
         view[w] \in View, NEW state \in State, Advance(w, state)
  PROVE  /\ view' \in [Worker -> View \cup {NoView}]
         /\ view' = [view EXCEPT ![w] = view'[w]]
         /\ view'[w] \in View
         /\ view'[w].id = view[w].id
         /\ view'[w].rev = view[w].rev + 1
         /\ view'[w].state = state
         /\ view'[w].claim = w
<1> DEFINE v == [view[w] EXCEPT !.rev = view[w].rev + 1, !.state = state, !.claim = w]
<1>1. view[w].rev + 1 \in Nat
  BY DEF View
<1>2. v \in View
  BY <1>1 DEF View
<1>3. v.id = view[w].id /\ v.rev = view[w].rev + 1 /\ v.state = state /\ v.claim = w
  BY DEF View
<1>4. view' = [view EXCEPT ![w] = v]
  BY DEF Advance
<1> HIDE DEF v
<1> QED BY <1>2, <1>3, <1>4

\* normalizeOutcome returns an outcome that publish can record.
LEMMA NormalizeTyped ==
  ASSUME NEW s \in State, NEW x \in Int
  PROVE  /\ Normalize([state |-> s, exit |-> x]) \in Outcome
         /\ Normalize([state |-> s, exit |-> x]).state
              \in {"succeeded", "failed", "running", "revalidation-required", "invalid"}
  BY DEF Normalize, Outcome, State, Claimed

LEMMA ReturnTyped ==
  ASSUME TypeInv, NEW w \in Worker, NEW s \in {"succeeded", "failed", "running",
                                              "revalidation-required"},
         NEW x \in Int, Return(w, [state |-> s, exit |-> x])
  PROVE  /\ out' \in [Worker -> Outcome \cup {NoOutcome}]
         /\ pc' \in [Worker -> Steps]
         /\ pc' = [pc EXCEPT ![w] = "publish"]
         /\ out'[w] = Normalize([state |-> s, exit |-> x])
         /\ out'[w] \in Outcome
         /\ \A y \in Worker \ {w} : out'[y] = out[y]
<1>1. s \in State
  BY DEF State, Claimed, Terminal
<1> QED
  BY <1>1, NormalizeTyped
     DEF Return, Goto, TypeInv, TypeOK, Steps, AdapterSteps

\* Every step keeps the workers' and the queue's types.
LEMMA TypeStep == ASSUME TypeInv, [Next]_vars PROVE TypeInv'
<1> DEFINE WorkersTyped ==
      /\ pc \in [Worker -> Steps]
      /\ view \in [Worker -> View \cup {NoView}]
      /\ out \in [Worker -> Outcome \cup {NoOutcome}]
      /\ native \in [Id -> Native]
      /\ ViewsTyped
<1>q. QueueTypeOK'
  BY QueueSteps, QueueTypeStep DEF TypeInv, TypeOK
<1>t. WorkersTyped /\ QueueTypeOK
  BY DEF TypeInv, TypeOK
<1>i. \A w \in Worker : pc[w] # "new" =>
        view[w] \in View /\ view[w].id \in Id /\ view[w].state \in State
  BY DEF TypeInv, ViewsTyped, View
<1>s. {"admitted", "running"} \subseteq State
  BY DEF State, Claimed
<1>m. misread' \subseteq Id
  <2>1. misread' = misread \/ \E w \in Worker : ExecuteReturns(w) \/ ReconcileReturns(w)
    BY DEF Next, CommandStep, workerVars, WorkerStep, ExecuteGet, Admit, CancelAdmitted,
           MarkRunning, ResumeGet, Probe, Recover, RuntimeRefuses, RuntimeRevalidates,
           ProviderStarts, PublishOutcome, Crash, ProviderEnds, vars
  <2>2. ASSUME NEW w \in Worker, ExecuteReturns(w) \/ ReconcileReturns(w)
        PROVE  misread' \subseteq misread \cup {view[w].id} /\ view[w].id \in Id
    BY <1>i, <2>2 DEF ExecuteReturns, ReconcileReturns, ReturnUnproven
  <2> QED BY <2>1, <2>2 DEF TypeInv, TypeOK
<1> SUFFICES WorkersTyped'
  BY <1>m, <1>q DEF TypeInv, TypeOK
<1>1. ASSUME NEW w \in Worker, WorkerStep(w) PROVE WorkersTyped'
  <2> USE <1>t, <1>i DEF ViewsTyped
  <2>1. ASSUME NEW id \in Id, ExecuteGet(w, id) \/ ResumeGet(w, id)
        PROVE  WorkersTyped'
    <3>1. queue[id].state \in State
      BY <2>1 DEF ExecuteGet, ResumeGet, Active, State, Claimed
    <3>2. Snapshot(w, id) /\ UNCHANGED <<out, native>>
            /\ (Goto(w, "admit") \/ Goto(w, "probe"))
      BY <2>1 DEF ExecuteGet, ResumeGet
    <3>3. pc' \in [Worker -> Steps] /\ (pc' = [pc EXCEPT ![w] = "admit"]
                                          \/ pc' = [pc EXCEPT ![w] = "probe"])
      BY <3>2 DEF Goto, Steps
    <3> QED BY <3>1, <3>2, <3>3, SnapshotTyped
  <2>2. ASSUME UNCHANGED <<view, out, native>>, pc[w] # "new",
               NEW step \in Steps \ {"publish"}, Goto(w, step)
        PROVE  WorkersTyped'
    BY <2>2 DEF Goto
  <2>3. ASSUME NEW state \in State, Advance(w, state), pc[w] # "new",
               NEW step \in Steps \ {"publish"}, Goto(w, step), UNCHANGED <<out, native>>
        PROVE  WorkersTyped'
    <3>1. pc' \in [Worker -> Steps] /\ pc' = [pc EXCEPT ![w] = step]
      BY <2>3 DEF Goto
    <3> QED BY <2>3, <3>1, AdvanceTyped
  <2>4. CASE Admit(w)
    BY <1>s, <2>2, <2>3, <2>4 DEF Admit, Steps, Ended
  <2>5. CASE CancelAdmitted(w)
    BY <2>2, <2>5 DEF CancelAdmitted, Steps, Ended
  <2>6. CASE MarkRunning(w)
    BY <1>s, <2>2, <2>3, <2>6 DEF MarkRunning, Steps, AdapterSteps, Ended
  <2>7. CASE Probe(w)
    BY <2>2, <2>7 DEF Probe, Steps, Ended
  <2>8. CASE Recover(w)
    <3>1. {"recovered", "reconcile", "done"} \subseteq Steps \ {"publish"}
      BY DEF Steps, AdapterSteps, Ended
    <3> QED BY <2>2, <2>3, <2>8, <3>1 DEF Recover
  <2>9. ASSUME NEW s \in {"succeeded", "failed", "running", "revalidation-required"},
               NEW x \in Int, Return(w, [state |-> s, exit |-> x]), pc[w] # "new",
               UNCHANGED view, native' \in [Id -> Native]
        PROVE  WorkersTyped'
    BY <2>9, ReturnTyped
  <2>10. CASE RuntimeRefuses(w)
    BY <2>9, <2>10 DEF RuntimeRefuses
  <2>11. CASE RuntimeRevalidates(w)
    BY <2>9, <2>11 DEF RuntimeRevalidates, Native
  <2>12. CASE ProviderStarts(w)
    BY <2>12 DEF ProviderStarts, Goto, Native, Steps, AdapterSteps
  <2>13. CASE ExecuteReturns(w) \/ ReconcileReturns(w)
    <3>1. pc[w] # "new" /\ UNCHANGED view /\ native' \in [Id -> Native]
      BY <2>13 DEF ExecuteReturns, ReconcileReturns
    <3>2. \/ Return(w, [state |-> "succeeded", exit |-> 0])
          \/ Return(w, [state |-> "revalidation-required", exit |-> 4])
          \/ \E x \in UnknownExit : Return(w, [state |-> "running", exit |-> x])
      BY <2>13 DEF ExecuteReturns, ReconcileReturns, ReturnUnproven
    <3>3. ASSUME NEW x \in UnknownExit, Return(w, [state |-> "running", exit |-> x])
          PROVE  WorkersTyped'
      BY <2>9, <3>1, <3>3, ExecutorAssumption
    <3>4. CASE Return(w, [state |-> "succeeded", exit |-> 0])
      BY <2>9, <3>1, <3>4
    <3>5. CASE Return(w, [state |-> "revalidation-required", exit |-> 4])
      BY <2>9, <3>1, <3>5
    <3> HIDE DEF WorkersTyped
    <3> QED BY <3>2, <3>3, <3>4, <3>5
  <2>15. CASE PublishOutcome(w)
    BY <2>2, <2>15 DEF PublishOutcome, Steps, Ended
  <2> QED
    BY <1>1, <2>1, <2>4, <2>5, <2>6, <2>7, <2>8, <2>10, <2>11, <2>12, <2>13, <2>15
       DEF WorkerStep
<1>2. ASSUME NEW w \in Worker, Crash(w) PROVE WorkersTyped'
  BY <1>2, <1>t, <1>i DEF Crash, Goto, Steps, Ended, ViewsTyped
<1>3. ASSUME NEW id \in Id, ProviderEnds(id) PROVE WorkersTyped'
  BY <1>3, <1>t DEF ProviderEnds, Native, ViewsTyped
<1>4. CASE UNCHANGED workerVars
  BY <1>4, <1>t DEF workerVars, ViewsTyped
<1> QED BY <1>1, <1>2, <1>3, <1>4 DEF Next, CommandStep, vars, workerVars

\* The initial state has the types.
LEMMA TypeInit == ASSUME Init PROVE TypeInv
<1>1. NoRequest \in Request
  BY DEF NoRequest, Request
<1>2. QueueTypeOK
  BY <1>1 DEF Init, QueueInit, QueueTypeOK, Present, NoRequest
<1> QED
  BY <1>2 DEF Init, TypeInv, TypeOK, ViewsTyped, Steps, Native

\* No operation builds a queue that the store would refuse to write, and no
\* request goes past an earlier one that waits for its resource, whichever
\* exit codes the providers use.
THEOREM QueueConsistentAlways == Spec => []QueueConsistent
<1> DEFINE Inv == TypeInv /\ QueueValid /\ NoOvertaking
<1>1. Init => Inv
  <2> SUFFICES ASSUME Init PROVE Inv
    OBVIOUS
  <2>1. \A id \in Id : ~Present(id)
    BY DEF Init, QueueInit, Present, NoRequest
  <2> QED BY <2>1, TypeInit DEF QueueValid, NoOvertaking, SameResource
<1>2. Inv /\ [Next]_vars => Inv'
  BY QueueSteps, TypeStep, QueueValidStep, NoOvertakingStep DEF TypeInv, TypeOK
<1>3. Inv => QueueConsistent
  BY DEF TypeInv, QueueConsistent
<1> QED BY <1>1, <1>2, <1>3, PTL DEF Spec

-----------------------------------------------------------------------------
(* Claims and views.                                                       *)

\* The pc and the view of every other worker stay.
OnlyWorker(w) ==
  \A y \in Worker \ {w} : pc'[y] = pc[y] /\ view'[y] = view[y]

\* A worker inside the adapter holds the request it runs.
LEMMA AdapterClaims ==
  ASSUME TypeInv, ClaimInv, NEW w \in Worker, pc[w] \in AdapterSteps
  PROVE  /\ view[w].id \in Id
         /\ Current(view[w].id, view[w].rev)
         /\ queue[view[w].id].state = "running"
         /\ queue[view[w].id].claim = w
<1>1. pc[w] # "new" /\ pc[w] \in ClaimSteps
  BY DEF AdapterSteps, ClaimSteps
<1>2. view[w] \in View
  BY <1>1 DEF TypeInv, ViewsTyped
<1> QED
  BY <1>1, <1>2 DEF ClaimInv, ViewsAgree, ViewsFit, AdapterHolds, View, Current

\* Views stay true when those that change are taken from the new state.
LEMMA ViewsAgreeStep ==
  ASSUME TypeInv, ViewsAgree, QueueStep,
         \A w \in Worker : pc'[w] # "new" =>
           \/ pc[w] # "new" /\ view'[w] = view[w]
           \/ LET v == view'[w]
              IN  /\ v.id \in Id /\ v.rev \in Nat
                  /\ queue'[v.id].state # "absent"
                  /\ v.rev = queue'[v.id].rev
                  /\ v.state = queue'[v.id].state /\ v.claim = queue'[v.id].claim
  PROVE  ViewsAgree'
<1> SUFFICES ASSUME NEW w \in Worker, pc'[w] # "new"
             PROVE  /\ queue'[view'[w].id].state # "absent"
                    /\ view'[w].rev <= queue'[view'[w].id].rev
                    /\ view'[w].rev = queue'[view'[w].id].rev =>
                         /\ view'[w].state = queue'[view'[w].id].state
                         /\ view'[w].claim = queue'[view'[w].id].claim
  BY DEF ViewsAgree, Present
<1> SUFFICES ASSUME pc[w] # "new", view'[w] = view[w]
             PROVE  /\ queue'[view[w].id].state # "absent"
                    /\ view[w].rev <= queue'[view[w].id].rev
                    /\ view[w].rev = queue'[view[w].id].rev =>
                         /\ view[w].state = queue'[view[w].id].state
                         /\ view[w].claim = queue'[view[w].id].claim
  OBVIOUS
<1> DEFINE v == view[w]
<1>1. v.id \in Id /\ v.rev \in Nat /\ Present(v.id) /\ v.rev <= queue[v.id].rev
        /\ queue[v.id].rev \in Nat
        /\ (v.rev = queue[v.id].rev =>
              v.state = queue[v.id].state /\ v.claim = queue[v.id].claim)
  BY DEF ViewsAgree, TypeInv, TypeOK, ViewsTyped, View, QueueTypeOK, Request
<1> HIDE DEF v
<1>2. CASE queue'[v.id] = queue[v.id]
  BY <1>1, <1>2 DEF Present, v
<1>3. CASE Moved(v.id)
  BY <1>1, <1>3 DEF Moved, Present, Claimed, Terminal, v
<1>4. ASSUME NEW s \in Submission, Enqueue(s) PROVE queue'[v.id] = queue[v.id]
  BY <1>1, <1>4, QueueAssumption DEF Enqueue, TypeInv, TypeOK, QueueTypeOK
<1>5. ASSUME NEW id \in Id, Moved(id), id # v.id PROVE queue'[v.id] = queue[v.id]
  BY <1>1, <1>5 DEF Moved
<1> QED BY <1>1, <1>2, <1>3, <1>4, <1>5 DEF QueueStep

\* After its step a worker's view fits its new place, and the claims it has
\* recorded are still its own.
StepperFits(w) ==
  LET v == view'[w]
  IN  /\ pc[w] \in Ended => pc'[w] \in Ended
      /\ pc'[w] \in ClaimSteps => v.claim = w
      /\ pc'[w] \in AdapterSteps =>
           v.state = "running" /\ v.rev = queue'[v.id].rev
      /\ pc'[w] \in {"admitted", "recovered"} => v.state = "admitted"
      /\ pc'[w] \in {"probe", "recover"} =>
           v.state \in Active /\ v.claim \in Worker
      /\ pc'[w] = "recover" => pc'[v.claim] \in Ended
      /\ \A x \in Id : queue'[x].claim = w =>
           /\ pc'[w] \in ClaimSteps \cup Ended
           /\ v.id = x
           /\ pc'[w] \notin Ended => v.rev = queue'[x].rev

\* Nobody but its worker changes a request that a live worker runs, and the
\* claim it has afterwards is the stepping worker's, a dead one's or none.
ChangeFits(w, id) ==
  queue'[id] # queue[id] =>
    /\ \/ queue[id].state # "running"
       \/ queue[id].claim = w
       \/ pc[queue[id].claim] \in Ended
    /\ \/ queue'[id].claim \in {w, NoWorker}
       \/ queue'[id].claim = queue[id].claim /\ pc[queue[id].claim] \in Ended
    /\ queue'[id].state = "revalidation-required" => pc'[queue'[id].claim] \in Ended

\* A step of at most one worker that changes at most one request keeps the
\* claims right if it fits; w is NoWorker for a step of no worker.
LEMMA ClaimStep ==
  ASSUME TypeInv, ClaimInv, ViewsAgree', QueueTypeOK',
         NEW w \in Worker \cup {NoWorker}, OnlyWorker(w),
         w \in Worker => StepperFits(w),
         NEW id, \A x \in Id \ {id} : queue'[x] = queue[x],
         ChangeFits(w, id)
  PROVE  ClaimInv'
<1> USE DEF StepperFits, ChangeFits
<1>1. \A y \in Worker : pc[y] \in Ended => pc'[y] \in Ended
  BY DEF OnlyWorker
<1>2. ViewsFit'
  <2> SUFFICES ASSUME NEW y \in Worker, y # w, pc[y] = "recover"
               PROVE  pc'[view[y].claim] \in Ended
    BY DEF ViewsFit, OnlyWorker, ClaimInv
  <2> QED BY <1>1 DEF ClaimInv, ViewsFit
<1>3. ClaimsLive'
  <2> SUFFICES ASSUME NEW x \in Id, queue'[x].claim \in Worker, queue'[x].claim # w
               PROVE  LET c == queue'[x].claim
                      IN  /\ pc'[c] \in ClaimSteps \cup Ended
                          /\ view'[c].id = x
                          /\ pc'[c] \notin Ended => view'[c].rev = queue'[x].rev
    BY DEF ClaimsLive
  <2>1. queue'[x] = queue[x] \/ (x = id /\ queue'[x].claim = queue[x].claim
                                  /\ pc[queue[x].claim] \in Ended)
    BY QueueAssumption
  <2> QED BY <2>1 DEF ClaimInv, ClaimsLive, OnlyWorker
<1>4. AdapterHolds'
  <2> SUFFICES ASSUME NEW y \in Worker, y # w, pc[y] \in AdapterSteps
               PROVE  view[y].rev = queue'[view[y].id].rev
    BY DEF AdapterHolds, OnlyWorker
  <2>1. queue[view[y].id].state = "running" /\ queue[view[y].id].claim = y
          /\ view[y].id \in Id /\ pc[y] \notin Ended
    BY AdapterClaims DEF AdapterSteps, Ended
  <2>2. queue'[view[y].id] = queue[view[y].id]
    BY <2>1
  <2> QED BY <2>2 DEF ClaimInv, AdapterHolds
<1>5. RevalidationIdle'
  <2> SUFFICES ASSUME NEW x \in Id, queue'[x].state = "revalidation-required",
                      queue'[x] = queue[x]
               PROVE  pc'[queue[x].claim] \in Ended
    BY DEF RevalidationIdle
  <2>1. queue[x].claim \in Worker
    BY DEF TypeInv, TypeOK, QueueTypeOK, Present, Request, Claimed
  <2> QED BY <1>1, <2>1 DEF ClaimInv, RevalidationIdle
<1> QED BY <1>2, <1>3, <1>4, <1>5 DEF ClaimInv

LEMMA ClaimInvStep == ASSUME TypeInv, ClaimInv, [Next]_vars PROVE ClaimInv'
<1>q. QueueTypeOK /\ QueueTypeOK' /\ QueueStep /\ TypeInv'
  BY TypeStep, QueueSteps DEF TypeInv, TypeOK
<1>v. \A w \in Worker : pc[w] # "new" =>
        /\ view[w] \in View /\ view[w].id \in Id /\ view[w].rev \in Nat
        /\ view[w].state \in State
        /\ queue[view[w].id].rev \in Nat
  BY <1>q DEF TypeInv, ViewsTyped, View, QueueTypeOK, Request
<1>s. {"admitted", "running"} \subseteq State
  BY DEF State, Claimed
<1>u. CASE UNCHANGED <<queue, pc, view>>
  BY <1>u DEF ClaimInv, ViewsAgree, ViewsFit, ClaimsLive, AdapterHolds,
             RevalidationIdle, Present
<1>1. CASE CommandStep
  <2>1. UNCHANGED <<pc, view>> /\ OnlyWorker(NoWorker)
    BY <1>1 DEF CommandStep, workerVars, OnlyWorker
  <2>2. ViewsAgree'
    BY <1>q, <2>1, ViewsAgreeStep DEF ClaimInv
  <2>3. ASSUME NEW id, \A x \in Id \ {id} : queue'[x] = queue[x],
               ChangeFits(NoWorker, id)
        PROVE  ClaimInv'
    BY <1>q, <2>1, <2>2, <2>3, ClaimStep, QueueAssumption
  <2>4. CASE CreateState \/ WriteMarker
    BY <1>u, <2>1, <2>4 DEF CreateState, WriteMarker
  <2>5. ASSUME NEW s \in Submission, Enqueue(s) PROVE ClaimInv'
    <3>1. s.id \in Id /\ ~Present(s.id)
      BY <2>5, QueueAssumption DEF Enqueue
    <3>2. queue'[s.id].claim = NoWorker /\ queue'[s.id].state = "queued"
            /\ \A x \in Id \ {s.id} : queue'[x] = queue[x]
      BY <1>q, <2>5, <3>1 DEF Enqueue, QueueTypeOK
    <3> QED BY <2>3, <3>1, <3>2 DEF ChangeFits, Present
  <2>6. ASSUME NEW id \in Id, OwnerCancel(id) PROVE ClaimInv'
    <3>1. Moved(id) /\ queue'[id].claim = NoWorker /\ queue'[id].state = "cancelled"
      BY <1>q, <2>6, CancelMoves DEF OwnerCancel
    <3>2. queue[id].state # "running"
      BY <2>6 DEF OwnerCancel, CanCancel
    <3> QED BY <2>3, <3>1, <3>2 DEF ChangeFits, Moved
  <2>7. ASSUME NEW id \in Id, ResumeRevalidation(id) PROVE ClaimInv'
    <3>1. Moved(id) /\ queue[id].state = "revalidation-required"
            /\ queue'[id].state = "admitted" /\ queue'[id].claim = queue[id].claim
      BY <1>q, <2>7, ResumeMoves
    <3>2. pc[queue[id].claim] \in Ended
      BY <3>1 DEF ClaimInv, RevalidationIdle
    <3> QED BY <2>3, <3>1, <3>2 DEF ChangeFits, Moved
  <2> QED BY <1>1, <2>4, <2>5, <2>6, <2>7 DEF CommandStep
\* A worker goes on without touching a request or its view.
<1>2. ASSUME NEW w \in Worker, UNCHANGED <<queue, view>>, NEW step, Goto(w, step),
             pc[w] \notin Ended \cup {"new"},
             \/ step \in Ended
             \/ pc[w] = "probe" /\ step = "recover" /\ pc[view[w].claim] \in Ended
             \/ pc[w] \in AdapterSteps /\ step \in AdapterSteps
      PROVE  ClaimInv'
  <2>1. pc' = [pc EXCEPT ![w] = step] /\ pc \in [Worker -> Steps]
    BY <1>2 DEF Goto, TypeInv, TypeOK
  <2>2. OnlyWorker(w) /\ pc'[w] = step
    BY <1>2, <2>1 DEF OnlyWorker
  <2>3. ViewsAgree'
    BY <1>q, <1>2, <2>2, ViewsAgreeStep DEF ClaimInv, OnlyWorker
  <2>4. StepperFits(w)
    <3> USE <1>2, <2>2 DEF ClaimInv, ViewsFit, ClaimsLive, AdapterHolds
    <3>1. CASE step \in Ended
      BY <3>1 DEF StepperFits, Ended, ClaimSteps, AdapterSteps
    <3>2. CASE pc[w] = "probe" /\ step = "recover" /\ pc[view[w].claim] \in Ended
      <4>1. pc'[view[w].claim] \in Ended
        BY <2>1, <3>2 DEF Ended
      <4> QED BY <3>2, <4>1 DEF StepperFits, Ended, ClaimSteps, AdapterSteps
    <3>3. CASE pc[w] \in AdapterSteps /\ step \in AdapterSteps
      BY <3>3 DEF StepperFits, Ended, ClaimSteps, AdapterSteps
    <3> QED BY <3>1, <3>2, <3>3
  <2> QED BY <1>q, <1>2, <2>2, <2>3, <2>4, ClaimStep DEF ChangeFits
\* A worker reads a request.
<1>3. ASSUME NEW w \in Worker, NEW id \in Id, ExecuteGet(w, id) \/ ResumeGet(w, id)
      PROVE  ClaimInv'
  <2>1. /\ queue[id].state \in State /\ queue[id].state # "absent"
        /\ Snapshot(w, id) /\ queue' = queue /\ pc[w] = "new"
        /\ \/ queue[id].state \in Active /\ Goto(w, "probe")
           \/ Goto(w, "admit")
    BY <1>3 DEF ExecuteGet, ResumeGet, queueVars, Active, State, Claimed
  <2>2. /\ view' = [view EXCEPT ![w] = view'[w]]
        /\ view'[w].id = id
        /\ view'[w].rev = queue[id].rev
        /\ view'[w].state = queue[id].state
        /\ view'[w].claim = queue[id].claim
        /\ view'[w] \in View
    BY <1>q, <2>1, SnapshotTyped DEF TypeInv, TypeOK
  <2>3. /\ OnlyWorker(w)
        /\ pc'[w] \in {"probe", "admit"}
        /\ pc'[w] = "probe" => queue[id].state \in Active
    BY <2>1, <2>2 DEF Goto, OnlyWorker, TypeInv, TypeOK
  <2>4. ViewsAgree'
    <3>1. view'[w].id \in Id /\ view'[w].rev \in Nat
      BY <2>2 DEF View
    <3> QED
      BY <1>q, <2>1, <2>2, <2>3, <3>1, ViewsAgreeStep DEF ClaimInv, OnlyWorker
  <2>5. \A x \in Id : queue[x].claim # w
    BY <2>1 DEF ClaimInv, ClaimsLive, ClaimSteps, AdapterSteps, Ended
  <2>6. queue[id].state \in Active => queue[id].claim \in Worker
    BY <1>q DEF QueueTypeOK, Present, Request, Active, Claimed
  <2>7. StepperFits(w)
    BY <2>1, <2>2, <2>3, <2>5, <2>6
       DEF StepperFits, Ended, ClaimSteps, AdapterSteps
  <2> QED BY <1>q, <2>1, <2>3, <2>4, <2>7, ClaimStep DEF ChangeFits
\* A worker publishes its claim, or the next state under it, and goes on.
<1>4. ASSUME NEW w \in Worker, Current(view[w].id, view[w].rev), Moved(view[w].id),
             pc[w] \notin Ended \cup {"new"}, NEW step, Goto(w, step),
             NEW state \in {"admitted", "running"}, Advance(w, state),
             queue'[view[w].id].state = state, queue'[view[w].id].claim = w,
             \/ step \in {"admitted", "recovered"} /\ state = "admitted"
             \/ step \in AdapterSteps /\ state = "running",
             \/ queue[view[w].id].claim \in {NoWorker, w}
             \/ pc[queue[view[w].id].claim] \in Ended
      PROVE  ClaimInv'
  <2> DEFINE id == view[w].id
  <2>1. /\ view' = [view EXCEPT ![w] = view'[w]]
        /\ view'[w].id = id
        /\ view'[w].rev = view[w].rev + 1
        /\ view'[w].state = state
        /\ view'[w].claim = w
    BY <1>q, <1>4, <1>v, <1>s, AdvanceTyped DEF TypeInv, TypeOK
  <2>2. OnlyWorker(w) /\ pc'[w] = step
    BY <1>4, <2>1 DEF Goto, OnlyWorker, TypeInv, TypeOK
  <2>3. /\ id \in Id /\ view'[w].rev \in Nat
        /\ view'[w].rev = queue'[id].rev
        /\ \A x \in Id \ {id} : queue'[x] = queue[x]
    BY <1>v, <1>4, <2>1 DEF Moved, Current
  <2> HIDE DEF id
  <2>4. ViewsAgree'
    <3>1. queue'[id].state # "absent"
      BY <1>4 DEF id
    <3> QED
      BY <1>q, <1>4, <2>1, <2>2, <2>3, <3>1, ViewsAgreeStep DEF ClaimInv, OnlyWorker, id
  <2>5. \A x \in Id : queue'[x].claim = w => x = id
    BY <1>4, <2>3 DEF ClaimInv, ClaimsLive, id
  <2>6. StepperFits(w)
    BY <1>4, <2>1, <2>2, <2>3, <2>5
       DEF StepperFits, Ended, ClaimSteps, AdapterSteps, id
  <2>7. queue[id].claim = NoWorker => queue[id].state # "running"
    BY <1>q, <1>4, <2>3 DEF QueueTypeOK, Current, Claimed, id
  <2>8. ChangeFits(w, id)
    BY <1>4, <2>7 DEF ChangeFits, id
  <2> QED BY <1>q, <2>2, <2>3, <2>4, <2>6, <2>8, ClaimStep
\* A worker publishes a result or a cancellation and ends.
<1>5. ASSUME NEW w \in Worker, Moved(view[w].id), UNCHANGED view,
             pc[w] \notin Ended \cup {"new"}, Goto(w, "done"),
             queue'[view[w].id].claim \in {NoWorker, w},
             \/ queue[view[w].id].claim = w
             \/ queue[view[w].id].state # "running"
      PROVE  ClaimInv'
  <2> DEFINE id == view[w].id
  <2>1. OnlyWorker(w) /\ pc'[w] = "done"
    BY <1>5 DEF Goto, OnlyWorker, TypeInv, TypeOK
  <2>2. id \in Id /\ \A x \in Id \ {id} : queue'[x] = queue[x]
    BY <1>v, <1>5 DEF Moved
  <2>3. ViewsAgree'
    BY <1>q, <1>5, <2>1, ViewsAgreeStep DEF ClaimInv, OnlyWorker
  <2> HIDE DEF id
  <2>4. \A x \in Id : queue'[x].claim = w => x = id
    BY <1>5, <2>2 DEF ClaimInv, ClaimsLive, id
  <2>5. StepperFits(w)
    BY <1>5, <2>1, <2>4 DEF StepperFits, Ended, ClaimSteps, AdapterSteps, id
  <2>6. queue'[id].state = "revalidation-required" => queue'[id].claim = w
    BY <1>q, <1>5, <2>2 DEF QueueTypeOK, Present, Claimed, id
  <2>7. ChangeFits(w, id)
    BY <1>5, <2>1, <2>6 DEF ChangeFits, Ended, id
  <2> QED BY <1>q, <2>1, <2>2, <2>3, <2>5, <2>7, ClaimStep
<1>6. ASSUME NEW w \in Worker, WorkerStep(w) PROVE ClaimInv'
  <2> DEFINE v == view[w]
  <2>1. ASSUME pc[w] \notin Ended \cup {"new"}, UNCHANGED <<queueVars, view>>,
               Goto(w, "done")
        PROVE  ClaimInv'
    BY <1>2, <2>1 DEF queueVars, Ended
  <2>2. ASSUME pc[w] \in AdapterSteps, UNCHANGED <<queueVars, view>>,
               NEW step \in AdapterSteps, Goto(w, step)
        PROVE  ClaimInv'
    BY <1>2, <2>2 DEF queueVars, AdapterSteps, Ended
  <2>3. CASE Admit(w)
    <3>1. CASE CanAdmit(v.id, v.rev)
      <4>1. /\ Current(v.id, v.rev) /\ pc[w] = "admit" /\ queue[v.id].state = "queued"
            /\ PublishAdmit(v.id, w) /\ Advance(w, "admitted") /\ Goto(w, "admitted")
        BY <2>3, <3>1 DEF Admit, CanAdmit
      <4>2. queue[v.id].claim = NoWorker
        BY <1>q, <1>v, <4>1 DEF QueueTypeOK, Present, Claimed
      <4>3. Moved(v.id) /\ queue'[v.id].state = "admitted" /\ queue'[v.id].claim = w
        BY <1>q, <1>v, <3>1, <4>1, AdmitMoves
      <4> QED BY <1>4, <4>1, <4>2, <4>3 DEF Ended
    <3> QED BY <2>1, <2>3, <3>1 DEF Admit, Ended
  <2>4. CASE CancelAdmitted(w)
    <3>1. CASE CanCancel(v.id, v.rev)
      <4>1. Moved(v.id) /\ queue'[v.id].claim = NoWorker
        BY <1>q, <1>v, <2>4, <3>1, CancelMoves DEF CancelAdmitted
      <4> QED BY <1>5, <2>4, <3>1, <4>1 DEF CancelAdmitted, CanCancel, Ended
    <3> QED BY <2>1, <2>4, <3>1 DEF CancelAdmitted, Ended
  <2>5. CASE MarkRunning(w)
    <3>1. CASE CanMark(v.id, v.rev, w, "running")
      <4>1. /\ Current(v.id, v.rev) /\ queue[v.id].claim = w
            /\ pc[w] \in {"admitted", "recovered"}
            /\ PublishMark(v.id, "running", queue[v.id].exit)
            /\ Advance(w, "running") /\ Goto(w, "execute")
        BY <2>5, <3>1 DEF MarkRunning, CanMark
      <4>2. queue[v.id].exit \in Int
        BY <1>q, <1>v, <4>1 DEF QueueTypeOK, Request
      <4>3. Moved(v.id) /\ queue'[v.id].state = "running" /\ queue'[v.id].claim = w
        BY <1>q, <1>s, <1>v, <3>1, <4>1, <4>2, MarkMoves DEF Terminal
      <4> QED BY <1>4, <4>1, <4>3 DEF Ended, AdapterSteps
    <3> QED BY <2>1, <2>5, <3>1 DEF MarkRunning, Ended
  <2>6. CASE Recover(w)
    <3>1. CASE CanRecover(v.id, v.rev, v.state, v.claim)
      <4>1. /\ Current(v.id, v.rev) /\ queue[v.id].claim = v.claim
            /\ pc[w] = "recover" /\ PublishRecover(v.id, w) /\ Advance(w, v.state)
            /\ Goto(w, IF v.state = "admitted" THEN "recovered" ELSE "reconcile")
        BY <2>6, <3>1 DEF Recover, CanRecover
      <4>2. v.state \in {"admitted", "running"} /\ pc[v.claim] \in Ended
        BY <4>1 DEF ClaimInv, ViewsFit, Active
      <4>3. Moved(v.id) /\ queue'[v.id].state = v.state /\ queue'[v.id].claim = w
        BY <1>q, <1>v, <3>1, <4>1, RecoverMoves
      <4> QED BY <1>4, <4>1, <4>2, <4>3 DEF Ended, AdapterSteps
    <3> QED BY <2>1, <2>6, <3>1 DEF Recover, Ended
  <2>7. CASE Probe(w)
    BY <1>2, <2>7 DEF Probe, queueVars, Ended
  <2>8. CASE PublishOutcome(w)
    <3> DEFINE to == IF out[w].state = "invalid" THEN "running" ELSE out[w].state
    <3>1. to \in State /\ out[w].exit \in Int
      BY <2>8 DEF PublishOutcome, TypeInv, ViewsTyped, Outcome, State, Claimed
    <3>2. /\ pc[w] = "publish" /\ UNCHANGED view /\ Goto(w, "done")
          /\ \/ CanMark(v.id, v.rev, w, to) /\ PublishMark(v.id, to, out[w].exit)
             \/ UNCHANGED queueVars
      BY <2>8 DEF PublishOutcome
    <3> HIDE DEF to
    <3>3. CASE CanMark(v.id, v.rev, w, to) /\ PublishMark(v.id, to, out[w].exit)
      <4>1. Moved(v.id) /\ queue'[v.id].claim \in {NoWorker, w}
        BY <1>q, <1>v, <3>1, <3>2, <3>3, MarkMoves
      <4> QED BY <1>5, <3>2, <3>3, <4>1 DEF CanMark, Ended
    <3> QED BY <2>1, <3>2, <3>3 DEF Ended
  <2>9. CASE \/ RuntimeRefuses(w) \/ RuntimeRevalidates(w) \/ ProviderStarts(w)
             \/ ExecuteReturns(w) \/ ReconcileReturns(w)
    BY <2>2, <2>9
       DEF RuntimeRefuses, RuntimeRevalidates, ProviderStarts, ExecuteReturns,
           ReconcileReturns, ReturnUnproven, Return, AdapterSteps
  <2> QED
    BY <1>3, <1>6, <2>3, <2>4, <2>5, <2>6, <2>7, <2>8, <2>9 DEF WorkerStep
<1>7. ASSUME NEW w \in Worker, Crash(w) PROVE ClaimInv'
  BY <1>2, <1>7 DEF Crash, queueVars, Ended
<1> QED
  BY <1>u, <1>1, <1>6, <1>7 DEF Next, ProviderEnds, vars, queueVars

-----------------------------------------------------------------------------
(* The provider.  normalizeOutcome reads every exit 4 as a refusal that    *)
(* came before any mutation; misread holds the requests of which an        *)
(* outcome that nobody proved carried it, and only those escape what       *)
(* follows (README, disagreements).                                        *)

ProviderInv == ProviderTracked /\ AdapterKnows

\* Two workers are never inside the adapter for one request.
LEMMA AdapterAlone ==
  ASSUME TypeInv, ClaimInv, NEW w \in Worker, NEW y \in Worker,
         pc[w] \in AdapterSteps, pc[y] \in AdapterSteps, view[w].id = view[y].id
  PROVE  w = y
  BY AdapterClaims

\* What publish is told when the outcome is not proven.
LEMMA NormalizeUnknown ==
  ASSUME NEW x \in UnknownExit
  PROVE  /\ x # 4 => Normalize([state |-> "running", exit |-> x]).state
                       \in {"running", "invalid"}
         /\ x = 4 => Normalize([state |-> "running", exit |-> x]).state
                       = "revalidation-required"
  BY ExecutorAssumption DEF Normalize

\* An outcome misread is never forgotten.
LEMMA MisreadGrows ==
  ASSUME [Next]_vars PROVE misread \subseteq misread'
  BY DEF Next, CommandStep, workerVars, WorkerStep, ExecuteGet, Admit, CancelAdmitted,
         MarkRunning, ResumeGet, Probe, Recover, RuntimeRefuses, RuntimeRevalidates,
         ProviderStarts, ExecuteReturns, ReconcileReturns, ReturnUnproven,
         PublishOutcome, Crash, ProviderEnds, vars

LEMMA ProviderTrackedStep ==
  ASSUME TypeInv, ClaimInv, ProviderInv, [Next]_vars
  PROVE  ProviderTracked'
<1>q. QueueTypeOK /\ QueueStep /\ native \in [Id -> Native]
  BY QueueSteps DEF TypeInv, TypeOK
<1>v. \A w \in Worker : pc[w] # "new" => view[w].id \in Id /\ view[w].state \in State
  BY DEF TypeInv, ViewsTyped, View
<1>g. misread \subseteq misread'
  BY MisreadGrows
<1>u. CASE UNCHANGED <<queue, native>>
  BY <1>g, <1>u DEF ProviderInv, ProviderTracked
<1>m. ASSUME NEW id \in Id, Moved(id), UNCHANGED native,
             queue[id].state = "running" =>
               \/ queue'[id].state = "running"
               \/ queue'[id].state = "succeeded" /\ native[id] = "landed"
               \/ native[id] \notin MayLand
               \/ id \in misread,
             queue'[id].state = "succeeded" => native[id] = "landed"
      PROVE  ProviderTracked'
  BY <1>g, <1>m DEF ProviderInv, ProviderTracked, Moved, MayLand, Terminal
<1>1. CASE CommandStep
  <2>1. UNCHANGED native
    BY <1>1 DEF CommandStep, workerVars
  <2>2. CASE CreateState \/ WriteMarker
    BY <1>u, <2>1, <2>2 DEF CreateState, WriteMarker
  <2>3. ASSUME NEW s \in Submission, Enqueue(s) PROVE ProviderTracked'
    <3>1. s.id \in Id /\ queue[s.id].state = "absent"
      BY <2>3, QueueAssumption DEF Enqueue, Present
    <3>2. queue'[s.id].state = "queued"
            /\ \A x \in Id \ {s.id} : queue'[x] = queue[x]
      BY <1>q, <2>3, <3>1 DEF Enqueue, QueueTypeOK
    <3> QED BY <1>g, <2>1, <3>1, <3>2 DEF ProviderInv, ProviderTracked
  <2>4. ASSUME NEW id \in Id, OwnerCancel(id) PROVE ProviderTracked'
    BY <1>m, <1>q, <2>1, <2>4, CancelMoves DEF OwnerCancel, CanCancel
  <2>5. ASSUME NEW id \in Id, ResumeRevalidation(id) PROVE ProviderTracked'
    BY <1>m, <1>q, <2>1, <2>5, ResumeMoves
  <2> QED BY <1>1, <2>2, <2>3, <2>4, <2>5 DEF CommandStep
<1>2. ASSUME NEW w \in Worker, WorkerStep(w) PROVE ProviderTracked'
  <2> DEFINE v == view[w]
  <2>1. CASE Admit(w)
    BY <1>m, <1>q, <1>u, <1>v, <2>1, AdmitMoves DEF Admit, CanAdmit, queueVars
  <2>2. CASE CancelAdmitted(w)
    BY <1>m, <1>q, <1>u, <1>v, <2>2, CancelMoves
       DEF CancelAdmitted, CanCancel, queueVars
  <2>3. CASE MarkRunning(w)
    <3>1. v.id \in Id /\ queue[v.id].exit \in Int /\ "running" \in State
      BY <1>q, <1>v, <2>3 DEF MarkRunning, QueueTypeOK, Request, State, Claimed
    <3> QED BY <1>m, <1>q, <1>u, <2>3, <3>1, MarkMoves DEF MarkRunning, queueVars
  <2>4. CASE Recover(w)
    <3>1. v.state \in {"admitted", "running"}
      BY <2>4 DEF Recover, ClaimInv, ViewsFit, Active
    <3> QED
      BY <1>m, <1>q, <1>u, <1>v, <2>4, <3>1, RecoverMoves
         DEF Recover, CanRecover, queueVars
  <2>5. CASE PublishOutcome(w)
    <3> DEFINE to == IF out[w].state = "invalid" THEN "running" ELSE out[w].state
    <3>1. to \in State /\ out[w].exit \in Int
      BY <2>5 DEF PublishOutcome, TypeInv, ViewsTyped, Outcome, State, Claimed
    <3>2. /\ to \in {"succeeded", "failed", "running", "revalidation-required"}
          /\ to = "succeeded" => native[v.id] = "landed"
          /\ to \in {"failed", "revalidation-required"} =>
               native[v.id] \notin MayLand \/ v.id \in misread
      BY <2>5 DEF PublishOutcome, ProviderInv, AdapterKnows
    <3>3. /\ v.id \in Id /\ UNCHANGED native
          /\ \/ CanMark(v.id, v.rev, w, to) /\ PublishMark(v.id, to, out[w].exit)
             \/ UNCHANGED queueVars
      BY <1>v, <2>5 DEF PublishOutcome
    <3> HIDE DEF to
    <3> QED BY <1>m, <1>q, <1>u, <3>1, <3>2, <3>3, MarkMoves DEF queueVars
  <2>6. CASE RuntimeRevalidates(w) \/ ProviderStarts(w)
    <3>1. pc[w] \in AdapterSteps
      BY <2>6 DEF RuntimeRevalidates, ProviderStarts, AdapterSteps
    <3>2. v.id \in Id /\ queue[v.id].state = "running"
      BY <3>1, AdapterClaims
    <3>3. queue' = queue /\ \E n \in Native : native' = [native EXCEPT ![v.id] = n]
      BY <2>6 DEF RuntimeRevalidates, ProviderStarts, queueVars, Native
    <3> QED BY <1>g, <1>q, <3>2, <3>3 DEF ProviderInv, ProviderTracked
  <2> QED
    BY <1>2, <1>u, <2>1, <2>2, <2>3, <2>4, <2>5, <2>6
       DEF WorkerStep, ExecuteGet, ResumeGet, Probe, RuntimeRefuses,
           ExecuteReturns, ReconcileReturns, queueVars
<1>3. ASSUME NEW id \in Id, ProviderEnds(id) PROVE ProviderTracked'
  BY <1>3, <1>g, <1>q DEF ProviderEnds, ProviderInv, ProviderTracked, queueVars
<1> QED BY <1>u, <1>1, <1>2, <1>3 DEF Next, Crash, vars, queueVars

LEMMA AdapterKnowsStep ==
  ASSUME TypeInv, ClaimInv, ProviderInv, [Next]_vars
  PROVE  AdapterKnows'
<1> DEFINE Knows(w) ==
      LET n == native[view[w].id]
          barred == n \notin MayLand \/ view[w].id \in misread
      IN  /\ pc[w] = "execute" => barred
          /\ pc[w] = "publish" =>
               /\ out[w].state = "succeeded" => n = "landed"
               /\ out[w].state \in {"failed", "revalidation-required"} => barred
               /\ out[w].state \in {"succeeded", "failed", "running", "invalid",
                                    "revalidation-required"}
<1>m. misread \subseteq misread'
  BY MisreadGrows
<1>k. \A y \in Worker : Knows(y)
  BY DEF ProviderInv, AdapterKnows
<1>g. SUFFICES \A y \in Worker : Knows(y)'
  BY DEF AdapterKnows
<1>t. pc \in [Worker -> Steps] /\ native \in [Id -> Native]
        /\ view \in [Worker -> View \cup {NoView}]
        /\ out \in [Worker -> Outcome \cup {NoOutcome}]
  BY DEF TypeInv, TypeOK
<1>a. \A y \in Worker : pc[y] \in {"execute", "publish"} => pc[y] \in AdapterSteps
  BY DEF AdapterSteps
\* The worker goes to a step at which it need not know anything.
<1>1. ASSUME NEW w \in Worker, NEW step \in Steps \ {"execute", "publish"}, Goto(w, step),
             UNCHANGED <<out, native>>,
             \A y \in Worker \ {w} : view'[y] = view[y]
      PROVE  \A y \in Worker : Knows(y)'
  BY <1>1, <1>k, <1>m, <1>t DEF Goto
\* The adapter returns: only its own request can have changed.
<1>2. ASSUME NEW w \in Worker, pc[w] \in AdapterSteps, UNCHANGED view,
             \A y \in Worker \ {w} : pc'[y] = pc[y] /\ out'[y] = out[y],
             \A x \in Id \ {view[w].id} : native'[x] = native[x], Knows(w)'
      PROVE  \A y \in Worker : Knows(y)'
  <2> SUFFICES ASSUME NEW y \in Worker, y # w PROVE Knows(y)'
    BY <1>2
  <2>1. pc'[y] = pc[y] /\ out'[y] = out[y] /\ view'[y] = view[y]
    BY <1>2
  <2>2. pc[y] \in {"execute", "publish"} =>
          view[y].id # view[w].id /\ view[y].id \in Id
    BY <1>2, <1>a, AdapterAlone, AdapterClaims
  <2>3. pc[y] \in {"execute", "publish"} => native'[view[y].id] = native[view[y].id]
    BY <1>2, <2>2
  <2> QED BY <1>k, <1>m, <2>1, <2>3
<1>3. ASSUME NEW w \in Worker, WorkerStep(w) PROVE \A y \in Worker : Knows(y)'
  <2> DEFINE id == view[w].id
  <2>1. CASE \E x \in Id : ExecuteGet(w, x) \/ ResumeGet(w, x)
    BY <1>1, <1>t, <2>1 DEF ExecuteGet, ResumeGet, Snapshot, Steps
  <2>2. CASE Admit(w) \/ CancelAdmitted(w) \/ Recover(w) \/ Probe(w)
               \/ PublishOutcome(w)
    <3>1. {"admitted", "done", "recovered", "reconcile", "recover"}
            \subseteq Steps \ {"execute", "publish"}
      BY DEF Steps, AdapterSteps, Ended
    <3>2. UNCHANGED <<out, native>> /\ \A y \in Worker \ {w} : view'[y] = view[y]
      BY <1>t, <2>2 DEF Admit, CancelAdmitted, Recover, Probe, PublishOutcome, Advance
    <3>3. \E step \in {"admitted", "done", "recovered", "reconcile", "recover"} :
            Goto(w, step)
      BY <2>2 DEF Admit, CancelAdmitted, Recover, Probe, PublishOutcome
    <3> QED BY <1>1, <3>1, <3>2, <3>3
  <2>3. CASE MarkRunning(w)
    <3>1. CASE Goto(w, "done")
      BY <1>1, <1>t, <2>3, <3>1 DEF MarkRunning, Advance, Steps, Ended
    <3>2. CASE CanMark(id, view[w].rev, w, "running") /\ Goto(w, "execute")
                 /\ Advance(w, "running")
      <4>1. id \in Id /\ queue[id].state = "admitted"
        BY <2>3, <3>2
           DEF MarkRunning, CanMark, Current, TypeInv, ViewsTyped, View, ClaimInv,
               ViewsAgree, ViewsFit
      <4>2. native[id] \notin MayLand \/ id \in misread
        BY <4>1 DEF ProviderInv, ProviderTracked, MayLand
      <4>3. view[w] \in View
        BY <2>3 DEF MarkRunning, TypeInv, ViewsTyped
      <4>4. view'[w].id = id /\ \A y \in Worker \ {w} : view'[y] = view[y]
        BY <1>t, <3>2, <4>3 DEF Advance, View
      <4>5. pc' = [pc EXCEPT ![w] = "execute"] /\ UNCHANGED <<out, native>>
        BY <2>3, <3>2 DEF MarkRunning, Goto
      <4> QED BY <1>k, <1>m, <1>t, <4>2, <4>4, <4>5
    <3> QED BY <2>3, <3>1, <3>2 DEF MarkRunning
  <2>4. ASSUME pc[w] \in AdapterSteps, UNCHANGED view,
               \A x \in Id \ {id} : native'[x] = native[x],
               NEW s \in {"succeeded", "failed", "running", "revalidation-required"},
               NEW x \in Int, Return(w, [state |-> s, exit |-> x]),
               LET r == Normalize([state |-> s, exit |-> x]).state
               IN  /\ r = "succeeded" => native'[id] = "landed"
                   /\ r \in {"failed", "revalidation-required"} =>
                        native'[id] \notin MayLand \/ id \in misread'
        PROVE  \A y \in Worker : Knows(y)'
    <3>1. s \in State
      BY DEF State, Claimed, Terminal
    <3>2. /\ out'[w].state \in {"succeeded", "failed", "running", "invalid",
                               "revalidation-required"}
          /\ out'[w] = Normalize([state |-> s, exit |-> x])
          /\ pc' = [pc EXCEPT ![w] = "publish"]
          /\ \A y \in Worker \ {w} : out'[y] = out[y]
      BY <2>4, <3>1, NormalizeTyped, ReturnTyped
    <3>3. Knows(w)'
      BY <1>t, <2>4, <3>2
    <3>4. \A y \in Worker \ {w} : pc'[y] = pc[y] /\ out'[y] = out[y]
      BY <3>2
    <3> HIDE DEF Knows
    <3> QED BY <1>2, <2>4, <3>3, <3>4
  <2>5. CASE RuntimeRefuses(w)
    <3>1. /\ pc[w] = "execute" /\ UNCHANGED <<view, native>>
          /\ native[id] \notin MayLand \/ id \in misread'
      BY <1>k, <1>m, <2>5 DEF RuntimeRefuses
    <3>2. ASSUME NEW x \in {1, 2}, Return(w, [state |-> "failed", exit |-> x])
          PROVE  \A y \in Worker : Knows(y)'
      <4>1. Normalize([state |-> "failed", exit |-> x]).state = "failed"
        BY DEF Normalize
      <4> HIDE DEF Knows
      <4> QED BY <1>a, <2>4, <3>1, <3>2, <4>1
    <3> HIDE DEF Knows
    <3> QED BY <2>5, <3>2 DEF RuntimeRefuses
  <2>6. CASE RuntimeRevalidates(w)
    <3>1. Normalize([state |-> "revalidation-required", exit |-> 4]).state
            = "revalidation-required"
      BY DEF Normalize
    <3>2. pc[w] \in AdapterSteps /\ UNCHANGED view
            /\ native' = [native EXCEPT ![id] = "refused"]
            /\ Return(w, [state |-> "revalidation-required", exit |-> 4])
      BY <2>6 DEF RuntimeRevalidates, AdapterSteps
    <3>3. native'[id] \notin MayLand /\ \A x \in Id \ {id} : native'[x] = native[x]
      BY <1>t, <3>2, AdapterClaims DEF MayLand
    <3> HIDE DEF Knows
    <3> QED BY <2>4, <3>1, <3>2, <3>3
  <2>7. CASE ProviderStarts(w)
    <3>1. /\ pc[w] = "execute" /\ pc' = [pc EXCEPT ![w] = "attempted"]
          /\ native' = [native EXCEPT ![id] = "running"] /\ UNCHANGED <<view, out>>
      BY <2>7 DEF ProviderStarts, Goto
    <3>2. Knows(w)' /\ \A x \in Id \ {id} : native'[x] = native[x]
      BY <1>t, <3>1
    <3>3. \A y \in Worker \ {w} : pc'[y] = pc[y] /\ out'[y] = out[y]
      BY <3>1
    <3> HIDE DEF Knows
    <3> QED BY <1>2, <1>a, <3>1, <3>2, <3>3
  <2>8. CASE ExecuteReturns(w) \/ ReconcileReturns(w)
    <3>1. pc[w] \in AdapterSteps /\ UNCHANGED <<view, native>>
      BY <2>8 DEF ExecuteReturns, ReconcileReturns, AdapterSteps
    <3>2. ASSUME native[id] = "landed", Return(w, [state |-> "succeeded", exit |-> 0])
          PROVE  \A y \in Worker : Knows(y)'
      <4>1. Normalize([state |-> "succeeded", exit |-> 0]).state = "succeeded"
        BY DEF Normalize
      <4> HIDE DEF Knows
      <4> QED BY <2>4, <3>1, <3>2, <4>1
    <3>3. ASSUME native[id] = "refused",
                 Return(w, [state |-> "revalidation-required", exit |-> 4])
          PROVE  \A y \in Worker : Knows(y)'
      <4>1. Normalize([state |-> "revalidation-required", exit |-> 4]).state
              = "revalidation-required"
        BY DEF Normalize
      <4> HIDE DEF Knows
      <4> QED BY <2>4, <3>1, <3>3, <4>1 DEF MayLand
    <3>4. ASSUME NEW x \in UnknownExit, Return(w, [state |-> "running", exit |-> x]),
                 x = 4 => id \in misread'
          PROVE  \A y \in Worker : Knows(y)'
      <4>1. x \in Int
        BY ExecutorAssumption
      <4>2. LET s == Normalize([state |-> "running", exit |-> x]).state
            IN  /\ s # "succeeded"
                /\ s \in {"failed", "revalidation-required"} => id \in misread'
        BY <3>4, NormalizeUnknown
      <4> HIDE DEF Knows
      <4> QED BY <2>4, <3>1, <3>4, <4>1, <4>2
    <3> HIDE DEF Knows
    <3> QED
      BY <2>8, <3>2, <3>3, <3>4 DEF ExecuteReturns, ReconcileReturns, ReturnUnproven
  <2> HIDE DEF Knows
  <2> QED BY <1>3, <2>1, <2>2, <2>3, <2>5, <2>6, <2>7, <2>8
      DEF WorkerStep
<1>4. ASSUME NEW w \in Worker, Crash(w) PROVE \A y \in Worker : Knows(y)'
  BY <1>1, <1>4 DEF Crash, Steps, Ended
<1>5. ASSUME NEW x \in Id, ProviderEnds(x) PROVE \A y \in Worker : Knows(y)'
  BY <1>5, <1>k, <1>m, <1>t DEF ProviderEnds, MayLand
<1>6. CASE UNCHANGED workerVars
  BY <1>6, <1>k DEF workerVars
<1> HIDE DEF Knows
<1> QED BY <1>3, <1>4, <1>5, <1>6 DEF Next, CommandStep, vars, workerVars

\* The inductive invariant of the queue with its workers and providers.
QueueInv == TypeInv /\ QueueValid /\ ClaimInv /\ ProviderInv

LEMMA QueueInvInit == ASSUME Init PROVE QueueInv
<1>1. TypeInv /\ \A id \in Id : queue[id] = NoRequest
  BY TypeInit DEF Init, QueueInit
<1> QED
  BY <1>1, QueueAssumption
     DEF Init, QueueInv, QueueValid, ClaimInv, ViewsAgree, ViewsFit, ClaimsLive,
         AdapterHolds, RevalidationIdle, ProviderInv, ProviderTracked,
         AdapterKnows, NoRequest, Present, ClaimSteps, AdapterSteps

LEMMA QueueInvStep ==
  ASSUME QueueInv, [Next]_vars PROVE QueueInv'
  BY QueueSteps, TypeStep, QueueValidStep, ClaimInvStep, ProviderTrackedStep,
     AdapterKnowsStep DEF QueueInv, TypeInv, TypeOK, ProviderInv

LEMMA QueueInvAlways == Spec => []QueueInv
  BY QueueInvInit, QueueInvStep, PTL DEF Spec

\* A request in flight is running, so it holds its resource.
LEMMA InFlightRuns ==
  ASSUME QueueInv, NEW id \in Id, InFlight(id) PROVE queue[id].state = "running"
  BY AdapterClaims DEF QueueInv, ProviderInv, ProviderTracked, InFlight

\* Two requests for one resource are never in flight together: not two workers
\* in the adapter, nor a worker and the provider a dead worker left behind, if
\* no unproven outcome of that provider's request carried exit 4.
THEOREM OneIntegrationAlways == Spec => []OneIntegrationPerResource
<1>1. QueueInv => OneIntegrationPerResource
  BY InFlightRuns
     DEF QueueInv, OneIntegrationPerResource, QueueValid, SameResource, Active
<1> QED BY <1>1, QueueInvAlways, PTL

\* What the queue reports as final is what the provider did: a success always,
\* a failure or a cancellation unless the request's exit was misread.
THEOREM OutcomeTruthfulAlways == Spec => []OutcomeTruthful
<1>1. QueueInv => OutcomeTruthful
  BY DEF QueueInv, ProviderInv, ProviderTracked, OutcomeTruthful, MayLand
<1> QED BY <1>1, QueueInvAlways, PTL

\* "Any uncertain provider result stays running" (integration_request.go:222)
\* holds of every request of which no uncertain result carried exit 4, whatever
\* the others' results carried.
THEOREM UncertainStaysRunningAlways == Spec => []UncertainStaysRunning
<1>1. QueueInv => UncertainStaysRunning
  BY DEF QueueInv, ProviderInv, ProviderTracked, UncertainStaysRunning, MayLand
<1> QED BY <1>1, QueueInvAlways, PTL

\* The provider is never started for a request whose task has landed or whose
\* provider is still at work, unless the request's exit was misread.
THEOREM NeverRerunAlways == Spec => NeverRerun
<1>1. QueueInv => \A w \in Worker : pc[w] = "execute" =>
        native[view[w].id] \notin MayLand \/ view[w].id \in misread
  BY DEF QueueInv, ProviderInv, AdapterKnows
<1>2. QueueInv /\ [Next]_vars =>
        [\A w \in Worker : pc[w] = "execute" /\ pc'[w] = "attempted"
           => native[view[w].id] \notin MayLand \/ view[w].id \in misread]_vars
  BY <1>1
<1> QED BY <1>2, QueueInvAlways, PTL DEF Spec, NeverRerun

=============================================================================
