-------------------------- MODULE IntegrationQueue --------------------------
(***************************************************************************)
(* The durable integration request queue (internal/integrationqueue/       *)
(* store.go): requests that wait for, hold and leave a shared resource.    *)
(* Every operation runs under an exclusive flock, reads the whole state,   *)
(* checks the caller's revision, and publishes a new state with one        *)
(* rename, so an operation is one step.  An error returned after the       *)
(* rename and a crash right after it leave the same state behind.          *)
(*                                                                         *)
(* This module gives the queue its state and its operations; the workers   *)
(* that call them are in QueueExecutor.                                    *)
(***************************************************************************)
EXTENDS Integers, FiniteSets

CONSTANTS Id,           \* request identifiers
          Key,          \* idempotency keys
          Resource,     \* resources that admit one request at a time
          OwnerId,      \* request owners: actor, host and kind
          Worker,       \* worker invocations; a claim names the one that made it
          NoWorker,     \* "no claim"
          Submission    \* the specs that callers submit

ASSUME QueueAssumption ==
  /\ NoWorker \notin Worker
  /\ Submission \subseteq
       [id : Id, key : Key, resource : Resource, owner : OwnerId]

VARIABLES
  files,   \* what of the state file and the initialized marker is on disk
  nextSeq, \* NextSequence
  queue    \* the persisted request of each identifier

queueVars == <<files, nextSeq, queue>>

-----------------------------------------------------------------------------
(* Type definitions.                                                       *)

Terminal == {"succeeded", "failed", "cancelled"}

\* The states that carry a claim (validRequestClaim).
Claimed == {"admitted", "running", "revalidation-required"}

State == {"queued"} \cup Claimed \cup Terminal

\* The states that hold a resource.
Active == {"admitted", "running"}

NoSpec == [id |-> "none"]

Request == [spec : Submission \cup {NoSpec}, state : State \cup {"absent"},
            seq : Nat, rev : Nat, claim : Worker \cup {NoWorker}, exit : Int]

NoRequest == [spec |-> NoSpec, state |-> "absent", seq |-> 0, rev |-> 0,
              claim |-> NoWorker, exit |-> 0]

-----------------------------------------------------------------------------
(* Reading the state.                                                      *)

Present(id) == queue[id].state # "absent"

SameResource(a, b) ==
  Present(a) /\ Present(b) /\ queue[a].spec.resource = queue[b].spec.resource

\* mutateWithState: the request exists at the revision the caller expects.
Current(id, rev) == Present(id) /\ queue[id].rev = rev

\* allowedTransition.
AllowedTransition(from, to) ==
  \/ from = "queued" /\ to \in {"cancelled", "revalidation-required"}
  \/ /\ from = "admitted"
     /\ to \in {"running", "failed", "cancelled", "revalidation-required"}
  \/ /\ from = "running"
     /\ to \in {"running", "succeeded", "failed", "revalidation-required"}

-----------------------------------------------------------------------------
(* What each operation requires of the state it reads.                     *)

\* Admit: the resource is free and no earlier request waits for it.
CanAdmit(id, rev) ==
  /\ Current(id, rev)
  /\ queue[id].state = "queued"
  /\ \A x \in Id \ {id} : SameResource(x, id) =>
       /\ queue[x].state \notin Active
       /\ ~(queue[x].state = "queued" /\ queue[x].seq < queue[id].seq)

\* Mark: the claim is the recorded one and the transition is allowed.
CanMark(id, rev, claim, to) ==
  /\ Current(id, rev)
  /\ queue[id].state \notin Terminal
  /\ queue[id].claim # NoWorker
  /\ queue[id].claim = claim
  /\ AllowedTransition(queue[id].state, to)

\* Cancel: a running request is never cancelled.
CanCancel(id, rev) ==
  /\ Current(id, rev)
  /\ queue[id].state \notin Terminal \cup {"running"}

\* RecoverAdmitted and RecoverRunning: the expected claim is still recorded.
\* The caller has observed its worker dead.
CanRecover(id, rev, state, expected) ==
  /\ Current(id, rev)
  /\ queue[id].state = state
  /\ queue[id].claim # NoWorker
  /\ queue[id].claim = expected

\* Mutant of CanResume: the resource may be busy.
CanResumeBusy(id, rev, expected) ==
  /\ Current(id, rev)
  /\ queue[id].state = "revalidation-required"
  /\ queue[id].claim # NoWorker
  /\ queue[id].claim = expected

\* ResumeRevalidation: the resource is free.  Waiting requests are not asked.
CanResume(id, rev, expected) ==
  /\ Current(id, rev)
  /\ queue[id].state = "revalidation-required"
  /\ queue[id].claim # NoWorker
  /\ queue[id].claim = expected
  /\ \A x \in Id \ {id} : SameResource(x, id) => queue[x].state \notin Active

-----------------------------------------------------------------------------
(* The publications.  write refuses a state that validatePersisted rejects; *)
(* QueueValid below says that no operation ever builds one.                *)

Publish(id, request) ==
  /\ queue' = [queue EXCEPT ![id] = [request EXCEPT !.rev = queue[id].rev + 1]]
  /\ UNCHANGED <<files, nextSeq>>

PublishAdmit(id, claim) ==
  Publish(id, [queue[id] EXCEPT !.state = "admitted", !.claim = claim])

PublishMark(id, to, exit) ==
  Publish(id, [queue[id] EXCEPT
    !.state = to,
    !.exit = exit,
    !.claim = IF to \in Terminal THEN NoWorker ELSE @])

PublishCancel(id) ==
  Publish(id, [queue[id] EXCEPT !.state = "cancelled", !.claim = NoWorker])

PublishRecover(id, claim) == Publish(id, [queue[id] EXCEPT !.claim = claim])

-----------------------------------------------------------------------------
QueueInit ==
  /\ files = "none"
  /\ nextSeq = 0
  /\ queue = [id \in Id |-> NoRequest]

\* New: the state file is written before the marker.  A crash between the two
\* leaves a state without marker, which the next New validates and marks.
CreateState ==
  /\ files = "none"
  /\ files' = "state"
  /\ UNCHANGED <<nextSeq, queue>>

WriteMarker ==
  /\ files = "state"
  /\ files' = "marked"
  /\ UNCHANGED <<nextSeq, queue>>

\* Mutant of Enqueue: only the identifier is looked up, not the key.
EnqueueById(s) ==
  /\ files = "marked"
  /\ ~Present(s.id)
  /\ nextSeq' = nextSeq + 1
  /\ queue' = [queue EXCEPT ![s.id] =
       [spec |-> s, state |-> "queued", seq |-> nextSeq + 1, rev |-> 1,
        claim |-> NoWorker, exit |-> 0]]
  /\ UNCHANGED files

\* Enqueue: a submission whose identifier or key is known changes nothing; it
\* returns the recorded request if all but the identifier agree, or a conflict.
Enqueue(s) ==
  /\ files = "marked"
  /\ \A x \in Id : Present(x) => x # s.id /\ queue[x].spec.key # s.key
  /\ nextSeq' = nextSeq + 1
  /\ queue' = [queue EXCEPT ![s.id] =
       [spec |-> s, state |-> "queued", seq |-> nextSeq + 1, rev |-> 1,
        claim |-> NoWorker, exit |-> 0]]
  /\ UNCHANGED files

\* The cancel command at the revision the owner read.  CanCancel refuses a
\* running or finished request; only the owner's command gets this far.
OwnerCancel(id) ==
  /\ files = "marked"
  /\ CanCancel(id, queue[id].rev)
  /\ PublishCancel(id)

\* ResumeRevalidation by the owner, with the claim it read.
ResumeRevalidation(id) ==
  /\ files = "marked"
  /\ CanResume(id, queue[id].rev, queue[id].claim)
  /\ Publish(id, [queue[id] EXCEPT !.state = "admitted"])

-----------------------------------------------------------------------------
(* Properties of the queue.                                                *)

\* Types, and what validRequestClaim demands of each request by itself: the
\* claim is there exactly in the states that carry one.
QueueTypeOK ==
  /\ files \in {"none", "state", "marked"}
  /\ nextSeq \in Nat
  /\ queue \in [Id -> Request]
  /\ \A id \in Id : Present(id) =>
       /\ queue[id].spec \in Submission /\ queue[id].spec.id = id
       /\ queue[id].seq \in 1..nextSeq /\ queue[id].rev > 0
       /\ (queue[id].claim # NoWorker) <=> (queue[id].state \in Claimed)

\* validatePersisted, as a fact about every reachable state: no operation
\* builds a state that write would refuse.  Keys and sequence numbers are
\* unique and no two requests hold one resource.
QueueValid ==
  \A x, y \in Id : x # y /\ Present(x) /\ Present(y) =>
    /\ queue[x].spec.key # queue[y].spec.key
    /\ queue[x].seq # queue[y].seq
    /\ SameResource(x, y) =>
         ~(queue[x].state \in Active /\ queue[y].state \in Active)

\* FIFO admission: while a request waits, no later request for its resource
\* has gone past waiting, except by being cancelled.  Recovery, revalidation
\* and resume never let a later request overtake (store.go:374-378, 429).
NoOvertaking ==
  \A x, y \in Id :
    (SameResource(x, y) /\ queue[x].seq < queue[y].seq
       /\ queue[x].state = "queued")
      => queue[y].state \in {"queued", "cancelled"}

=============================================================================
