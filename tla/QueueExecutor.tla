--------------------------- MODULE QueueExecutor ---------------------------
(***************************************************************************)
(* The queue's workers (internal/integrationqueue/executor.go) as the      *)
(* commands "task integration execute" and "resume" run them, and the      *)
(* adapter they call outside the queue lock (taskruntime's                 *)
(* integration_request.go).  A worker is one command invocation: it reads  *)
(* the request, then changes it with revision-checked operations, and may  *)
(* be killed between any two of its steps.  An error return ends the       *)
(* invocation, which is the same as being killed at that point.            *)
(***************************************************************************)
EXTENDS IntegrationQueue

CONSTANTS WorkerOwner,  \* the owner each invocation resolves
          UnknownExit,  \* exit codes an unproven outcome carries: those of the
                        \* provider's receipt and cleanup queries, any code
          NoOutcome

ASSUME ExecutorAssumption ==
  /\ WorkerOwner \in [Worker -> OwnerId]
  /\ UnknownExit \subseteq Int \ {0}

VARIABLES
  pc,      \* the next step of each worker
  view,    \* the request as the worker last read or published it
  out,     \* the outcome its adapter call returned
  native,  \* what the provider has durably done for a request
  misread  \* history: the requests of which an unproven outcome carried exit
           \* 4, which normalizeOutcome takes for a refusal before mutation

workerVars == <<pc, view, out, native, misread>>

vars == <<files, nextSeq, queue, pc, view, out, native, misread>>

-----------------------------------------------------------------------------
(* Type definitions.                                                       *)

\* Steps in which the worker is inside the adapter, outside the queue lock.
AdapterSteps == {"execute", "attempted", "reconcile", "publish"}

Ended == {"done", "dead"}

Steps == {"new", "admit", "admitted", "probe", "recover", "recovered"}
           \cup AdapterSteps \cup Ended

View == [id : Id, rev : Nat, state : State, claim : Worker \cup {NoWorker}]

NoView == [id |-> "none"]

Outcome == [state : State \cup {"invalid"}, exit : Int]

\* "none": the source branch is untouched and nothing was recorded;
\* "refused": the runtime recorded that captured heads moved before mutation;
\* "running": the provider process is at work;
\* "landed": the task was pushed to its source branch.
Native == {"none", "refused", "running", "landed"}

\* The provider has mutated, or may still mutate, the source branch.
MayLand == {"running", "landed"}

-----------------------------------------------------------------------------
Init ==
  /\ QueueInit
  /\ pc = [w \in Worker |-> "new"]
  /\ view = [w \in Worker |-> NoView]
  /\ out = [w \in Worker |-> NoOutcome]
  /\ native = [id \in Id |-> "none"]
  /\ misread = {}

Goto(w, step) == pc' = [pc EXCEPT ![w] = step]

\* The worker's snapshot of the request, claim included.
Snapshot(w, id) ==
  view' = [view EXCEPT ![w] =
    [id |-> id, rev |-> queue[id].rev, state |-> queue[id].state,
     claim |-> queue[id].claim]]

\* The worker now expects the revision and claim its own publication left.
Advance(w, state) ==
  view' = [view EXCEPT ![w] = [@ EXCEPT !.rev = view[w].rev + 1,
                                        !.state = state, !.claim = w]]

\* NewRequestClaim: only the request's owner may execute or resume it.
MayWork(w, id) ==
  files = "marked" /\ Present(id) /\ WorkerOwner[w] = queue[id].spec.owner

-----------------------------------------------------------------------------
(* Execute.                                                                *)

\* The first Get.  A finished request returns its outcome and one that needs
\* revalidation is refused; an admitted one carries another invocation's claim.
ExecuteGet(w, id) ==
  /\ pc[w] = "new"
  /\ MayWork(w, id)
  /\ queue[id].state = "queued"
  /\ Snapshot(w, id)
  /\ Goto(w, "admit")
  /\ UNCHANGED <<queueVars, out, native, misread>>

Admit(w) ==
  LET v == view[w]
  IN  /\ pc[w] = "admit"
      /\ IF CanAdmit(v.id, v.rev)
         THEN /\ PublishAdmit(v.id, w)
              /\ Advance(w, "admitted")
              /\ Goto(w, "admitted")
         ELSE Goto(w, "done") /\ UNCHANGED <<queueVars, view>>
      /\ UNCHANGED <<out, native, misread>>

\* The command's context was cancelled at the admitted boundary.
CancelAdmitted(w) ==
  LET v == view[w]
  IN  /\ pc[w] = "admitted"
      /\ IF CanCancel(v.id, v.rev) THEN PublishCancel(v.id)
                                   ELSE UNCHANGED queueVars
      /\ Goto(w, "done")
      /\ UNCHANGED <<view, out, native, misread>>

\* Running is published before the adapter is called.
MarkRunning(w) ==
  LET v == view[w]
  IN  /\ pc[w] \in {"admitted", "recovered"}
      /\ IF CanMark(v.id, v.rev, w, "running")
         THEN /\ PublishMark(v.id, "running", queue[v.id].exit)
              /\ Advance(w, "running")
              /\ Goto(w, "execute")
         ELSE Goto(w, "done") /\ UNCHANGED <<queueVars, view>>
      /\ UNCHANGED <<out, native, misread>>

-----------------------------------------------------------------------------
(* Reconcile.                                                              *)

\* The Gets of the resume command: the claim to replace is the recorded one.
ResumeGet(w, id) ==
  /\ pc[w] = "new"
  /\ MayWork(w, id)
  /\ queue[id].state \in Active
  /\ Snapshot(w, id)
  /\ Goto(w, "probe")
  /\ UNCHANGED <<queueVars, out, native, misread>>

\* The liveness observation, outside the queue lock.  A dead owner may also be
\* reported live or unknown (a reused pid, a foreign host), never the reverse.
Probe(w) ==
  /\ pc[w] = "probe"
  /\ \/ pc[view[w].claim] \in Ended /\ Goto(w, "recover")
     \/ Goto(w, "done")
  /\ UNCHANGED <<queueVars, view, out, native, misread>>

\* Mutant of Recover: a running request is executed again.
RecoverReruns(w) ==
  LET v == view[w]
  IN  /\ pc[w] = "recover"
      /\ IF CanRecover(v.id, v.rev, v.state, v.claim)
         THEN /\ PublishRecover(v.id, w)
              /\ Advance(w, v.state)
              /\ Goto(w, "recovered")
         ELSE Goto(w, "done") /\ UNCHANGED <<queueVars, view>>
      /\ UNCHANGED <<out, native, misread>>

\* The dead claim is replaced.  An admitted request goes on to Running and
\* Execute; a running one is only reconciled.
Recover(w) ==
  LET v == view[w]
  IN  /\ pc[w] = "recover"
      /\ IF CanRecover(v.id, v.rev, v.state, v.claim)
         THEN /\ PublishRecover(v.id, w)
              /\ Advance(w, v.state)
              /\ Goto(w, IF v.state = "admitted" THEN "recovered"
                                                 ELSE "reconcile")
         ELSE Goto(w, "done") /\ UNCHANGED <<queueVars, view>>
      /\ UNCHANGED <<out, native, misread>>

-----------------------------------------------------------------------------
(* The adapter.                                                            *)

\* normalizeOutcome: exit 4 always means revalidation; contradictory outcomes
\* become "invalid".
Normalize(o) ==
  LET s == IF o.exit = 4 THEN "revalidation-required" ELSE o.state
      consistent == /\ o.exit >= 0
                    /\ \/ s = "succeeded" /\ o.exit = 0
                       \/ s \in {"running", "failed"} /\ o.exit # 0
                       \/ s = "revalidation-required" /\ o.exit = 4
  IN  IF consistent THEN [state |-> s, exit |-> o.exit]
                    ELSE [state |-> "invalid", exit |-> 125]

Return(w, o) ==
  /\ out' = [out EXCEPT ![w] = Normalize(o)]
  /\ Goto(w, "publish")

\* The outcome is not proven: it is running, with the exit code of the command
\* that failed.
ReturnUnproven(w) ==
  \E x \in UnknownExit :
    /\ Return(w, [state |-> "running", exit |-> x])
    /\ misread' = misread \cup (IF x = 4 THEN {view[w].id} ELSE {})

\* finish refuses before it calls the provider.
RuntimeRefuses(w) ==
  /\ pc[w] = "execute"
  /\ \E x \in {1, 2} : Return(w, [state |-> "failed", exit |-> x])
  /\ UNCHANGED <<queueVars, view, native, misread>>

\* finish records that the captured heads moved, found by its own probe or
\* reported by the provider, in both cases before any mutation.
RuntimeRevalidates(w) ==
  /\ pc[w] \in {"execute", "attempted"}
  /\ native[view[w].id] \notin MayLand
  /\ native' = [native EXCEPT ![view[w].id] = "refused"]
  /\ Return(w, [state |-> "revalidation-required", exit |-> 4])
  /\ UNCHANGED <<queueVars, view, misread>>

\* The provider process is started.
ProviderStarts(w) ==
  /\ pc[w] = "execute"
  /\ native' = [native EXCEPT ![view[w].id] = "running"]
  /\ Goto(w, "attempted")
  /\ UNCHANGED <<queueVars, view, out, misread>>

\* The provider process lands the task, or ends without: possibly after the
\* worker that started it was killed.
ProviderEnds(id) ==
  /\ native[id] = "running"
  /\ \E result \in {"landed", "none"} :
       native' = [native EXCEPT ![id] = result]
  /\ UNCHANGED <<queueVars, pc, view, out, misread>>

\* Mutant of ExecuteReturns: an unproven provider result is reported as failed.
ExecuteReturnsFailed(w) ==
  /\ pc[w] = "attempted"
  /\ native[view[w].id] # "running"
  /\ \/ /\ native[view[w].id] = "landed"
        /\ Return(w, [state |-> "succeeded", exit |-> 0])
     \/ \E x \in UnknownExit : Return(w, [state |-> "failed", exit |-> x])
  /\ UNCHANGED <<queueVars, view, native, misread>>

\* finish returns, and success is proven from the native receipt and a fresh
\* fetch, or stays unknown.
ExecuteReturns(w) ==
  /\ pc[w] = "attempted"
  /\ native[view[w].id] # "running"
  /\ \/ /\ native[view[w].id] = "landed"
        /\ Return(w, [state |-> "succeeded", exit |-> 0])
        /\ UNCHANGED misread
     \/ ReturnUnproven(w)
  /\ UNCHANGED <<queueVars, view, native>>

\* reconcileRequest with cleanup: the native receipt decides, never a new run.
ReconcileReturns(w) ==
  LET n == native[view[w].id]
  IN  /\ pc[w] = "reconcile"
      /\ \/ /\ n = "refused"
            /\ Return(w, [state |-> "revalidation-required", exit |-> 4])
            /\ UNCHANGED misread
         \/ /\ n = "landed"
            /\ Return(w, [state |-> "succeeded", exit |-> 0])
            /\ UNCHANGED misread
         \/ n # "refused" /\ ReturnUnproven(w)
      /\ UNCHANGED <<queueVars, view, native>>

\* publish: an invalid outcome is recorded as Running with exit 125.  A lost
\* revision or claim leaves the observed outcome unpublished.
PublishOutcome(w) ==
  LET v == view[w]
      to == IF out[w].state = "invalid" THEN "running" ELSE out[w].state
  IN  /\ pc[w] = "publish"
      /\ IF CanMark(v.id, v.rev, w, to)
         THEN PublishMark(v.id, to, out[w].exit)
         ELSE UNCHANGED queueVars
      /\ Goto(w, "done")
      /\ UNCHANGED <<view, out, native, misread>>

\* The worker is killed, or returns an error, between two steps.
Crash(w) ==
  /\ pc[w] \notin Ended \cup {"new"}
  /\ Goto(w, "dead")
  /\ UNCHANGED <<queueVars, view, out, native, misread>>

-----------------------------------------------------------------------------
CommandStep ==
  /\ \/ CreateState
     \/ WriteMarker
     \/ \E s \in Submission : Enqueue(s)
     \/ \E id \in Id : OwnerCancel(id)
     \/ \E id \in Id : ResumeRevalidation(id)
  /\ UNCHANGED workerVars

WorkerStep(w) ==
  \/ \E id \in Id : ExecuteGet(w, id) \/ ResumeGet(w, id)
  \/ Admit(w) \/ CancelAdmitted(w) \/ MarkRunning(w)
  \/ Probe(w) \/ Recover(w)
  \/ RuntimeRefuses(w) \/ RuntimeRevalidates(w) \/ ProviderStarts(w)
  \/ ExecuteReturns(w) \/ ReconcileReturns(w) \/ PublishOutcome(w)

Next ==
  \/ CommandStep
  \/ \E w \in Worker : WorkerStep(w) \/ Crash(w)
  \/ \E id \in Id : ProviderEnds(id)

Spec == Init /\ [][Next]_vars

-----------------------------------------------------------------------------
(* Properties.                                                             *)

TypeOK ==
  /\ QueueTypeOK
  /\ pc \in [Worker -> Steps]
  /\ view \in [Worker -> View \cup {NoView}]
  /\ out \in [Worker -> Outcome \cup {NoOutcome}]
  /\ native \in [Id -> Native]
  /\ misread \subseteq Id

\* Types, and what validatePersisted and FIFO admission ask of the queue.
QueueConsistent == TypeOK /\ QueueValid /\ NoOvertaking

\* A request is in flight while a running worker is inside the adapter for it
\* or its provider process, perhaps an orphan, is at work and the queue has not
\* been told that it refused.
InFlight(id) ==
  \/ native[id] = "running" /\ id \notin misread
  \/ \E w \in Worker : pc[w] \in AdapterSteps /\ view[w].id = id

\* At no time are two requests for the same resource in flight, whichever
\* workers were killed, recovered or arrived late.  Excepted is the orphan
\* provider of a request whose unproven outcome carried exit 4: the queue lets
\* the resource go while it works.  Two workers never overlap, even then.
OneIntegrationPerResource ==
  \A x, y \in Id :
    x # y /\ InFlight(x) /\ InFlight(y) => ~SameResource(x, y)

\* What the queue reports as final is what happened: a request is succeeded
\* only if its task landed, and failed or cancelled only if its task did not
\* land and no provider process can still land it, unless an unproven outcome
\* of the request carried exit 4.
OutcomeTruthful ==
  \A id \in Id :
    /\ queue[id].state = "succeeded" => native[id] = "landed"
    /\ queue[id].state \in {"failed", "cancelled"} =>
         native[id] \notin MayLand \/ id \in misread

\* "Any uncertain provider result stays running so the resource cannot be
\* reused until durable reconciliation establishes facts"
\* (integration_request.go:222-223): it holds as long as no uncertain result
\* of the request came with exit 4.
UncertainStaysRunning ==
  \A id \in Id \ misread : native[id] \in MayLand =>
    queue[id].state \in {"running", "succeeded"}

\* The provider is never started for a request whose task already landed or
\* whose provider process is still at work ("resume reconciles a positively
\* dead worker without repeating integration", task_integration.go:31-32),
\* unless an unproven outcome of the request carried exit 4.
NeverRerun ==
  [][\A w \in Worker : pc[w] = "execute" /\ pc'[w] = "attempted"
       => native[view[w].id] \notin MayLand \/ view[w].id \in misread]_vars

=============================================================================
