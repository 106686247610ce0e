------------------------- MODULE ExecutionLifecycle -------------------------
(***************************************************************************)
(* The execution of one task (internal/taskruntime: start.go, finish.go,   *)
(* finish_claim.go, recover.go, abort.go, settle.go, close.go, discard.go, *)
(* receipt.go, state.go).  The ledger keeps one row per task and a log of  *)
(* receipts whose last one decides what may happen next.  Every verb runs  *)
(* under the repository's mutation lock, except that run-finish gives it   *)
(* up while the integration provider works and that run-settle and         *)
(* run-close look at the ledger before they take it.  The rows of two      *)
(* tasks share nothing but that lock, which MutationLock models; here it   *)
(* is a mutex that a killed holder gives back.                             *)
(*                                                                         *)
(* A refusal changes nothing and is no step.  Executions that belong to an *)
(* integration request are not in this module.                             *)
(***************************************************************************)
EXTENDS Naturals, FiniteSets

CONSTANTS
  Process,     \* command invocations at work at one time
  Host, HostOf, \* the host each of them runs on
  Branch,      \* task branches: one per owner, host, purpose and type
  Delivery,    \* those of purpose delivery
  Free,        \* nobody holds the mutation lock
  NoRow, NoReceipt, NoView,
  SaveErrors,  \* whether writing the ledger may fail while receipts can be written
  MaxGens,     \* bound: executions started
  MaxClaims,   \* bound: FINISHING claims
  MaxKills     \* bound: killed commands, failed appends included

ASSUME LifecycleAssumption ==
  /\ HostOf \in [Process -> Host]
  /\ Delivery \subseteq Branch
  /\ Free \notin Process
  /\ SaveErrors \in BOOLEAN
  /\ MaxGens \in Nat /\ MaxClaims \in Nat /\ MaxKills \in Nat

VARIABLES
  row,      \* the ledger row: generation and branch
  latest,   \* the last receipt
  gens,     \* generations started so far
  refs,     \* what stands of each branch: worktree, local and remote branch
  lock,     \* holder of the mutation lock
  pc, view, \* the step of each command; the row and claim it captured
  claims,   \* FINISHING claims written so far
  run,      \* the provider process of each claim
  landed,   \* generations whose captured head is in the pushed source
  declared, \* claims an owner declared dead
  kills

ledger == <<row, latest, gens>>
procs == <<lock, pc, view>>
world == <<claims, run, landed, declared>>
vars == <<row, latest, gens, refs, lock, pc, view, claims, run, landed,
          declared, kills>>

-----------------------------------------------------------------------------
(* Types.                                                                  *)

Part == {"worktree", "local", "remote"}

\* Git keeps a branch that a worktree has checked out.
Standing == {s \in SUBSET Part : "worktree" \in s => "local" \in s}

Gen == 0..MaxGens

Claim == 1..MaxClaims

Row == [gen : Gen, branch : Branch]

\* "named": the receipt carries the start time of the generation it is about.
\* "partial": it records the provider's exit 3 and a pushed source.
Receipt ==
  [op : {"start", "finish", "recover", "abort", "settle", "close", "discard"},
   status : {"ACTIVE", "BLOCKED", "FINISHING", "DONE", "ABORTED"},
   gen : Gen, branch : Branch, named : BOOLEAN, partial : BOOLEAN,
   claim : {0} \cup Claim]

\* The provider's exit: 0, 3, 4, another code or no code at all.
Exit == {"ok", "partial", "revalidate", "failed"}

Run == [state : {"none", "running"} \cup Exit, gen : Gen, branch : Branch, host : Host]

NoRun == [state |-> "none"]

\* "none" is none of what it stands for.
ASSUME NoneAssumption == NoRow \notin Row /\ NoReceipt \notin Receipt

Steps == {"idle", "save", "receipt", "run", "wait", "settle", "close",
          "remove", "verify"}

View == [row : Row \cup {NoRow}, claim : {0} \cup Claim]

-----------------------------------------------------------------------------
(* What a receipt says of a row.                                           *)

Status == IF latest = NoReceipt THEN "none" ELSE latest.status

\* receiptBindsExecution.  A receipt without a start time binds the execution
\* it does not predate.
Binds(w, r) ==
  /\ r.branch = w.branch
  /\ IF r.named THEN r.gen = w.gen ELSE r.gen >= w.gen

\* validTerminalAbortReceipt: abort, settle, close and discard.
ValidAbort(w, r) == r.status = "ABORTED" /\ Binds(w, r)

\* validateDoneReceipt.  Only a receipt that names a generation is compared
\* with that of the row.
ValidDone(w, r) ==
  /\ r.status = "DONE"
  /\ w.branch \in Delivery /\ r.branch = w.branch
  /\ r.named => r.gen = w.gen

\* validTerminalReceipt: the execution of row w is over.
Closed(w, r) == r # NoReceipt /\ (ValidAbort(w, r) \/ ValidDone(w, r))

\* isPartialCleanupReceipt.
PartialCleanup(w, r) ==
  /\ r # NoReceipt
  /\ w.branch \in Delivery /\ r.branch = w.branch
  /\ r.op = "finish" /\ r.status = "BLOCKED" /\ r.partial

\* isDiscardIntent.
DiscardIntended(w, r) ==
  r # NoReceipt /\ r.op = "discard" /\ r.status = "BLOCKED" /\ Binds(w, r)

About(w, op, status) ==
  [op |-> op, status |-> status, gen |-> w.gen, branch |-> w.branch,
   named |-> TRUE, partial |-> FALSE, claim |-> 0]

Unnamed(w, op, status) == [About(w, op, status) EXCEPT !.named = FALSE]

Claiming(w, n) == [About(w, "finish", "FINISHING") EXCEPT !.claim = n]

-----------------------------------------------------------------------------
Init ==
  /\ row = NoRow /\ latest = NoReceipt /\ gens = 0
  /\ refs = [b \in Branch |-> {}]
  /\ lock = Free
  /\ pc = [p \in Process |-> "idle"]
  /\ view = [p \in Process |-> NoView]
  /\ claims = 0
  /\ run = [n \in Claim |-> NoRun]
  /\ landed = {} /\ declared = {}
  /\ kills = 0

\* A verb that needs the lock for one change of the ledger takes and gives it
\* back within that step.
Unlocked == lock = Free

Append(r) == latest' = r /\ UNCHANGED <<row, gens>>

Goto(p, step, v) ==
  pc' = [pc EXCEPT ![p] = step] /\ view' = [view EXCEPT ![p] = v]

Leave(p) == Goto(p, "idle", NoView)

-----------------------------------------------------------------------------
(* run-start.                                                              *)

\* The row may be replaced: there is none, or its execution is over.
Replaceable == row = NoRow \/ Closed(row, latest)

\* Worktrunk creates the branch and its worktree, and fails if either exists.
StartCreate(p, b) ==
  /\ pc[p] = "idle" /\ Unlocked
  /\ gens < MaxGens
  /\ Replaceable
  /\ refs[b] \cap {"worktree", "local"} = {}
  /\ refs' = [refs EXCEPT ![b] = @ \cup {"worktree", "local"}]
  /\ lock' = p
  /\ Goto(p, "save", [row |-> [gen |-> gens + 1, branch |-> b], claim |-> 0])
  /\ UNCHANGED <<ledger, world, kills>>

\* The row is saved before the start receipt is written.
StartSave(p) ==
  /\ pc[p] = "save"
  /\ row' = view[p].row
  /\ gens' = view[p].row.gen
  /\ Goto(p, "receipt", view[p])
  /\ UNCHANGED <<latest, refs, lock, world, kills>>

\* The row cannot be saved: a BLOCKED start receipt says so.
StartSaveFails(p) ==
  /\ SaveErrors
  /\ pc[p] = "save"
  /\ latest' = Unnamed(view[p].row, "start", "BLOCKED")
  /\ gens' = view[p].row.gen
  /\ lock' = Free
  /\ Leave(p)
  /\ UNCHANGED <<row, refs, world, kills>>

StartReceipt(p) ==
  /\ pc[p] = "receipt"
  /\ Append(Unnamed(view[p].row, "start", "ACTIVE"))
  /\ lock' = Free
  /\ Leave(p)
  /\ UNCHANGED <<refs, world, kills>>

-----------------------------------------------------------------------------
(* run-finish.                                                             *)

\* The status is ACTIVE and ready to finish: nothing terminal, no claim, no
\* cleanup to recover, and a clean pushed worktree (deriveState).
FinishReady ==
  /\ row # NoRow /\ row.branch \in Delivery
  /\ Status \notin {"DONE", "ABORTED", "FINISHING"}
  /\ ~PartialCleanup(row, latest)
  /\ refs[row.branch] = Part

\* The branch's base is stale, or the provider cannot work without fetching.
FinishRefuses ==
  /\ Unlocked /\ FinishReady
  /\ Append(About(row, "finish", "BLOCKED"))
  /\ UNCHANGED <<refs, procs, world, kills>>

\* The claim is durable before the lock is given up.
FinishClaim(p) ==
  LET n == claims + 1
  IN  /\ pc[p] = "idle" /\ Unlocked
      /\ claims < MaxClaims
      /\ FinishReady
      /\ claims' = n
      /\ run' = [run EXCEPT ![n] = [state |-> "none", gen |-> row.gen,
                                   branch |-> row.branch, host |-> HostOf[p]]]
      /\ Append(Claiming(row, n))
      /\ Goto(p, "run", [row |-> row, claim |-> n])
      /\ UNCHANGED <<refs, lock, landed, declared, kills>>

\* The claimant is still in the invocation that wrote the claim.
ClaimantLives(n) ==
  \E p \in Process : pc[p] \in {"run", "wait"} /\ view[p].claim = n

SetRun(n, state) == run' = [run EXCEPT ![n].state = state]

FinishRun(p) ==
  /\ pc[p] = "run"
  /\ SetRun(view[p].claim, "running")
  /\ Goto(p, "wait", view[p])
  /\ UNCHANGED <<ledger, refs, lock, claims, landed, declared, kills>>

\* The provider ends, perhaps after its claimant was killed: nobody reads its
\* exit then.  Exits 0 and 3 mean that it landed the branch, exit 4 that it did
\* not; it removes what it can of the branch.
ProviderEnds(n) ==
  /\ run[n].state = "running"
  /\ \E exit \in Exit, left \in Standing, lands \in BOOLEAN :
       /\ left \subseteq refs[run[n].branch]
       /\ exit \in {"ok", "partial"} => lands
       /\ exit = "partial" => left # {}
       /\ exit = "revalidate" => ~lands
       /\ lands => "local" \in refs[run[n].branch]
       /\ ~lands => left = refs[run[n].branch]
       /\ SetRun(n, IF ClaimantLives(n) THEN exit ELSE "none")
       /\ refs' = [refs EXCEPT ![run[n].branch] = left]
       /\ landed' = IF lands THEN landed \cup {run[n].gen} ELSE landed
  /\ UNCHANGED <<ledger, procs, claims, declared, kills>>

\* Mutant of StillClaimed: only the generation is compared.
StillOpen(p) == row = view[p].row

\* relock: the claim and the generation the claimant captured are current.
StillClaimed(p) ==
  row = view[p].row /\ latest = Claiming(view[p].row, view[p].claim)

\* Mutant of Outcomes: a failed run that left nothing behind counts as done.
OutcomesByCleanup(w, exit) ==
  {About(w, "finish", IF refs[w.branch] = {} THEN "DONE" ELSE "BLOCKED")}

\* What the exit and the evidence let run-finish record.  "partial" counts as
\* such only if the source was observed as pushed.
Outcomes(w, exit) ==
  CASE exit = "ok" -> {About(w, "finish", "DONE")}
    [] exit = "partial" ->
         {[About(w, "finish", "BLOCKED") EXCEPT !.partial = seen] : seen \in BOOLEAN}
    [] OTHER -> {About(w, "finish", "BLOCKED")}

\* A success is recorded only if nothing is left of the branch.
Proven(w, exit) == exit = "ok" => refs[w.branch] = {}

FinishOutcome(p) ==
  LET w == view[p].row
      exit == run[view[p].claim].state
  IN  /\ pc[p] = "wait" /\ exit \in Exit
      /\ Unlocked
      /\ StillClaimed(p) /\ Proven(w, exit)
      /\ \E r \in Outcomes(w, exit) : Append(r)
      /\ SetRun(view[p].claim, "none")
      /\ Leave(p)
      /\ UNCHANGED <<refs, lock, claims, landed, declared, kills>>

\* The lock is not had in time, the claim or generation changed, or success is
\* not proven: run-finish ends and records nothing.
FinishGivesUp(p) ==
  /\ pc[p] = "wait" /\ run[view[p].claim].state \in Exit
  /\ SetRun(view[p].claim, "none")
  /\ Leave(p)
  /\ UNCHANGED <<ledger, refs, lock, claims, landed, declared, kills>>

-----------------------------------------------------------------------------
(* run-recover.                                                            *)

\* The exit-3 outcome: the landed branch is DONE, what is left of it is named.
\* recoveryReceipt records no start time.
RecoverCleanup ==
  /\ Unlocked
  /\ row # NoRow /\ PartialCleanup(row, latest)
  /\ latest.gen \in landed
  /\ refs[row.branch] # {}
  /\ Append(Unnamed(row, "recover", "DONE"))
  /\ UNCHANGED <<refs, procs, world, kills>>

\* Mutant of CanRecoverClaim: a claim whose worktree is gone is refused.
CanRecoverStandingClaim ==
  /\ row # NoRow /\ Status = "FINISHING" /\ Binds(row, latest)
  /\ "worktree" \in refs[row.branch]

CanRecoverClaim == row # NoRow /\ Status = "FINISHING" /\ Binds(row, latest)

\* On host h, the claimant of a claim with no outcome is seen dead.
RecoverClaim(h) ==
  /\ Unlocked /\ CanRecoverClaim
  /\ run[latest.claim].host = h
  /\ ~ClaimantLives(latest.claim)
  /\ Append(About(row, "recover", "BLOCKED"))
  /\ UNCHANGED <<refs, procs, world, kills>>

\* The owner declares a claimant dead whose liveness cannot be observed: one on
\* another host, or one whose start time cannot be read.  It may be alive.
DeclareClaimDead ==
  /\ Unlocked /\ CanRecoverClaim
  /\ Append(About(row, "recover", "BLOCKED"))
  /\ declared' = declared \cup {latest.claim}
  /\ UNCHANGED <<refs, procs, claims, run, landed, kills>>

-----------------------------------------------------------------------------
(* run-abort, run-settle and run-close.                                    *)

Abort ==
  /\ Unlocked
  /\ row # NoRow
  /\ Status # "FINISHING"
  /\ ~Closed(row, latest)
  /\ Append(About(row, "abort", "ABORTED"))
  /\ UNCHANGED <<refs, procs, world, kills>>

\* settlementEvidence: the branch survives and its tip is in the source, which
\* holds of a branch that landed and of one nobody committed to.
Settleable(w) == refs[w.branch] \cap {"local", "remote"} # {}

SettleRead(p) ==
  /\ pc[p] = "idle"
  /\ row # NoRow
  /\ Status \notin {"FINISHING", "DONE", "ABORTED"}
  /\ Settleable(row)
  /\ Goto(p, "settle", [row |-> row, claim |-> 0])
  /\ UNCHANGED <<ledger, refs, lock, world, kills>>

\* The administrator's check comes before the lock and is repeated under it.
CloseRead(p) ==
  /\ pc[p] = "idle"
  /\ row # NoRow
  /\ Goto(p, "close", [row |-> row, claim |-> 0])
  /\ UNCHANGED <<ledger, refs, lock, world, kills>>

\* Mutant of CanEnd: the receipts are not looked at again under the lock.
CanEndAsRead(w) == row = w /\ "worktree" \notin refs[w.branch]

\* containsExecutionGeneration, then the checks of the record under the lock.
CanEnd(w) ==
  /\ row = w
  /\ Status \notin {"FINISHING", "DONE", "ABORTED"}
  /\ "worktree" \notin refs[w.branch]

EndRow(p, op) ==
  /\ Unlocked
  /\ IF CanEnd(view[p].row) /\ (op = "settle" => Settleable(view[p].row))
     THEN Append(About(view[p].row, op, "ABORTED"))
     ELSE UNCHANGED ledger
  /\ Leave(p)
  /\ UNCHANGED <<refs, lock, world, kills>>

Settle(p) == pc[p] = "settle" /\ EndRow(p, "settle")

Close(p) == pc[p] = "close" /\ EndRow(p, "close")

-----------------------------------------------------------------------------
(* run-discard.                                                            *)

\* The receipts that refuse a discard.
DiscardRefused(w) ==
  \/ Status \in {"DONE", "FINISHING"}
  \/ PartialCleanup(w, latest)
  \/ latest # NoReceipt /\ latest.op = "discard" /\ ValidAbort(w, latest)

\* The worktree stands, clean, and the remote branch does not: the intent is
\* recorded before anything is removed.
DiscardIntent(p) ==
  /\ pc[p] = "idle" /\ Unlocked
  /\ row # NoRow /\ ~DiscardRefused(row)
  /\ refs[row.branch] = {"worktree", "local"}
  /\ Append(About(row, "discard", "BLOCKED"))
  /\ lock' = p
  /\ Goto(p, "remove", [row |-> row, claim |-> 0])
  /\ UNCHANGED <<refs, world, kills>>

\* Worktrunk removes the worktree and the local branch, or only part of it.
DiscardRemove(p) ==
  LET its == view[p].row.branch
  IN  /\ pc[p] = "remove"
      /\ \E left \in Standing :
           /\ left \subseteq refs[its]
           /\ "remote" \in refs[its] => "remote" \in left
           /\ refs' = [refs EXCEPT ![its] = left]
      /\ Goto(p, "verify", view[p])
      /\ UNCHANGED <<ledger, lock, world, kills>>

\* discardRemovalEvidence decides between ABORTED and another BLOCKED receipt.
DiscardReceipt(w) ==
  Append(About(w, "discard", IF refs[w.branch] = {} THEN "ABORTED" ELSE "BLOCKED"))

DiscardVerify(p) ==
  /\ pc[p] = "verify"
  /\ DiscardReceipt(view[p].row)
  /\ lock' = Free
  /\ Leave(p)
  /\ UNCHANGED <<refs, world, kills>>

\* Worktrunk reported a failure, whatever it removed.
DiscardFails(p) ==
  /\ pc[p] = "verify"
  /\ Append(About(view[p].row, "discard", "BLOCKED"))
  /\ lock' = Free
  /\ Leave(p)
  /\ UNCHANGED <<refs, world, kills>>

\* A discard whose intent is recorded and whose worktree is gone is completed
\* without calling Worktrunk again.
DiscardResume ==
  /\ Unlocked
  /\ row # NoRow /\ ~DiscardRefused(row)
  /\ DiscardIntended(row, latest)
  /\ "worktree" \notin refs[row.branch]
  /\ DiscardReceipt(row)
  /\ UNCHANGED <<refs, procs, world, kills>>

-----------------------------------------------------------------------------
(* Around the runtime.                                                     *)

\* The task branch is pushed from its worktree.
Push(b) ==
  /\ {"worktree", "local"} \subseteq refs[b]
  /\ refs' = [refs EXCEPT ![b] = Part]
  /\ UNCHANGED <<ledger, procs, world, kills>>

\* Somebody removes what stands of a branch by hand.
RemoveByHand(b) ==
  /\ \E left \in Standing :
       left \subseteq refs[b] /\ refs' = [refs EXCEPT ![b] = left]
  /\ UNCHANGED <<ledger, procs, world, kills>>

\* A command is killed, or ends because a receipt cannot be written.
Kill(p) ==
  /\ kills < MaxKills
  /\ pc[p] # "idle"
  /\ kills' = kills + 1
  /\ lock' = IF lock = p THEN Free ELSE lock
  /\ Leave(p)
  /\ UNCHANGED <<ledger, refs, world>>

-----------------------------------------------------------------------------
\* The steps of a command that has begun.
Continue(p) ==
  \/ StartSave(p) \/ StartSaveFails(p) \/ StartReceipt(p)
  \/ FinishRun(p) \/ FinishOutcome(p) \/ FinishGivesUp(p)
  \/ Settle(p) \/ Close(p)
  \/ DiscardRemove(p) \/ DiscardVerify(p) \/ DiscardFails(p)

Begin(p) ==
  \/ \E b \in Branch : StartCreate(p, b)
  \/ FinishClaim(p) \/ SettleRead(p) \/ CloseRead(p) \/ DiscardIntent(p)

Next ==
  \/ \E p \in Process : Begin(p) \/ Continue(p) \/ Kill(p)
  \/ FinishRefuses \/ RecoverCleanup \/ DeclareClaimDead
  \/ \E h \in Host : RecoverClaim(h)
  \/ Abort \/ DiscardResume
  \/ \E n \in Claim : ProviderEnds(n)
  \/ \E b \in Branch : Push(b) \/ RemoveByHand(b)

Spec == Init /\ [][Next]_vars

\* Commands that run go on, the provider ends, and the owner runs run-recover
\* on the claimant's host.
Fairness ==
  /\ \A p \in Process : WF_vars(Continue(p))
  /\ \A n \in Claim : WF_vars(ProviderEnds(n))
  /\ \A h \in Host : WF_vars(RecoverClaim(h))

FairSpec == Spec /\ Fairness

-----------------------------------------------------------------------------
(* Properties.                                                             *)

TypeOK ==
  /\ row \in Row \cup {NoRow}
  /\ latest \in Receipt \cup {NoReceipt}
  /\ gens \in Gen
  /\ refs \in [Branch -> Standing]
  /\ lock \in Process \cup {Free}
  /\ pc \in [Process -> Steps]
  /\ view \in [Process -> View \cup {NoView}]
  /\ claims \in 0..MaxClaims
  /\ run \in [Claim -> Run \cup {NoRun}]
  /\ landed \subseteq Gen /\ declared \subseteq Claim
  /\ kills \in 0..MaxKills

Finishing(p) == pc[p] \in {"run", "wait"}

\* While a claimant is at work and nobody declared it dead, its claim is the
\* last receipt and the row is the generation it captured: no other verb ends,
\* replaces, recovers or claims the execution under it.
ClaimHeld ==
  \A p \in Process :
    Finishing(p) /\ view[p].claim \notin declared =>
      row = view[p].row /\ latest = Claiming(row, view[p].claim)

\* Types, and the claim of a finishing execution (finish_claim.go, finish.go).
LedgerConsistent == TypeOK /\ ClaimHeld

\* Over by a receipt of its own, and still over after the step, unless
\* run-start replaced the row, or could not save it and said so.
StaysClosed ==
  row # NoRow /\ row' = row /\ Closed(row, latest) /\ latest.gen = row.gen
    => Closed(row, latest') \/ latest'.gen > row.gen

\* An execution that is over stays over until the next run-start, except
\* that run-discard may take up an aborted one: a competing terminal action
\* "cannot be overwritten by a late provider result" (finish.go:225-227), nor
\* by a verb that looked before it took the lock.
TerminalStays ==
  [][StaysClosed \/ (latest.status = "ABORTED" /\ latest'.op = "discard")]_vars

\* "TerminalStatus reports a record no further verb can move" (types.go:61).
NoVerbMovesTerminal == [][StaysClosed]_vars

\* A generation is recorded as DONE only if its branch landed.
DoneMeansLanded ==
  [][latest' # latest /\ latest'.status = "DONE" => latest'.gen \in landed]_vars

\* A claim whose claimant died does not hold the task for ever.
ClaimResolves == Status = "FINISHING" ~> Status # "FINISHING"

\* "A receipt cannot predate the execution it closes" (receipt.go:26-28): a row
\* that no command is working on is not over by a receipt of an earlier one.
ClosedByItsOwn ==
  row # NoRow /\ Unlocked /\ Closed(row, latest) => latest.gen >= row.gen

\* "A closed execution does not hold its task" (start.go:66): a run-start that
\* does not replace the row leaves it closed.
ClosedFreesTask == [][gens' # gens => StaysClosed]_vars

=============================================================================
