------------------------ MODULE TaskRuntime_proofs ------------------------
(***************************************************************************)
(* Proofs about the task runtime: its mutation lock, for any number of     *)
(* invocations and hosts, and the execution of a task under it, for any    *)
(* number of commands, hosts, branches, executions, claims and kills.      *)
(*                                                                         *)
(* LockInv says who may hold the guard, what a reclaimer that is about to  *)
(* remove the lock knows, and that the file of a running holder is its     *)
(* own.                                                                    *)
(*                                                                         *)
(* A command that changes the ledger in more than one step keeps the lock  *)
(* between them, and run-finish, which does not, leaves a FINISHING receipt*)
(* behind that every other verb respects.  Fits says what each command may *)
(* therefore rely on at each of its steps.                                 *)
(***************************************************************************)
EXTENDS MutationLock, ExecutionLifecycle, TLAPS

-----------------------------------------------------------------------------
(* The mutation lock.                                                      *)


\* A running process past create and before unlock owns the lock file.
HolderOwnsLock ==
  \A p \in up : /\ place[p] \in HolderSteps => lockFile.owner = p
                /\ place[p] = "critical" => lockFile.written

\* Conversely, a running process whose lock file is there is at such a step.
OwnerHolds == \A p \in up : lockFile.owner = p => place[p] \in HolderSteps

\* A running process inside the guarded section owns the guard.
GuardOwned == \A p \in up : place[p] \in GuardSteps => guardFile = p

\* A reclaimer past its liveness probe saw the bytes of a dead process.
SeenDead ==
  \A p \in up : place[p] \in {"guard", "poll", "reread", "remove"} =>
    seenOwner[p] # NoInvocation /\ seenOwner[p] \notin up

\* Between the second read and the removal the file is still the dead one:
\* only the guard's holder could take it away.
TargetDead == \A p \in up : place[p] = "remove" => lockFile.owner = seenOwner[p]

\* A free path has no bytes.
FreeUnwritten == lockFile.written => lockFile.owner # NoInvocation

LockInv ==
  /\ LockTypeOK
  /\ HolderOwnsLock
  /\ OwnerHolds
  /\ GuardOwned
  /\ SeenDead
  /\ TargetDead
  /\ FreeUnwritten

-----------------------------------------------------------------------------
\* Every step keeps the variables in their types.
LEMMA LockTypeStep == LockTypeOK /\ [LockNext]_lockVars => LockTypeOK'
<1> SUFFICES ASSUME LockTypeOK, [LockNext]_lockVars PROVE LockTypeOK'
  OBVIOUS
<1>n. ASSUME NEW p \in Invocation, LockFree, Create(p) \/ Recreate(p) PROVE LockTypeOK'
  <2>1. /\ lockFile' = [owner |-> p, written |-> FALSE]
        /\ place' = [place EXCEPT ![p] = "write"]
        /\ UNCHANGED <<hostOf, guardFile, up, seenOwner>>
    BY <1>n DEF Create, Recreate, CreateLockFile, MoveTo
  <2>2. lockFile' \in LockFiles
    BY <2>1 DEF LockFiles, Owner
  <2>3. place' \in [Invocation -> LockSteps]
    BY <2>1 DEF LockTypeOK, LockSteps, HolderSteps
  <2> QED
    BY <2>1, <2>2, <2>3 DEF LockTypeOK
<1> USE LockAssumption
    DEF LockTypeOK, LockFiles, NoLockFile, Owner, LockSteps, GuardSteps, HolderSteps,
        At, MoveTo, RemoveLockFile, CreateLockFile
<1>1. ASSUME NEW p \in Invocation, Step(p) PROVE LockTypeOK'
  <2>1. CASE EnterLock(p) BY <2>1 DEF EnterLock
  <2>2. CASE Create(p)
    <3>1. CASE LockFree
      BY <1>n, <2>2, <3>1
    <3>2. CASE ~LockFree
      BY <2>2, <3>2 DEF Create
    <3> QED
      BY <3>1, <3>2
  <2>3. CASE Inspect(p) BY <2>3 DEF Inspect, RecordedOwner
  <2>4. CASE Judge(p) BY <2>4 DEF Judge
  <2>5. CASE OpenGuard(p) BY <2>5 DEF OpenGuard
  <2>6. CASE PollGuard(p) BY <2>6 DEF PollGuard
  <2>7. CASE GuardTimeout(p) BY <2>7 DEF GuardTimeout
  <2>8. CASE Reread(p) BY <2>8 DEF Reread
  <2>9. CASE RemoveDead(p) BY <2>9 DEF RemoveDead
  <2>10. CASE DropGuard(p) BY <2>10 DEF DropGuard
  <2>11. CASE Recreate(p)
    <3>1. CASE LockFree
      BY <1>n, <2>11, <3>1
    <3>2. CASE ~LockFree
      BY <2>11, <3>2 DEF Recreate
    <3> QED
      BY <3>1, <3>2
  <2>12. CASE WriteOwner(p) BY <2>12 DEF WriteOwner
  <2>13. CASE WriteFails(p) BY <2>13 DEF WriteFails
  <2>14. CASE Unlock(p) BY <2>14 DEF Unlock
  <2> QED
    BY <1>1, <2>1, <2>2, <2>3, <2>4, <2>5, <2>6, <2>7, <2>8, <2>9, <2>10,
       <2>11, <2>12, <2>13, <2>14 DEF Step
<1>2. ASSUME NEW p \in Invocation, Crash(p) PROVE LockTypeOK'
  BY <1>2 DEF Crash
<1>3. CASE UNCHANGED lockVars
  BY <1>3 DEF lockVars
<1> QED
  BY <1>1, <1>2, <1>3 DEF LockNext

\* The inductive step of mutual exclusion, one case per file operation.
LEMMA LockInvStep == LockInv /\ [LockNext]_lockVars => LockInv'
<1> SUFFICES ASSUME LockInv, [LockNext]_lockVars PROVE LockInv'
  OBVIOUS
<1>t. LockTypeOK'
  BY LockTypeStep DEF LockInv
<1> USE LockAssumption
    DEF LockInv, LockTypeOK, LockFiles, NoLockFile, Owner, LockSteps, GuardSteps,
        HolderSteps, At, MoveTo, RemoveLockFile, CreateLockFile, LockFree,
        HolderOwnsLock, OwnerHolds, GuardOwned, SeenDead, TargetDead,
        FreeUnwritten
<1>1. ASSUME NEW p \in Invocation, Step(p) PROVE LockInv'
  <2>1. CASE EnterLock(p) BY <1>t, <2>1 DEF EnterLock
  <2>2. CASE Create(p) BY <1>t, <2>2 DEF Create
  <2>3. CASE Inspect(p) BY <1>t, <2>3 DEF Inspect
  <2>4. CASE Judge(p) BY <1>t, <2>4 DEF Judge, Reclaimable, PidRunning
  <2>5. CASE OpenGuard(p) BY <1>t, <2>5 DEF OpenGuard
  <2>6. CASE PollGuard(p) BY <1>t, <2>6 DEF PollGuard
  <2>7. CASE GuardTimeout(p) BY <1>t, <2>7 DEF GuardTimeout
  <2>8. CASE Reread(p) BY <1>t, <2>8 DEF Reread, RecordedOwner
  <2>9. CASE RemoveDead(p) BY <1>t, <2>9 DEF RemoveDead
  <2>10. CASE DropGuard(p) BY <1>t, <2>10 DEF DropGuard
  <2>11. CASE Recreate(p) BY <1>t, <2>11 DEF Recreate
  <2>12. CASE WriteOwner(p) BY <1>t, <2>12 DEF WriteOwner
  <2>13. CASE WriteFails(p) BY <1>t, <2>13 DEF WriteFails
  <2>14. CASE Unlock(p) BY <1>t, <2>14 DEF Unlock
  <2> QED
    BY <1>1, <2>1, <2>2, <2>3, <2>4, <2>5, <2>6, <2>7, <2>8, <2>9, <2>10,
       <2>11, <2>12, <2>13, <2>14 DEF Step
<1>2. ASSUME NEW p \in Invocation, Crash(p) PROVE LockInv'
  BY <1>t, <1>2 DEF Crash
<1>3. CASE UNCHANGED lockVars
  BY <1>t, <1>3 DEF lockVars
<1> QED
  BY <1>1, <1>2, <1>3 DEF LockNext

\* The lock starts free, with every process outside lock().
LEMMA LockInvInit == LockInit => LockInv
  BY LockAssumption
  DEF LockInit, LockInv, LockTypeOK, LockFiles, NoLockFile, Owner, LockSteps, GuardSteps,
      HolderSteps, HolderOwnsLock, OwnerHolds, GuardOwned, SeenDead,
      TargetDead, FreeUnwritten

LEMMA LockInvHolds == LockSpec => []LockInv
<1>1. LockInit => LockInv
  BY LockInvInit
<1>2. LockInv /\ [LockNext]_lockVars => LockInv'
  BY LockInvStep
<1> QED
  BY <1>1, <1>2, PTL DEF LockSpec

-----------------------------------------------------------------------------
\* The variables keep their types in every behaviour.
THEOREM LockTypesHold == LockSpec => []LockTypeOK
<1>1. LockInv => LockTypeOK
  BY DEF LockInv
<1> QED
  BY <1>1, LockInvHolds, PTL

\* At most one running process holds mutation.lock: two holders would both own
\* the one lock file (lock.go:134-137).
THEOREM LockMutualExclusion == LockSpec => []MutualExclusion
<1>1. LockInv => MutualExclusion
  BY DEF LockInv, HolderOwnsLock, MutualExclusion
<1> QED
  BY <1>1, LockInvHolds, PTL

\* A reader never takes the ledger for quiescent while a running command holds
\* the lock: an unwritten file names no owner and a written one a running owner
\* (lockBlocks, lock.go:222-231).
THEOREM ReadersBlocked == LockSpec => []MutationBlocksReaders
<1>1. LockInv => MutationBlocksReaders
  BY LockAssumption
  DEF LockInv, LockTypeOK, HolderOwnsLock, MutationBlocksReaders, LockBlocks,
      LockFree, Reclaimable, PidRunning, RecordedOwner, HolderSteps
<1> QED
  BY <1>1, LockInvHolds, PTL

\* No step but its owner's unlock or failed write removes the lock file of a
\* running process ("A live lock is never removed", lock.go:16).
THEOREM LiveLockNeverRemoved == LockSpec => LiveLockKept
<1> DEFINE Kept ==
      \A p \in up : lockFile.owner = p /\ lockFile'.owner # p
        => place[p] \in HolderSteps /\ place'[p] = "idle"
<1>1. LockInv /\ [LockNext]_lockVars => [Kept]_lockVars
  <2> SUFFICES ASSUME LockInv, LockNext PROVE Kept
    OBVIOUS
  <2> SUFFICES ASSUME NEW q \in up, lockFile.owner = q, lockFile'.owner # q
               PROVE  place[q] \in HolderSteps /\ place'[q] = "idle"
    OBVIOUS
  <2>1. q \in Invocation /\ q # NoInvocation /\ lockFile # NoLockFile /\ ~LockFree
    BY LockAssumption DEF LockInv, LockTypeOK, NoLockFile, LockFree
  <2>2. place[q] \in HolderSteps
    BY DEF LockInv, OwnerHolds
  <2>3. PICK p \in Invocation : Step(p) \/ Crash(p)
    BY DEF LockNext
  <2>4. RemoveDead(p) \/ WriteFails(p) \/ Unlock(p)
    BY <2>1, <2>3 DEF Step, EnterLock, Create, Inspect, Judge, OpenGuard, PollGuard,
       GuardTimeout, Reread, DropGuard, Recreate, WriteOwner, Crash, LockInv,
       LockTypeOK, LockFiles
  <2>5. ~RemoveDead(p)
    BY DEF RemoveDead, At, LockInv, SeenDead, TargetDead
  <2>6. p = q /\ place'[p] = "idle"
    BY <2>4, <2>5 DEF WriteFails, Unlock, At, MoveTo, HolderSteps, LockInv,
       LockTypeOK, HolderOwnsLock
  <2> QED
    BY <2>2, <2>6
<1> QED
  BY <1>1, LockInvHolds, PTL DEF LockSpec, LiveLockKept

-----------------------------------------------------------------------------
(* The execution of a task.                                                *)


\* The steps at which a command keeps the lock.
Locked == {"save", "receipt", "remove", "verify"}

\* What run-start has found, and not yet recorded.
StartFits(p) ==
  /\ pc[p] = "save" =>
       view[p].row \in Row /\ view[p].row.gen = gens + 1 /\ Replaceable
  /\ pc[p] = "receipt" =>
       view[p].row = row /\ row \in Row /\ (latest # NoReceipt => latest.gen < row.gen)

\* run-discard's intent is the last receipt; run-settle and run-close look.
EndFits(p) ==
  /\ pc[p] \in {"remove", "verify"} =>
       view[p].row = row /\ row \in Row /\ latest # NoReceipt /\ latest.status = "BLOCKED"
  /\ pc[p] \in {"settle", "close"} => view[p].row \in Row

\* run-finish's claim, its provider, and what nobody touches while it is at
\* work unless the owner declared it dead.
FinishFits(p) ==
  LET n == view[p].claim
  IN  Finishing(p) =>
        /\ view[p].row \in Row /\ n \in Claim /\ n <= claims
        /\ run[n] \in Run /\ run[n].gen = view[p].row.gen
        /\ n \notin declared => row = view[p].row /\ latest = Claiming(row, n)

Fits(p) ==
  /\ pc[p] \in Locked => lock = p
  /\ StartFits(p) /\ EndFits(p) /\ FinishFits(p)

\* Every claim has one claimant.
OneClaimant ==
  \A p, q \in Process :
    Finishing(p) /\ Finishing(q) /\ view[p].claim = view[q].claim => p = q

\* No receipt is ahead of the executions started, one that records a landed
\* branch with something left of it is BLOCKED and about the row, and a claim
\* is numbered.
LedgerFits ==
  /\ row # NoRow => row.gen <= gens
  /\ latest # NoReceipt => latest.gen <= gens
  /\ latest # NoReceipt /\ latest.partial =>
       latest.status = "BLOCKED" /\ row # NoRow /\ latest.gen = row.gen
  /\ latest # NoReceipt /\ latest.status = "FINISHING" => latest.claim \in Claim

\* The provider's exits 0 and 3 mean that the branch landed.
RunsLand == \A n \in Claim : run[n].state \in {"ok", "partial"} => run[n].gen \in landed

LifeInv ==
  /\ TypeOK
  /\ LedgerFits
  /\ RunsLand
  /\ OneClaimant
  /\ \A p \in Process : Fits(p)

-----------------------------------------------------------------------------
(* Receipts.                                                               *)

Ops == {"start", "finish", "recover", "abort", "settle", "close", "discard"}

Ends == {"ACTIVE", "BLOCKED", "DONE", "ABORTED"}

LEMMA Names ==
  /\ "ACTIVE" \in Ends /\ "BLOCKED" \in Ends /\ "DONE" \in Ends /\ "ABORTED" \in Ends
  /\ "start" \in Ops /\ "finish" \in Ops /\ "recover" \in Ops /\ "abort" \in Ops
  /\ "settle" \in Ops /\ "close" \in Ops /\ "discard" \in Ops
  /\ "FINISHING" \notin Ends
  BY DEF Ops, Ends

\* A receipt about row w that is no claim.
Reports(w, r) ==
  /\ r \in Receipt /\ r.gen = w.gen /\ r.status \in Ends
  /\ r.partial => r.status = "BLOCKED"

LEMMA AboutTyped ==
  ASSUME NEW w \in Row, NEW op \in Ops, NEW status \in Ends
  PROVE  /\ Reports(w, About(w, op, status))
         /\ About(w, op, status).status = status /\ ~About(w, op, status).partial
<1>1. w.gen \in Gen /\ w.branch \in Branch
  BY DEF Row
<1> QED BY <1>1 DEF Reports, About, Receipt, Ops, Ends

LEMMA UnnamedTyped ==
  ASSUME NEW w \in Row, NEW op \in Ops, NEW status \in Ends
  PROVE  /\ Reports(w, Unnamed(w, op, status))
         /\ Unnamed(w, op, status).status = status /\ ~Unnamed(w, op, status).partial
<1>1. PICK a : a = About(w, op, status)
  OBVIOUS
<1>2. a \in Receipt /\ a.gen = w.gen /\ a.status = status /\ ~a.partial
  BY <1>1, AboutTyped DEF Reports
<1>3. PICK u : u = [a EXCEPT !.named = FALSE]
  OBVIOUS
<1>4. u = Unnamed(w, op, status)
  BY <1>1, <1>3 DEF Unnamed
<1>5. u \in Receipt /\ u.gen = w.gen /\ u.status = status /\ ~u.partial
  BY <1>2, <1>3 DEF Receipt
<1> QED BY <1>4, <1>5 DEF Reports

LEMMA ClaimsTyped ==
  ASSUME NEW w \in Row, NEW n \in Claim
  PROVE  /\ Claiming(w, n) \in Receipt /\ Claiming(w, n) # NoReceipt
         /\ Claiming(w, n).gen = w.gen /\ ~Claiming(w, n).partial
         /\ Claiming(w, n).status = "FINISHING" /\ Claiming(w, n).claim = n
  BY NoneAssumption DEF Claiming, About, Receipt, Row

\* If the last receipt is no claim, every claimant at work was declared dead.
LEMMA NoClaimant ==
  ASSUME LifeInv, Status # "FINISHING"
  PROVE  \A q \in Process : Finishing(q) => view[q].claim \in declared
<1> SUFFICES ASSUME NEW q \in Process, Finishing(q), view[q].claim \notin declared
             PROVE  FALSE
  OBVIOUS
<1>1. /\ row = view[q].row /\ row \in Row /\ view[q].claim \in Claim
      /\ latest = Claiming(row, view[q].claim)
  BY DEF LifeInv, Fits, FinishFits
<1> QED BY <1>1, ClaimsTyped DEF Status

\* The commands that keep the lock are alone.
LEMMA LockedAlone ==
  ASSUME LifeInv
  PROVE  /\ Unlocked => \A q \in Process : pc[q] \notin Locked
         /\ \A p, q \in Process : pc[p] \in Locked /\ pc[q] \in Locked => p = q
         /\ \A p, q \in Process : lock = p /\ pc[q] \in Locked => p = q
  BY LifecycleAssumption DEF LifeInv, Fits, Unlocked

-----------------------------------------------------------------------------
(* What a step must show of itself to preserve the invariant.              *)

LedgerTyped ==
  row \in Row \cup {NoRow} /\ latest \in Receipt \cup {NoReceipt} /\ gens \in Gen

ProcsTyped ==
  /\ lock \in Process \cup {Free}
  /\ pc \in [Process -> Steps] /\ view \in [Process -> View \cup {NoView}]

WorldTyped ==
  /\ claims \in 0..MaxClaims /\ run \in [Claim -> Run \cup {NoRun}]
  /\ landed \subseteq Gen /\ declared \subseteq Claim

RestTyped == refs \in [Branch -> Standing] /\ kills \in 0..MaxKills

\* The commands that take no part keep their step, and the step respects
\* what they rely on.
Bystanders(S) ==
  \A q \in Process \ S :
    /\ pc'[q] = pc[q] /\ view'[q] = view[q]
    /\ pc[q] \in Locked => UNCHANGED <<ledger, lock>>
    /\ Finishing(q) => UNCHANGED <<row, latest>> \/ view[q].claim \in declared'

\* Claims and declarations are never taken back.
WorldGrows ==
  /\ claims <= claims' /\ declared \subseteq declared'
  /\ \A n \in Claim :
       n <= claims /\ run[n] \in Run => run'[n] \in Run /\ run'[n].gen = run[n].gen

\* The claim a command holds after the step is held by no other.
ClaimsApart(S) ==
  \A p \in S : Finishing(p)' =>
    \A q \in Process \ {p} : Finishing(q) => view[q].claim # view'[p].claim

\* One command at most acts; S is empty if none does.
LEMMA StepKeeps ==
  ASSUME LifeInv, NEW S \in SUBSET Process, \A p, q \in S : p = q,
         LedgerTyped', ProcsTyped', WorldTyped', RestTyped',
         LedgerFits', RunsLand',
         Bystanders(S), WorldGrows, ClaimsApart(S),
         \A p \in S : Fits(p)'
  PROVE  LifeInv'
<1>1. TypeOK'
  BY DEF TypeOK, LedgerTyped, ProcsTyped, WorldTyped, RestTyped
<1>2. ASSUME NEW q \in Process, q \notin S
      PROVE  Fits(q)'
  <2>1. /\ pc'[q] = pc[q] /\ view'[q] = view[q] /\ Fits(q)
        /\ pc[q] \in Locked => UNCHANGED <<row, latest, gens, lock>>
        /\ Finishing(q) => UNCHANGED <<row, latest>> \/ view[q].claim \in declared'
    BY <1>2 DEF LifeInv, Bystanders, ledger
  <2>2. pc'[q] \in Locked => lock' = q
    BY <2>1 DEF Fits
  <2>3. StartFits(q)'
    BY <2>1 DEF Fits, StartFits, Locked, Replaceable, Closed, ValidAbort, ValidDone, Binds
  <2>4. EndFits(q)'
    BY <2>1 DEF Fits, EndFits, Locked
  <2>5. FinishFits(q)'
    <3> SUFFICES ASSUME Finishing(q)'
                 PROVE  FinishFits(q)'
      BY DEF FinishFits, Finishing
    <3>0. PICK n : n = view[q].claim
      OBVIOUS
    <3>1. /\ Finishing(q) /\ view[q].row \in Row /\ n \in Claim /\ n <= claims
          /\ run[n] \in Run /\ run[n].gen = view[q].row.gen
          /\ n \notin declared => row = view[q].row /\ latest = Claiming(row, n)
      BY <2>1, <3>0 DEF Fits, FinishFits, Finishing
    <3>2. run'[n] \in Run /\ run'[n].gen = run[n].gen
      BY <3>1 DEF WorldGrows
    <3>3. n <= claims'
      BY <3>1 DEF WorldGrows, WorldTyped, LifeInv, TypeOK, Claim
    <3>4. n \notin declared' => row' = view[q].row /\ latest' = Claiming(row', n)
      BY <2>1, <3>0, <3>1 DEF WorldGrows
    <3> QED BY <2>1, <3>0, <3>1, <3>2, <3>3, <3>4 DEF FinishFits, Claiming, About
  <2> QED BY <2>2, <2>3, <2>4, <2>5 DEF Fits
<1>3. OneClaimant'
  <2> SUFFICES ASSUME NEW p \in Process, NEW q \in Process, p # q,
                      Finishing(p)', Finishing(q)', view'[p].claim = view'[q].claim
               PROVE  FALSE
    BY DEF OneClaimant
  <2>1. \A x \in Process : x \notin S /\ Finishing(x)' => Finishing(x) /\ view'[x] = view[x]
    BY DEF Bystanders, Finishing
  <2>2. CASE p \in S
    BY <2>1, <2>2 DEF ClaimsApart
  <2>3. CASE q \in S
    BY <2>1, <2>3 DEF ClaimsApart
  <2>4. CASE p \notin S /\ q \notin S
    BY <2>1, <2>4 DEF LifeInv, OneClaimant
  <2> QED BY <2>2, <2>3, <2>4
<1> QED BY <1>1, <1>2, <1>3 DEF LifeInv

\* A verb records the generation the ledger names.
LEMMA AppendFits ==
  ASSUME LifeInv, NEW r \in Receipt, Append(r), row \in Row, r.gen = row.gen,
         r.status \in Ends \/ r.claim \in Claim, r.partial => r.status = "BLOCKED"
  PROVE  LedgerTyped' /\ LedgerFits'
  BY NoneAssumption DEF LifeInv, LedgerFits, LedgerTyped, TypeOK, Append, Ends

LEMMA QuietFits ==
  ASSUME LifeInv, UNCHANGED ledger
  PROVE  LedgerTyped' /\ LedgerFits'
  BY DEF LifeInv, LedgerFits, LedgerTyped, TypeOK, ledger

LEMMA WorldQuiet ==
  ASSUME LifeInv, UNCHANGED world
  PROVE  WorldTyped' /\ WorldGrows /\ RunsLand'
  BY DEF LifeInv, TypeOK, WorldTyped, WorldGrows, RunsLand, world

LEMMA RestQuiet ==
  ASSUME LifeInv, UNCHANGED <<refs, kills>>
  PROVE  RestTyped'
  BY DEF LifeInv, TypeOK, RestTyped

\* A step of S that writes the ledger: nobody else keeps the lock, and no
\* other claimant is at work that was not declared dead.
Others(S) ==
  \A q \in Process \ S :
    /\ pc'[q] = pc[q] /\ view'[q] = view[q]
    /\ pc[q] \notin Locked
    /\ Finishing(q) => view[q].claim \in declared'

LEMMA WriterFits ==
  ASSUME NEW S, Others(S)
  PROVE  Bystanders(S)
  BY DEF Others, Bystanders

LEMMA ReaderFits ==
  ASSUME NEW S, UNCHANGED <<row, latest, gens, lock>>,
         \A q \in Process \ S : pc'[q] = pc[q] /\ view'[q] = view[q]
  PROVE  Bystanders(S)
  BY DEF Bystanders, ledger

LEMMA GotoOthers ==
  ASSUME LifeInv, NEW p \in Process, NEW step \in Steps, NEW v \in View \cup {NoView},
         Goto(p, step, v), lock' \in Process \cup {Free}
  PROVE  /\ ProcsTyped' /\ pc'[p] = step /\ view'[p] = v
         /\ \A q \in Process \ {p} : pc'[q] = pc[q] /\ view'[q] = view[q]
  BY DEF LifeInv, TypeOK, ProcsTyped, Goto

\* A command that leaves has nothing more to rely on.
LEMMA LeaveFits ==
  ASSUME LifeInv, NEW p \in Process, Leave(p), lock' \in Process \cup {Free}
  PROVE  ProcsTyped' /\ ClaimsApart({p}) /\ Fits(p)'
<1>1. pc'[p] = "idle" /\ ProcsTyped'
  BY DEF LifeInv, TypeOK, ProcsTyped, Leave, Goto, Steps
<1> QED
  BY <1>1 DEF ClaimsApart, Finishing, Fits, StartFits, EndFits, FinishFits, Locked

-----------------------------------------------------------------------------
(* The verbs that take and give back the lock within their one step.       *)

LEMMA VerbKeeps ==
  ASSUME LifeInv, Unlocked, row \in Row,
         \A q \in Process : Finishing(q) => view[q].claim \in declared',
         NEW r, Reports(row, r), Append(r),
         UNCHANGED <<refs, lock, pc, view, claims, run, landed, kills>>,
         declared \subseteq declared', declared' \subseteq Claim
  PROVE  LifeInv'
<1>1. LedgerTyped' /\ LedgerFits'
  BY AppendFits DEF Reports
<1>2. ProcsTyped' /\ WorldTyped' /\ RestTyped' /\ RunsLand' /\ WorldGrows
  BY DEF LifeInv, TypeOK, ProcsTyped, WorldTyped, RestTyped, RunsLand, WorldGrows
<1>3. Others({})
  BY LockedAlone DEF Others
<1>4. Bystanders({}) /\ ClaimsApart({})
  BY <1>3, WriterFits DEF ClaimsApart
<1> QED BY <1>1, <1>2, <1>4, StepKeeps

LEMMA FinishRefusesKeeps ==
  ASSUME LifeInv, FinishRefuses
  PROVE  LifeInv'
<1>1. row \in Row /\ Status # "FINISHING" /\ Unlocked /\ Append(About(row, "finish", "BLOCKED"))
      /\ UNCHANGED <<refs, lock, pc, view, claims, run, landed, declared, kills>>
  BY DEF FinishRefuses, FinishReady, LifeInv, TypeOK, procs, world
<1>2. Reports(row, About(row, "finish", "BLOCKED"))
  BY <1>1, AboutTyped, Names
<1>3. declared' \subseteq Claim /\ declared \subseteq declared'
  BY <1>1 DEF LifeInv, TypeOK
<1> QED BY <1>1, <1>2, <1>3, NoClaimant, VerbKeeps

LEMMA RecoverCleanupKeeps ==
  ASSUME LifeInv, RecoverCleanup
  PROVE  LifeInv'
<1>1. row \in Row /\ Status # "FINISHING" /\ Unlocked /\ Append(Unnamed(row, "recover", "DONE"))
      /\ UNCHANGED <<refs, lock, pc, view, claims, run, landed, declared, kills>>
  BY DEF RecoverCleanup, PartialCleanup, Status, LifeInv, TypeOK, procs, world
<1>2. Reports(row, Unnamed(row, "recover", "DONE"))
  BY <1>1, UnnamedTyped, Names
<1>3. declared' \subseteq Claim /\ declared \subseteq declared'
  BY <1>1 DEF LifeInv, TypeOK
<1> QED BY <1>1, <1>2, <1>3, NoClaimant, VerbKeeps

LEMMA AbortKeeps ==
  ASSUME LifeInv, Abort
  PROVE  LifeInv'
<1>1. row \in Row /\ Status # "FINISHING" /\ Unlocked /\ Append(About(row, "abort", "ABORTED"))
      /\ UNCHANGED <<refs, lock, pc, view, claims, run, landed, declared, kills>>
  BY DEF Abort, LifeInv, TypeOK, procs, world
<1>2. Reports(row, About(row, "abort", "ABORTED"))
  BY <1>1, AboutTyped, Names
<1>3. declared' \subseteq Claim /\ declared \subseteq declared'
  BY <1>1 DEF LifeInv, TypeOK
<1> QED BY <1>1, <1>2, <1>3, NoClaimant, VerbKeeps

LEMMA DiscardResumeKeeps ==
  ASSUME LifeInv, DiscardResume
  PROVE  LifeInv'
<1>1. PICK s \in {"ABORTED", "BLOCKED"} : Append(About(row, "discard", s))
  BY DEF DiscardResume, DiscardReceipt
<1>2. row \in Row /\ Status # "FINISHING" /\ Unlocked
      /\ UNCHANGED <<refs, lock, pc, view, claims, run, landed, declared, kills>>
  BY DEF DiscardResume, DiscardRefused, LifeInv, TypeOK, procs, world
<1>3. Reports(row, About(row, "discard", s))
  BY <1>1, <1>2, AboutTyped, Names
<1>4. declared' \subseteq Claim /\ declared \subseteq declared'
  BY <1>2 DEF LifeInv, TypeOK
<1> QED BY <1>1, <1>2, <1>3, <1>4, NoClaimant, VerbKeeps

\* The claim that is recovered is the only one that may be at work undeclared.
LEMMA ClaimantIsLatest ==
  ASSUME LifeInv, NEW q \in Process, Finishing(q), view[q].claim \notin declared
  PROVE  /\ view[q].claim \in Claim /\ latest.claim = view[q].claim
         /\ ClaimantLives(latest.claim)
<1>1. row \in Row /\ view[q].claim \in Claim /\ latest = Claiming(row, view[q].claim)
  BY DEF LifeInv, Fits, FinishFits
<1>2. latest.claim = view[q].claim
  BY <1>1, ClaimsTyped
<1> QED BY <1>1, <1>2 DEF ClaimantLives, Finishing

LEMMA RecoverClaimKeeps ==
  ASSUME LifeInv, NEW h \in Host, RecoverClaim(h)
  PROVE  LifeInv'
<1>1. row \in Row /\ Unlocked /\ Append(About(row, "recover", "BLOCKED"))
      /\ UNCHANGED <<refs, lock, pc, view, claims, run, landed, declared, kills>>
  BY DEF RecoverClaim, CanRecoverClaim, LifeInv, TypeOK, procs, world
<1>2. Reports(row, About(row, "recover", "BLOCKED"))
  BY <1>1, AboutTyped, Names
<1>3. declared' \subseteq Claim /\ declared \subseteq declared'
  BY <1>1 DEF LifeInv, TypeOK
<1>4. \A q \in Process : Finishing(q) => view[q].claim \in declared'
  BY <1>3, ClaimantIsLatest DEF RecoverClaim
<1> QED BY <1>1, <1>2, <1>3, <1>4, VerbKeeps

LEMMA DeclareClaimDeadKeeps ==
  ASSUME LifeInv, DeclareClaimDead
  PROVE  LifeInv'
<1>1. row \in Row /\ Unlocked /\ Append(About(row, "recover", "BLOCKED"))
      /\ UNCHANGED <<refs, lock, pc, view, claims, run, landed, kills>>
      /\ declared' = declared \cup {latest.claim} /\ latest.claim \in Claim
  BY DEF DeclareClaimDead, CanRecoverClaim, LifeInv, LedgerFits, Status, TypeOK, procs
<1>2. Reports(row, About(row, "recover", "BLOCKED"))
  BY <1>1, AboutTyped, Names
<1>3. \A q \in Process : Finishing(q) => view[q].claim \in declared'
  BY <1>1, ClaimantIsLatest
<1>4. declared \subseteq declared' /\ declared' \subseteq Claim
  BY <1>1 DEF LifeInv, TypeOK
<1> QED BY <1>1, <1>2, <1>3, <1>4, VerbKeeps

-----------------------------------------------------------------------------
(* The commands that record their outcome and leave.                       *)

LEMMA RecordsAndLeaves ==
  ASSUME LifeInv, NEW p \in Process, row \in Row,
         NEW r, Reports(row, r), Append(r),
         Leave(p), lock' \in Process \cup {Free},
         \A q \in Process \ {p} : pc[q] \notin Locked,
         \A q \in Process \ {p} : Finishing(q) => view[q].claim \in declared',
         WorldTyped', WorldGrows, RunsLand', UNCHANGED <<refs, kills>>
  PROVE  LifeInv'
<1>1. LedgerTyped' /\ LedgerFits'
  BY AppendFits DEF Reports
<1>2. RestTyped'
  BY RestQuiet
<1>3. ProcsTyped' /\ ClaimsApart({p}) /\ Fits(p)'
  BY LeaveFits
<1>4. \A q \in Process \ {p} : pc'[q] = pc[q] /\ view'[q] = view[q]
  BY DEF Leave, Goto, LifeInv, TypeOK
<1>5. Others({p})
  BY <1>4 DEF Others
<1>6. Bystanders({p})
  BY <1>5, WriterFits
<1>7. {p} \in SUBSET Process /\ (\A x, y \in {p} : x = y) /\ \A x \in {p} : Fits(x)'
  BY <1>3
<1> QED BY <1>1, <1>2, <1>3, <1>6, <1>7, StepKeeps

\* A command that has changed nothing of the ledger in this step, and leaves.
LEMMA JustLeaves ==
  ASSUME LifeInv, NEW p \in Process, Leave(p), UNCHANGED <<row, latest, gens, refs>>,
         lock' = lock \/ (lock = p /\ lock' = Free), kills' \in 0..MaxKills,
         WorldTyped', WorldGrows, RunsLand'
  PROVE  LifeInv'
<1>1. LedgerTyped' /\ LedgerFits' /\ RestTyped'
  BY QuietFits DEF ledger, RestTyped, LifeInv, TypeOK
<1>2. lock' \in Process \cup {Free}
  BY DEF LifeInv, TypeOK
<1>3. ProcsTyped' /\ ClaimsApart({p}) /\ Fits(p)'
  BY <1>2, LeaveFits
<1>4. \A q \in Process \ {p} : pc'[q] = pc[q] /\ view'[q] = view[q]
  BY DEF Leave, Goto, LifeInv, TypeOK
<1>5. Bystanders({p})
  BY <1>4, LockedAlone DEF Bystanders, ledger
<1>6. {p} \in SUBSET Process /\ (\A x, y \in {p} : x = y) /\ \A x \in {p} : Fits(x)'
  BY <1>3
<1> QED BY <1>1, <1>3, <1>5, <1>6, StepKeeps

LEMMA EndRowKeeps ==
  ASSUME LifeInv, NEW p \in Process, NEW op \in {"settle", "close"},
         pc[p] = op, EndRow(p, op)
  PROVE  LifeInv'
<1>0. /\ Unlocked /\ Leave(p) /\ UNCHANGED <<refs, lock, world, kills>>
      /\ view[p].row \in Row /\ op \in Ops
  BY DEF EndRow, LifeInv, Fits, EndFits, Ops
<1>1. WorldTyped' /\ WorldGrows /\ RunsLand'
  BY <1>0, WorldQuiet
<1>2. CASE CanEnd(view[p].row) /\ (op = "settle" => Settleable(view[p].row))
  <2>1. Append(About(row, op, "ABORTED")) /\ row \in Row /\ Status # "FINISHING"
    BY <1>0, <1>2 DEF EndRow, CanEnd
  <2>2. Reports(row, About(row, op, "ABORTED"))
    BY <1>0, <2>1, AboutTyped, Names
  <2>3. /\ \A q \in Process \ {p} : pc[q] \notin Locked
        /\ \A q \in Process \ {p} : Finishing(q) => view[q].claim \in declared'
        /\ lock' \in Process \cup {Free}
    BY <1>0, <2>1, LockedAlone, NoClaimant DEF world, LifeInv, TypeOK
  <2> QED BY <1>0, <1>1, <2>1, <2>2, <2>3, RecordsAndLeaves
<1>3. CASE ~(CanEnd(view[p].row) /\ (op = "settle" => Settleable(view[p].row)))
  <2>1. UNCHANGED <<row, latest, gens, refs>> /\ lock' = lock /\ kills' \in 0..MaxKills
    BY <1>0, <1>3 DEF EndRow, ledger, LifeInv, TypeOK
  <2> QED BY <1>0, <1>1, <2>1, JustLeaves
<1> QED BY <1>2, <1>3

LEMMA KillKeeps ==
  ASSUME LifeInv, NEW p \in Process, Kill(p)
  PROVE  LifeInv'
<1>1. /\ Leave(p) /\ UNCHANGED <<row, latest, gens, refs>> /\ UNCHANGED world
      /\ lock' = lock \/ (lock = p /\ lock' = Free)
  BY DEF Kill, ledger
<1>2. kills' \in 0..MaxKills
  BY LifecycleAssumption DEF Kill, LifeInv, TypeOK
<1>3. WorldTyped' /\ WorldGrows /\ RunsLand'
  BY <1>1, WorldQuiet
<1> QED BY <1>1, <1>2, <1>3, JustLeaves

LEMMA DiscardEndsKeeps ==
  ASSUME LifeInv, NEW p \in Process, DiscardVerify(p) \/ DiscardFails(p)
  PROVE  LifeInv'
<1>1. /\ pc[p] = "verify" /\ lock' = Free /\ Leave(p) /\ UNCHANGED <<refs, world, kills>>
      /\ view[p].row = row /\ row \in Row /\ latest # NoReceipt /\ latest.status = "BLOCKED"
  BY DEF DiscardVerify, DiscardFails, LifeInv, Fits, EndFits
<1>2. PICK s \in {"ABORTED", "BLOCKED"} : Append(About(row, "discard", s))
  BY <1>1 DEF DiscardVerify, DiscardFails, DiscardReceipt
<1>3. Reports(row, About(row, "discard", s))
  BY <1>1, <1>2, AboutTyped, Names
<1>4. WorldTyped' /\ WorldGrows /\ RunsLand'
  BY <1>1, WorldQuiet
<1>5. /\ \A q \in Process \ {p} : pc[q] \notin Locked
      /\ \A q \in Process \ {p} : Finishing(q) => view[q].claim \in declared'
      /\ lock' \in Process \cup {Free} /\ UNCHANGED <<refs, kills>>
  BY <1>1, LockedAlone, NoClaimant DEF world, Status, Locked
<1> QED BY <1>1, <1>2, <1>3, <1>4, <1>5, RecordsAndLeaves

LEMMA StartReceiptKeeps ==
  ASSUME LifeInv, NEW p \in Process, StartReceipt(p)
  PROVE  LifeInv'
<1>1. /\ pc[p] = "receipt" /\ lock' = Free /\ Leave(p) /\ UNCHANGED <<refs, world, kills>>
      /\ view[p].row = row /\ row \in Row /\ (latest # NoReceipt => latest.gen < row.gen)
      /\ Append(Unnamed(row, "start", "ACTIVE"))
  BY DEF StartReceipt, LifeInv, Fits, StartFits
<1>2. Reports(row, Unnamed(row, "start", "ACTIVE"))
  BY <1>1, UnnamedTyped, Names
<1>3. ASSUME NEW q \in Process, Finishing(q), view[q].claim \notin declared
      PROVE  FALSE
  <2>1. latest = Claiming(row, view[q].claim) /\ view[q].claim \in Claim
    BY <1>3 DEF LifeInv, Fits, FinishFits
  <2>2. latest # NoReceipt /\ latest.gen = row.gen
    BY <1>1, <2>1, ClaimsTyped
  <2> QED BY <1>1, <2>2 DEF Row, Gen
<1>4. WorldTyped' /\ WorldGrows /\ RunsLand'
  BY <1>1, WorldQuiet
<1>5. /\ \A q \in Process \ {p} : pc[q] \notin Locked
      /\ \A q \in Process \ {p} : Finishing(q) => view[q].claim \in declared'
      /\ lock' \in Process \cup {Free} /\ UNCHANGED <<refs, kills>>
  BY <1>1, <1>3, LockedAlone DEF world, Locked
<1> QED BY <1>1, <1>2, <1>4, <1>5, RecordsAndLeaves

-----------------------------------------------------------------------------
(* run-finish and its provider.                                            *)

RunState == {"none", "running"} \cup Exit

LEMMA SetRunFits ==
  ASSUME LifeInv, NEW n \in Claim, run[n] \in Run, NEW state \in RunState,
         SetRun(n, state), UNCHANGED <<claims, declared>>,
         landed \subseteq landed', landed' \subseteq Gen,
         state \in {"ok", "partial"} => run[n].gen \in landed'
  PROVE  WorldTyped' /\ WorldGrows /\ RunsLand'
<1>1. PICK x : x = [run[n] EXCEPT !.state = state]
  OBVIOUS
<1>2. x \in Run /\ x.gen = run[n].gen /\ x.state = state
  BY <1>1 DEF Run, RunState
<1>3. run' = [run EXCEPT ![n] = x] /\ run \in [Claim -> Run \cup {NoRun}]
  BY <1>1 DEF SetRun, LifeInv, TypeOK
<1>4. run' \in [Claim -> Run \cup {NoRun}] /\ run'[n] = x
      /\ \A m \in Claim \ {n} : run'[m] = run[m]
  BY <1>2, <1>3
<1>5. WorldTyped'
  BY <1>4 DEF WorldTyped, LifeInv, TypeOK
<1>6. WorldGrows
  BY <1>2, <1>4 DEF WorldGrows, LifeInv, TypeOK
<1>7. RunsLand'
  BY <1>2, <1>4 DEF RunsLand, LifeInv
<1> QED BY <1>5, <1>6, <1>7

\* The outcome of a provider that ended is put away.
LEMMA RunPutAway ==
  ASSUME LifeInv, NEW p \in Process, Finishing(p), SetRun(view[p].claim, "none"),
         UNCHANGED <<claims, landed, declared>>
  PROVE  WorldTyped' /\ WorldGrows /\ RunsLand'
<1>1. view[p].claim \in Claim /\ run[view[p].claim] \in Run
  BY DEF LifeInv, Fits, FinishFits
<1>2. "none" \in RunState /\ landed \subseteq landed' /\ landed' \subseteq Gen
  BY DEF LifeInv, TypeOK, RunState
<1> QED BY <1>1, <1>2, SetRunFits

LEMMA FinishGivesUpKeeps ==
  ASSUME LifeInv, NEW p \in Process, FinishGivesUp(p)
  PROVE  LifeInv'
<1>1. /\ Finishing(p) /\ SetRun(view[p].claim, "none") /\ Leave(p)
      /\ UNCHANGED <<claims, landed, declared>> /\ UNCHANGED <<row, latest, gens, refs>>
      /\ lock' = lock /\ kills' \in 0..MaxKills
  BY DEF FinishGivesUp, Finishing, ledger, LifeInv, TypeOK
<1>2. WorldTyped' /\ WorldGrows /\ RunsLand'
  BY <1>1, RunPutAway
<1> QED BY <1>1, <1>2, JustLeaves

LEMMA OutcomesTyped ==
  ASSUME NEW w \in Row, NEW exit, NEW r \in Outcomes(w, exit)
  PROVE  Reports(w, r)
<1>1. PICK a : a = About(w, "finish", "BLOCKED")
  OBVIOUS
<1>2. a \in Receipt /\ a.gen = w.gen /\ a.status = "BLOCKED" /\ ~a.partial
  BY <1>1, AboutTyped, Names DEF Reports
<1>3. CASE r = About(w, "finish", "DONE")
  BY <1>3, AboutTyped, Names
<1>4. CASE r = a \/ \E seen \in BOOLEAN : r = [a EXCEPT !.partial = seen]
  BY <1>2, <1>4, Names DEF Receipt, Reports
<1> QED BY <1>1, <1>3, <1>4 DEF Outcomes

\* A claim that is still the last receipt has one claimant.
LEMMA OnlyClaimant ==
  ASSUME LifeInv, NEW p \in Process, Finishing(p), StillClaimed(p)
  PROVE  \A q \in Process \ {p} : Finishing(q) => view[q].claim \in declared
<1> SUFFICES ASSUME NEW q \in Process \ {p}, Finishing(q), view[q].claim \notin declared
             PROVE  FALSE
  OBVIOUS
<1>1. latest.claim = view[q].claim
  BY ClaimantIsLatest
<1>2. view[p].row \in Row /\ view[p].claim \in Claim
      /\ latest = Claiming(view[p].row, view[p].claim)
  BY DEF LifeInv, Fits, FinishFits, StillClaimed
<1>3. latest.claim = view[p].claim
  BY <1>2, ClaimsTyped
<1> QED BY <1>1, <1>3 DEF LifeInv, OneClaimant

LEMMA FinishOutcomeKeeps ==
  ASSUME LifeInv, NEW p \in Process, FinishOutcome(p)
  PROVE  LifeInv'
<1>1. /\ Finishing(p) /\ StillClaimed(p) /\ Unlocked
      /\ SetRun(view[p].claim, "none") /\ Leave(p)
      /\ UNCHANGED <<claims, landed, declared>> /\ UNCHANGED <<refs, lock, kills>>
      /\ row = view[p].row /\ row \in Row
  BY DEF FinishOutcome, Finishing, StillClaimed, LifeInv, Fits, FinishFits
<1>2. PICK r \in Outcomes(row, run[view[p].claim].state) : Append(r)
  BY <1>1 DEF FinishOutcome
<1>3. Reports(row, r)
  BY <1>1, OutcomesTyped
<1>4. WorldTyped' /\ WorldGrows /\ RunsLand'
  BY <1>1, RunPutAway
<1>5. /\ \A q \in Process \ {p} : pc[q] \notin Locked
      /\ \A q \in Process \ {p} : Finishing(q) => view[q].claim \in declared'
      /\ lock' \in Process \cup {Free} /\ UNCHANGED <<refs, kills>>
  BY <1>1, LockedAlone, OnlyClaimant DEF LifeInv, TypeOK
<1> QED BY <1>1, <1>2, <1>3, <1>4, <1>5, RecordsAndLeaves

LEMMA FinishClaimKeeps ==
  ASSUME LifeInv, NEW p \in Process, FinishClaim(p)
  PROVE  LifeInv'
<1>1. PICK n : n = claims + 1
  OBVIOUS
<1>2. PICK x : x = [state |-> "none", gen |-> row.gen, branch |-> row.branch, host |-> HostOf[p]]
  OBVIOUS
<1>3. PICK v : v = [row |-> row, claim |-> n]
  OBVIOUS
<1>4. /\ pc[p] = "idle" /\ Unlocked /\ claims < MaxClaims /\ row \in Row /\ Status # "FINISHING"
      /\ claims' = n /\ run' = [run EXCEPT ![n] = x] /\ Append(Claiming(row, n))
      /\ Goto(p, "run", v) /\ UNCHANGED <<refs, lock, landed, declared, kills>>
  BY <1>1, <1>2, <1>3 DEF FinishClaim, FinishReady, LifeInv, TypeOK
<1>5. /\ n \in Claim /\ claims \in Nat /\ claims < n /\ n \in 0..MaxClaims
      /\ v \in View /\ v.row = row /\ v.claim = n
  BY <1>1, <1>3, <1>4, LifecycleAssumption DEF LifeInv, TypeOK, Claim, View
<1>6. x \in Run /\ x.gen = row.gen /\ x.state = "none"
  BY <1>2, <1>4, LifecycleAssumption DEF Row, Run
<1>7. /\ run' \in [Claim -> Run \cup {NoRun}] /\ run'[n] = x
      /\ \A m \in Claim \ {n} : run'[m] = run[m]
  BY <1>4, <1>5, <1>6 DEF LifeInv, TypeOK
<1>8. WorldTyped' /\ WorldGrows
  BY <1>4, <1>5, <1>7 DEF WorldTyped, WorldGrows, LifeInv, TypeOK, Claim
<1>9. RunsLand'
  BY <1>4, <1>6, <1>7 DEF RunsLand, LifeInv
<1>10. PICK c : c = Claiming(row, n)
  OBVIOUS
<1>11. c \in Receipt /\ c.gen = row.gen /\ c.claim \in Claim /\ ~c.partial /\ Append(c)
  BY <1>4, <1>5, <1>10, ClaimsTyped
<1>12. LedgerTyped' /\ LedgerFits' /\ RestTyped'
  BY <1>4, <1>11, AppendFits, RestQuiet
<1>13. lock' \in Process \cup {Free} /\ "run" \in Steps
  BY <1>4 DEF LifeInv, TypeOK, Steps
<1>14. /\ ProcsTyped' /\ pc'[p] = "run" /\ view'[p] = v
       /\ \A q \in Process \ {p} : pc'[q] = pc[q] /\ view'[q] = view[q]
  BY <1>4, <1>5, <1>13, GotoOthers
<1>15. Others({p})
  BY <1>4, <1>14, LockedAlone, NoClaimant DEF Others
<1>16. Bystanders({p})
  BY <1>15, WriterFits
<1>17. ClaimsApart({p})
  <2>1. \A q \in Process : Finishing(q) => view[q].claim \in Claim /\ view[q].claim <= claims
    BY DEF LifeInv, Fits, FinishFits
  <2>2. \A q \in Process : Finishing(q) => view[q].claim # n
    BY <1>5, <2>1 DEF Claim
  <2> QED BY <1>5, <1>14, <2>2 DEF ClaimsApart
<1>18. Fits(p)'
  <2>1. StartFits(p)' /\ EndFits(p)' /\ (pc'[p] \in Locked => lock' = p)
    BY <1>14 DEF StartFits, EndFits, Locked
  <2>2. row' = row /\ latest' = Claiming(row', n)
    BY <1>4 DEF Append, Claiming, About
  <2>3. run'[n] \in Run /\ run'[n].gen = row.gen /\ claims' = n /\ n <= claims'
    BY <1>4, <1>5, <1>6, <1>7
  <2>4. FinishFits(p)'
    BY <1>4, <1>5, <1>14, <2>2, <2>3 DEF FinishFits, Claiming, About
  <2> QED BY <2>1, <2>4 DEF Fits
<1>19. {p} \in SUBSET Process /\ (\A y, z \in {p} : y = z) /\ \A y \in {p} : Fits(y)'
  BY <1>18
<1> QED BY <1>8, <1>9, <1>12, <1>14, <1>16, <1>17, <1>19, StepKeeps

LEMMA FinishRunKeeps ==
  ASSUME LifeInv, NEW p \in Process, FinishRun(p)
  PROVE  LifeInv'
<1>1. PICK n : n = view[p].claim
  OBVIOUS
<1>2. /\ Finishing(p) /\ SetRun(n, "running") /\ Goto(p, "wait", view[p])
      /\ UNCHANGED <<claims, landed, declared>> /\ UNCHANGED <<refs, kills>>
      /\ UNCHANGED <<row, latest, gens, lock>>
  BY <1>1 DEF FinishRun, Finishing, ledger
<1>3. /\ view[p].row \in Row /\ n \in Claim /\ n <= claims
      /\ run[n] \in Run /\ run[n].gen = view[p].row.gen
      /\ n \notin declared => row = view[p].row /\ latest = Claiming(row, n)
  BY <1>1, <1>2 DEF LifeInv, Fits, FinishFits
<1>4. "running" \in RunState /\ landed \subseteq landed' /\ landed' \subseteq Gen
  BY <1>2 DEF RunState, LifeInv, TypeOK
<1>5. WorldTyped' /\ WorldGrows /\ RunsLand'
  BY <1>2, <1>3, <1>4, SetRunFits
<1>6. LedgerTyped' /\ LedgerFits' /\ RestTyped'
  BY <1>2, QuietFits, RestQuiet DEF ledger
<1>7. "wait" \in Steps /\ view[p] \in View \cup {NoView} /\ lock' \in Process \cup {Free}
  BY <1>2 DEF LifeInv, TypeOK, Steps
<1>8. /\ ProcsTyped' /\ pc'[p] = "wait" /\ view'[p] = view[p]
      /\ \A q \in Process \ {p} : pc'[q] = pc[q] /\ view'[q] = view[q]
  BY <1>2, <1>7, GotoOthers
<1>9. Bystanders({p})
  BY <1>2, <1>8, ReaderFits
<1>10. ClaimsApart({p})
  BY <1>2, <1>8 DEF ClaimsApart, LifeInv, OneClaimant
<1>11. Fits(p)'
  <2>1. StartFits(p)' /\ EndFits(p)' /\ (pc'[p] \in Locked => lock' = p)
    BY <1>8 DEF StartFits, EndFits, Locked
  <2>2. run'[n] \in Run /\ run'[n].gen = run[n].gen
    BY <1>3, <1>5 DEF WorldGrows
  <2>3. FinishFits(p)'
    BY <1>1, <1>2, <1>3, <1>8, <2>2 DEF FinishFits, Claiming, About
  <2> QED BY <2>1, <2>3 DEF Fits
<1>12. {p} \in SUBSET Process /\ (\A y, z \in {p} : y = z) /\ \A y \in {p} : Fits(y)'
  BY <1>11
<1> QED BY <1>5, <1>6, <1>8, <1>9, <1>10, <1>12, StepKeeps

\* Nobody's step: the ledger and the commands stay.
LEMMA OutsideKeeps ==
  ASSUME LifeInv, UNCHANGED ledger, UNCHANGED procs, RestTyped',
         WorldTyped', WorldGrows, RunsLand'
  PROVE  LifeInv'
<1>1. LedgerTyped' /\ LedgerFits'
  BY QuietFits
<1>2. ProcsTyped'
  BY DEF procs, ProcsTyped, LifeInv, TypeOK
<1>3. Bystanders({}) /\ ClaimsApart({})
  BY ReaderFits DEF procs, ledger, ClaimsApart
<1> QED BY <1>1, <1>2, <1>3, StepKeeps

LEMMA ProviderEndsKeeps ==
  ASSUME LifeInv, NEW n \in Claim, ProviderEnds(n)
  PROVE  LifeInv'
<1>1. PICK exit \in Exit, left \in Standing, lands \in BOOLEAN :
        /\ exit \in {"ok", "partial"} => lands
        /\ SetRun(n, IF ClaimantLives(n) THEN exit ELSE "none")
        /\ refs' = [refs EXCEPT ![run[n].branch] = left]
        /\ landed' = IF lands THEN landed \cup {run[n].gen} ELSE landed
  BY DEF ProviderEnds
<1>2. PICK state : state = IF ClaimantLives(n) THEN exit ELSE "none"
  OBVIOUS
<1>3. /\ SetRun(n, state) /\ state \in RunState
      /\ state \in {"ok", "partial"} => lands
      /\ UNCHANGED <<claims, declared>>
  BY <1>1, <1>2 DEF RunState, ProviderEnds
<1>4. run[n] \in Run
  BY DEF ProviderEnds, LifeInv, TypeOK, NoRun
<1>5. run[n].gen \in Gen
  BY <1>4 DEF Run
<1>6. /\ landed \subseteq landed' /\ landed' \subseteq Gen
      /\ state \in {"ok", "partial"} => run[n].gen \in landed'
  BY <1>1, <1>3, <1>5 DEF LifeInv, TypeOK
<1>7. WorldTyped' /\ WorldGrows /\ RunsLand'
  BY <1>3, <1>4, <1>6, SetRunFits
<1>8. RestTyped' /\ UNCHANGED ledger /\ UNCHANGED procs
  BY <1>1 DEF RestTyped, LifeInv, TypeOK, ProviderEnds
<1> QED BY <1>7, <1>8, OutsideKeeps

LEMMA HandsKeep ==
  ASSUME LifeInv, NEW b \in Branch, Push(b) \/ RemoveByHand(b)
  PROVE  LifeInv'
<1>1. PICK left \in Standing : refs' = [refs EXCEPT ![b] = left]
  BY DEF Push, RemoveByHand, Standing, Part
<1>2. UNCHANGED ledger /\ UNCHANGED procs /\ UNCHANGED world /\ UNCHANGED kills
  BY DEF Push, RemoveByHand
<1>3. RestTyped'
  BY <1>1, <1>2 DEF RestTyped, LifeInv, TypeOK
<1>4. WorldTyped' /\ WorldGrows /\ RunsLand'
  BY <1>2, WorldQuiet
<1> QED BY <1>2, <1>3, <1>4, OutsideKeeps

-----------------------------------------------------------------------------
(* run-start, run-discard and the looks of run-settle and run-close.       *)

\* A command that goes on and leaves the ledger alone; it may take the lock.
LEMMA GoesOn ==
  ASSUME LifeInv, NEW p \in Process, NEW step \in Steps, step \notin {"run", "wait"},
         NEW v \in View \cup {NoView}, Goto(p, step, v), UNCHANGED <<row, latest, gens>>,
         lock' = lock \/ (Unlocked /\ lock' = p),
         UNCHANGED world, RestTyped',
         StartFits(p)', EndFits(p)', step \in Locked => lock' = p
  PROVE  LifeInv'
<1>1. LedgerTyped' /\ LedgerFits'
  BY QuietFits DEF ledger
<1>2. WorldTyped' /\ WorldGrows /\ RunsLand'
  BY WorldQuiet
<1>3. lock' \in Process \cup {Free}
  BY DEF LifeInv, TypeOK
<1>4. /\ ProcsTyped' /\ pc'[p] = step
      /\ \A q \in Process \ {p} : pc'[q] = pc[q] /\ view'[q] = view[q]
  BY <1>3, GotoOthers
<1>5. Bystanders({p})
  BY <1>4, LockedAlone DEF Bystanders, ledger
<1>6. ClaimsApart({p})
  BY <1>4 DEF ClaimsApart, Finishing
<1>7. Fits(p)'
  BY <1>4 DEF Fits, FinishFits, Finishing
<1>8. {p} \in SUBSET Process /\ (\A y, z \in {p} : y = z) /\ \A y \in {p} : Fits(y)'
  BY <1>7
<1> QED BY <1>1, <1>2, <1>4, <1>5, <1>6, <1>8, StepKeeps

LEMMA ReadsKeep ==
  ASSUME LifeInv, NEW p \in Process, SettleRead(p) \/ CloseRead(p)
  PROVE  LifeInv'
<1>1. PICK v : v = [row |-> row, claim |-> 0]
  OBVIOUS
<1>2. PICK step \in {"settle", "close"} : Goto(p, step, v)
  BY <1>1 DEF SettleRead, CloseRead
<1>3. /\ row \in Row /\ UNCHANGED <<row, latest, gens>> /\ UNCHANGED <<refs, lock, kills>>
      /\ UNCHANGED world
  BY DEF SettleRead, CloseRead, LifeInv, TypeOK, ledger
<1>4. v \in View /\ v.row = row
  BY <1>1, <1>3 DEF View
<1>5. step \in Steps /\ step \notin {"run", "wait"} /\ step \notin Locked
  BY <1>2 DEF Steps, Locked
<1>6. pc'[p] = step /\ view'[p] = v
  BY <1>2 DEF Goto, LifeInv, TypeOK
<1>7. StartFits(p)' /\ EndFits(p)'
  BY <1>2, <1>3, <1>4, <1>6 DEF StartFits, EndFits
<1> QED BY <1>2, <1>3, <1>4, <1>5, <1>7, RestQuiet, GoesOn

LEMMA StartCreateKeeps ==
  ASSUME LifeInv, NEW p \in Process, NEW b \in Branch, StartCreate(p, b)
  PROVE  LifeInv'
<1>1. PICK w : w = [gen |-> gens + 1, branch |-> b]
  OBVIOUS
<1>2. PICK v : v = [row |-> w, claim |-> 0]
  OBVIOUS
<1>3. /\ Unlocked /\ gens < MaxGens /\ Replaceable /\ lock' = p /\ Goto(p, "save", v)
      /\ refs' = [refs EXCEPT ![b] = @ \cup {"worktree", "local"}]
      /\ UNCHANGED <<row, latest, gens>> /\ UNCHANGED world /\ UNCHANGED kills
  BY <1>1, <1>2 DEF StartCreate, ledger
<1>4. w \in Row /\ w.gen = gens + 1
  BY <1>1, <1>3, LifecycleAssumption DEF Row, Gen, LifeInv, TypeOK
<1>5. v \in View /\ v.row = w
  BY <1>2, <1>4 DEF View
<1>6. RestTyped'
  BY <1>3 DEF RestTyped, LifeInv, TypeOK, Standing, Part
<1>7. "save" \in Steps /\ "save" \notin {"run", "wait"}
  BY DEF Steps
<1>8. pc'[p] = "save" /\ view'[p] = v
  BY <1>3 DEF Goto, LifeInv, TypeOK
<1>9. StartFits(p)' /\ EndFits(p)'
  BY <1>3, <1>4, <1>5, <1>8
     DEF StartFits, EndFits, Replaceable, Closed, ValidAbort, ValidDone, Binds
<1> QED BY <1>3, <1>5, <1>6, <1>7, <1>9, GoesOn

LEMMA DiscardRemoveKeeps ==
  ASSUME LifeInv, NEW p \in Process, DiscardRemove(p)
  PROVE  LifeInv'
<1>1. PICK left \in Standing : refs' = [refs EXCEPT ![view[p].row.branch] = left]
  BY DEF DiscardRemove
<1>2. /\ pc[p] = "remove" /\ Goto(p, "verify", view[p]) /\ UNCHANGED <<row, latest, gens>>
      /\ lock' = lock /\ UNCHANGED world /\ UNCHANGED kills
  BY DEF DiscardRemove, ledger
<1>3. /\ view[p].row = row /\ row \in Row /\ latest # NoReceipt /\ latest.status = "BLOCKED"
      /\ lock = p
  BY <1>2 DEF LifeInv, Fits, EndFits, Locked
<1>4. view[p] \in View \cup {NoView}
  BY DEF LifeInv, TypeOK
<1>5. RestTyped'
  BY <1>1, <1>2 DEF RestTyped, LifeInv, TypeOK
<1>6. "verify" \in Steps /\ "verify" \notin {"run", "wait"}
  BY DEF Steps
<1>7. pc'[p] = "verify" /\ view'[p] = view[p]
  BY <1>2 DEF Goto, LifeInv, TypeOK
<1>8. StartFits(p)' /\ EndFits(p)'
  BY <1>2, <1>3, <1>7 DEF StartFits, EndFits
<1> QED BY <1>2, <1>3, <1>4, <1>5, <1>6, <1>8, GoesOn

LEMMA DiscardIntentKeeps ==
  ASSUME LifeInv, NEW p \in Process, DiscardIntent(p)
  PROVE  LifeInv'
<1>1. PICK v : v = [row |-> row, claim |-> 0]
  OBVIOUS
<1>2. PICK r : r = About(row, "discard", "BLOCKED")
  OBVIOUS
<1>3. /\ Unlocked /\ row \in Row /\ Status # "FINISHING" /\ lock' = p /\ Goto(p, "remove", v)
      /\ Append(r) /\ UNCHANGED <<refs, kills>> /\ UNCHANGED world
  BY <1>1, <1>2 DEF DiscardIntent, DiscardRefused, LifeInv, TypeOK
<1>4. Reports(row, r) /\ r # NoReceipt /\ r.status = "BLOCKED"
  BY <1>2, <1>3, AboutTyped, Names, NoneAssumption DEF Reports
<1>5. v \in View \cup {NoView} /\ v.row = row
  BY <1>1, <1>3 DEF View
<1>6. "remove" \in Steps /\ lock' \in Process \cup {Free}
  BY <1>3 DEF Steps
<1>7. /\ ProcsTyped' /\ pc'[p] = "remove" /\ view'[p] = v
      /\ \A q \in Process \ {p} : pc'[q] = pc[q] /\ view'[q] = view[q]
  BY <1>3, <1>5, <1>6, GotoOthers
<1>8. LedgerTyped' /\ LedgerFits' /\ RestTyped'
  BY <1>3, <1>4, AppendFits, RestQuiet DEF Reports
<1>9. WorldTyped' /\ WorldGrows /\ RunsLand'
  BY <1>3, WorldQuiet
<1>10. Others({p})
  BY <1>3, <1>7, LockedAlone, NoClaimant DEF Others, world
<1>11. Bystanders({p}) /\ ClaimsApart({p})
  BY <1>7, <1>10, WriterFits DEF ClaimsApart, Finishing
<1>12. Fits(p)'
  BY <1>3, <1>4, <1>5, <1>7 DEF Append, Fits, StartFits, EndFits, FinishFits, Finishing
<1>13. {p} \in SUBSET Process /\ (\A y, z \in {p} : y = z) /\ \A y \in {p} : Fits(y)'
  BY <1>12
<1> QED BY <1>7, <1>8, <1>9, <1>11, <1>13, StepKeeps

\* No claimant that was not declared dead is at work on a row that may be
\* replaced.
LEMMA ReplaceableIsFree ==
  ASSUME LifeInv, Replaceable
  PROVE  \A q \in Process : Finishing(q) => view[q].claim \in declared
<1> SUFFICES ASSUME NEW q \in Process, Finishing(q), view[q].claim \notin declared
             PROVE  FALSE
  OBVIOUS
<1>1. row \in Row /\ view[q].claim \in Claim /\ latest = Claiming(row, view[q].claim)
  BY DEF LifeInv, Fits, FinishFits
<1>2. latest.status = "FINISHING"
  BY <1>1, ClaimsTyped
<1> QED BY <1>1, <1>2, NoneAssumption DEF Replaceable, Closed, ValidAbort, ValidDone

LEMMA StartSaveKeeps ==
  ASSUME LifeInv, NEW p \in Process, StartSave(p)
  PROVE  LifeInv'
<1>1. PICK w : w = view[p].row
  OBVIOUS
<1>2. /\ pc[p] = "save" /\ row' = w /\ gens' = w.gen /\ Goto(p, "receipt", view[p])
      /\ UNCHANGED latest /\ UNCHANGED <<refs, kills>> /\ lock' = lock /\ UNCHANGED world
  BY <1>1 DEF StartSave
<1>3. w \in Row /\ w.gen = gens + 1 /\ Replaceable /\ lock = p
  BY <1>1, <1>2 DEF LifeInv, Fits, StartFits, Locked
<1>4. /\ w # NoRow /\ w.gen \in Gen /\ gens \in Nat
      /\ latest # NoReceipt => latest.gen \in Nat /\ latest.gen <= gens /\ ~latest.partial
  <2>1. w # NoRow /\ w.gen \in Gen
    BY <1>3, NoneAssumption DEF Row
  <2>2. gens \in Nat /\ (latest # NoReceipt => latest.gen \in Nat)
    BY LifecycleAssumption DEF LifeInv, TypeOK, Gen, Receipt
  <2>3. latest # NoReceipt => latest.gen <= gens /\ ~latest.partial
    BY <1>3, NoneAssumption
       DEF LifeInv, LedgerFits, TypeOK, Replaceable, Closed, ValidAbort, ValidDone
  <2> QED BY <2>1, <2>2, <2>3
<1>5. LedgerTyped'
  BY <1>2, <1>3, <1>4 DEF LedgerTyped, LifeInv, TypeOK
<1>6. LedgerFits'
  BY <1>2, <1>3, <1>4 DEF LedgerFits, LifeInv
<1>7. RestTyped' /\ WorldTyped' /\ WorldGrows /\ RunsLand'
  BY <1>2, RestQuiet, WorldQuiet
<1>8. /\ "receipt" \in Steps /\ view[p] \in View \cup {NoView} /\ lock' \in Process \cup {Free}
  BY <1>2 DEF Steps, LifeInv, TypeOK
<1>9. /\ ProcsTyped' /\ pc'[p] = "receipt" /\ view'[p] = view[p]
      /\ \A q \in Process \ {p} : pc'[q] = pc[q] /\ view'[q] = view[q]
  BY <1>2, <1>8, GotoOthers
<1>10. Others({p})
  BY <1>2, <1>3, <1>9, LockedAlone, ReplaceableIsFree DEF Others, world, Locked
<1>11. Bystanders({p}) /\ ClaimsApart({p})
  BY <1>9, <1>10, WriterFits DEF ClaimsApart, Finishing
<1>12. Fits(p)'
  BY <1>1, <1>2, <1>3, <1>4, <1>9 DEF Fits, StartFits, EndFits, FinishFits, Finishing
<1>13. {p} \in SUBSET Process /\ (\A y, z \in {p} : y = z) /\ \A y \in {p} : Fits(y)'
  BY <1>12
<1> QED BY <1>5, <1>6, <1>7, <1>9, <1>11, <1>13, StepKeeps

LEMMA StartSaveFailsKeeps ==
  ASSUME LifeInv, NEW p \in Process, StartSaveFails(p)
  PROVE  LifeInv'
<1>1. PICK w : w = view[p].row
  OBVIOUS
<1>2. PICK r : r = Unnamed(w, "start", "BLOCKED")
  OBVIOUS
<1>3. /\ pc[p] = "save" /\ latest' = r /\ gens' = w.gen /\ Leave(p) /\ lock' = Free
      /\ UNCHANGED row /\ UNCHANGED <<refs, kills>> /\ UNCHANGED world
  BY <1>1, <1>2 DEF StartSaveFails
<1>4. w \in Row /\ w.gen = gens + 1 /\ Replaceable
  BY <1>1, <1>3 DEF LifeInv, Fits, StartFits
<1>5. r \in Receipt /\ r.gen = w.gen /\ ~r.partial /\ r.status = "BLOCKED"
  BY <1>2, <1>4, UnnamedTyped, Names DEF Reports
<1>6. w.gen \in Gen /\ gens \in Nat /\ (row # NoRow => row.gen \in Nat /\ row.gen <= gens)
  BY <1>4, LifecycleAssumption DEF LifeInv, TypeOK, LedgerFits, Row, Gen
<1>7. LedgerTyped'
  BY <1>3, <1>5, <1>6 DEF LedgerTyped, LifeInv, TypeOK
<1>8. LedgerFits'
  BY <1>3, <1>4, <1>5, <1>6 DEF LedgerFits
<1>9. RestTyped' /\ WorldTyped' /\ WorldGrows /\ RunsLand'
  BY <1>3, RestQuiet, WorldQuiet
<1>10. lock' \in Process \cup {Free}
  BY <1>3
<1>11. ProcsTyped' /\ ClaimsApart({p}) /\ Fits(p)'
  BY <1>3, <1>10, LeaveFits
<1>12. \A q \in Process \ {p} : pc'[q] = pc[q] /\ view'[q] = view[q]
  BY <1>3 DEF Leave, Goto, LifeInv, TypeOK
<1>13. Others({p})
  BY <1>3, <1>4, <1>12, LockedAlone, ReplaceableIsFree DEF Others, world, Locked
<1>14. Bystanders({p})
  BY <1>13, WriterFits
<1>15. {p} \in SUBSET Process /\ (\A y, z \in {p} : y = z) /\ \A y \in {p} : Fits(y)'
  BY <1>11
<1> QED BY <1>7, <1>8, <1>9, <1>11, <1>14, <1>15, StepKeeps

-----------------------------------------------------------------------------
(* The induction.                                                          *)

LEMMA LifeInvInit ==
  ASSUME Init
  PROVE  LifeInv
<1>1. TypeOK
  BY LifecycleAssumption
     DEF Init, TypeOK, Gen, Standing, Part, Steps, NoRun
<1>2. \A p \in Process : pc[p] = "idle" /\ Fits(p) /\ ~Finishing(p)
  BY DEF Init, Fits, StartFits, EndFits, FinishFits, Finishing, Locked
<1>3. OneClaimant
  BY <1>2 DEF OneClaimant
<1>4. LedgerFits /\ RunsLand
  BY DEF Init, LedgerFits, RunsLand, NoRun
<1> QED BY <1>1, <1>2, <1>3, <1>4 DEF LifeInv

LEMMA LifeInvStep ==
  ASSUME LifeInv, [Next]_vars
  PROVE  LifeInv'
<1>1. CASE UNCHANGED vars
  <2>1. UNCHANGED ledger /\ UNCHANGED procs /\ UNCHANGED world /\ UNCHANGED <<refs, kills>>
    BY <1>1 DEF vars, ledger, procs, world
  <2> QED BY <2>1, OutsideKeeps, WorldQuiet, RestQuiet
<1>2. ASSUME NEW p \in Process, Begin(p)
      PROVE  LifeInv'
  BY <1>2, StartCreateKeeps, FinishClaimKeeps, ReadsKeep, DiscardIntentKeeps DEF Begin
<1>3. ASSUME NEW p \in Process, Continue(p)
      PROVE  LifeInv'
  <2>1. CASE Settle(p) \/ Close(p)
    BY <2>1, EndRowKeeps DEF Settle, Close
  <2>2. CASE StartSave(p) \/ StartSaveFails(p) \/ StartReceipt(p)
    BY <2>2, StartSaveKeeps, StartSaveFailsKeeps, StartReceiptKeeps
  <2>3. CASE FinishRun(p) \/ FinishOutcome(p) \/ FinishGivesUp(p)
    BY <2>3, FinishRunKeeps, FinishOutcomeKeeps, FinishGivesUpKeeps
  <2>4. CASE DiscardRemove(p) \/ DiscardVerify(p) \/ DiscardFails(p)
    BY <2>4, DiscardRemoveKeeps, DiscardEndsKeeps
  <2> QED BY <1>3, <2>1, <2>2, <2>3, <2>4 DEF Continue
<1>4. CASE \E p \in Process : Kill(p)
  BY <1>4, KillKeeps
<1>5. CASE FinishRefuses \/ RecoverCleanup \/ DeclareClaimDead \/ Abort \/ DiscardResume
  BY <1>5, FinishRefusesKeeps, RecoverCleanupKeeps, DeclareClaimDeadKeeps, AbortKeeps,
     DiscardResumeKeeps
<1>6. CASE \E h \in Host : RecoverClaim(h)
  BY <1>6, RecoverClaimKeeps
<1>7. CASE \E n \in Claim : ProviderEnds(n)
  BY <1>7, ProviderEndsKeeps
<1>8. CASE \E b \in Branch : Push(b) \/ RemoveByHand(b)
  BY <1>8, HandsKeep
<1> QED BY <1>1, <1>2, <1>3, <1>4, <1>5, <1>6, <1>7, <1>8 DEF Next

LEMMA LifeInvAlways == Spec => []LifeInv
  BY LifeInvInit, LifeInvStep, PTL DEF Spec

-----------------------------------------------------------------------------
(* What the runs check, for every value of the constants.                  *)

\* The types hold, and no verb ends, replaces, recovers or claims an execution
\* while run-finish is at work on it without the lock, unless its owner declared
\* the claimant dead (finish.go, finish_claim.go, recover.go).
THEOREM LedgerConsistentAlways == Spec => []LedgerConsistent
<1>1. LifeInv => LedgerConsistent
  <2> SUFFICES ASSUME LifeInv PROVE LedgerConsistent
    OBVIOUS
  <2>1. TypeOK
    BY DEF LifeInv
  <2>2. ClaimHeld
    BY DEF LifeInv, Fits, FinishFits, ClaimHeld
  <2> QED BY <2>1, <2>2 DEF LedgerConsistent
<1> QED BY <1>1, LifeInvAlways, PTL

\* The steps that append a receipt.
LEMMA Appends ==
  ASSUME Next, latest' # latest
  PROVE  \/ FinishRefuses \/ RecoverCleanup \/ Abort \/ DiscardResume
         \/ DeclareClaimDead \/ \E h \in Host : RecoverClaim(h)
         \/ \E p \in Process :
              \/ FinishClaim(p) \/ FinishOutcome(p)
              \/ StartSaveFails(p) \/ StartReceipt(p)
              \/ \E op \in {"settle", "close"} :
                   CanEnd(view[p].row) /\ Append(About(view[p].row, op, "ABORTED"))
              \/ DiscardIntent(p) \/ DiscardVerify(p) \/ DiscardFails(p)
<1>1. ASSUME NEW p \in Process, Settle(p) \/ Close(p)
      PROVE  \E op \in {"settle", "close"} :
               CanEnd(view[p].row) /\ Append(About(view[p].row, op, "ABORTED"))
  BY <1>1 DEF Settle, Close, EndRow, ledger
<1>2. ASSUME NEW p \in Process, Begin(p)
      PROVE  FinishClaim(p) \/ DiscardIntent(p)
  BY <1>2 DEF Begin, StartCreate, SettleRead, CloseRead, ledger
<1>3. ASSUME NEW p \in Process, Continue(p)
      PROVE  \/ FinishOutcome(p) \/ StartSaveFails(p) \/ StartReceipt(p)
             \/ Settle(p) \/ Close(p) \/ DiscardVerify(p) \/ DiscardFails(p)
  BY <1>3 DEF Continue, StartSave, FinishRun, FinishGivesUp, DiscardRemove, ledger
<1>4. /\ ~\E p \in Process : Kill(p)
      /\ ~\E n \in Claim : ProviderEnds(n)
      /\ ~\E b \in Branch : Push(b) \/ RemoveByHand(b)
  BY DEF Kill, ProviderEnds, Push, RemoveByHand, ledger
<1> QED BY <1>1, <1>2, <1>3, <1>4 DEF Next

\* The status of the last receipt decides what may follow it.
LEMMA ClosedStatus ==
  ASSUME LifeInv, row # NoRow, Closed(row, latest)
  PROVE  /\ row \in Row /\ latest \in Receipt /\ latest # NoReceipt
         /\ latest.status \in {"DONE", "ABORTED"} /\ Status = latest.status
  BY DEF LifeInv, TypeOK, Closed, ValidAbort, ValidDone, Status

LEMMA TerminalStep ==
  ASSUME LifeInv, Next, row # NoRow, row' = row, Closed(row, latest), latest.gen = row.gen
  PROVE  \/ Closed(row, latest') \/ latest'.gen > row.gen
         \/ latest.status = "ABORTED" /\ latest'.op = "discard"
<1>1. /\ row \in Row /\ latest \in Receipt /\ latest # NoReceipt
      /\ latest.status \in {"DONE", "ABORTED"} /\ Status = latest.status
  BY ClosedStatus
<1>2. CASE latest' = latest
  BY <1>2
<1>3. CASE FinishRefuses \/ \E p \in Process : FinishClaim(p)
  BY <1>1, <1>3 DEF FinishRefuses, FinishClaim, FinishReady
<1>4. CASE \/ RecoverCleanup \/ Abort \/ DiscardResume \/ DeclareClaimDead
           \/ \E h \in Host : RecoverClaim(h)
  BY <1>1, <1>4 DEF RecoverCleanup, PartialCleanup, Abort, DiscardResume, DiscardIntended,
     DeclareClaimDead, RecoverClaim, CanRecoverClaim
<1>5. ASSUME NEW p \in Process, FinishOutcome(p)
      PROVE  FALSE
  <2>1. /\ view[p].row \in Row /\ view[p].claim \in Claim
        /\ latest = Claiming(view[p].row, view[p].claim)
    BY <1>5 DEF FinishOutcome, StillClaimed, Finishing, LifeInv, Fits, FinishFits
  <2>2. latest.status = "FINISHING"
    BY <2>1, ClaimsTyped
  <2> QED BY <1>1, <2>2
<1>6. ASSUME NEW p \in Process, StartSaveFails(p)
      PROVE  latest'.gen > row.gen
  <2>1. /\ view[p].row \in Row /\ view[p].row.gen = gens + 1
        /\ latest' = Unnamed(view[p].row, "start", "BLOCKED")
    BY <1>6 DEF StartSaveFails, LifeInv, Fits, StartFits
  <2>2. latest'.gen = gens + 1
    BY <2>1, UnnamedTyped, Names DEF Reports
  <2>3. row.gen \in Nat /\ gens \in Nat /\ row.gen <= gens
    BY <1>1 DEF LifeInv, LedgerFits, TypeOK, Row, Gen
  <2> QED BY <2>2, <2>3
<1>7. ASSUME NEW p \in Process, StartReceipt(p)
      PROVE  FALSE
  <2>1. latest.gen < row.gen
    BY <1>1, <1>7 DEF StartReceipt, LifeInv, Fits, StartFits
  <2> QED BY <1>1, <2>1 DEF Row, Gen
<1>8. ASSUME NEW p \in Process, CanEnd(view[p].row)
      PROVE  FALSE
  BY <1>1, <1>8 DEF CanEnd
<1>9. ASSUME NEW p \in Process, DiscardIntent(p)
      PROVE  latest.status = "ABORTED" /\ latest'.op = "discard"
  BY <1>1, <1>9 DEF DiscardIntent, DiscardRefused, Append, About
<1>10. ASSUME NEW p \in Process, DiscardVerify(p) \/ DiscardFails(p)
       PROVE  FALSE
  BY <1>1, <1>10 DEF DiscardVerify, DiscardFails, LifeInv, Fits, EndFits
<1> QED
  BY <1>2, <1>3, <1>4, <1>5, <1>6, <1>7, <1>8, <1>9, <1>10, Appends

\* An execution that is over stays over until the next run-start, except that
\* run-discard may take up an aborted one (finish.go:225-227: a competing
\* terminal action cannot be overwritten by a late provider result).
THEOREM TerminalStaysAlways == Spec => TerminalStays
<1>1. LifeInv /\ [Next]_vars =>
        [StaysClosed \/ (latest.status = "ABORTED" /\ latest'.op = "discard")]_vars
  BY TerminalStep DEF StaysClosed
<1> QED BY <1>1, LifeInvAlways, PTL DEF Spec, TerminalStays

LEMMA DoneStep ==
  ASSUME LifeInv, Next, latest' # latest, latest'.status = "DONE"
  PROVE  latest'.gen \in landed
<1>1. CASE RecoverCleanup
  <2>1. /\ row \in Row /\ latest # NoReceipt /\ latest.partial /\ latest.gen \in landed
        /\ latest' = Unnamed(row, "recover", "DONE")
    BY <1>1 DEF RecoverCleanup, PartialCleanup, Append, LifeInv, TypeOK
  <2>2. latest'.gen = row.gen
    BY <2>1, UnnamedTyped, Names DEF Reports
  <2> QED BY <2>1, <2>2 DEF LifeInv, LedgerFits
<1>2. ASSUME NEW p \in Process, FinishOutcome(p)
      PROVE  latest'.gen \in landed
  <2>1. PICK exit : exit = run[view[p].claim].state
    OBVIOUS
  <2>2. /\ view[p].row \in Row /\ view[p].claim \in Claim
        /\ run[view[p].claim].gen = view[p].row.gen
    BY <1>2 DEF FinishOutcome, Finishing, LifeInv, Fits, FinishFits
  <2>3. latest' \in Outcomes(view[p].row, exit)
    BY <1>2, <2>1 DEF FinishOutcome, Append
  <2>4. latest'.gen = view[p].row.gen
    BY <2>2, <2>3, OutcomesTyped DEF Reports
  <2>5. exit = "ok"
    BY <2>3 DEF Outcomes, About
  <2> QED BY <2>1, <2>2, <2>4, <2>5 DEF LifeInv, RunsLand
<1>3. CASE FinishRefuses \/ Abort \/ DiscardResume \/ DeclareClaimDead
           \/ \E h \in Host : RecoverClaim(h)
  BY <1>3 DEF FinishRefuses, Abort, DiscardResume, DiscardReceipt, DeclareClaimDead, RecoverClaim,
     Append, About
<1>4. ASSUME NEW p \in Process,
             \/ FinishClaim(p) \/ StartSaveFails(p) \/ StartReceipt(p)
             \/ \E op \in {"settle", "close"} :
                  CanEnd(view[p].row) /\ Append(About(view[p].row, op, "ABORTED"))
             \/ DiscardIntent(p) \/ DiscardVerify(p) \/ DiscardFails(p)
      PROVE  FALSE
  BY <1>4 DEF FinishClaim, Claiming, StartSaveFails, StartReceipt, Unnamed, DiscardIntent,
     DiscardVerify, DiscardFails, DiscardReceipt, Append, About
<1> QED BY <1>1, <1>2, <1>3, <1>4, Appends

\* A generation is recorded as DONE only if the provider landed its branch
\* (finish.go, recover.go).
THEOREM DoneMeansLandedAlways == Spec => DoneMeansLanded
<1>1. LifeInv /\ [Next]_vars =>
        [latest' # latest /\ latest'.status = "DONE" => latest'.gen \in landed]_vars
  BY DoneStep
<1> QED BY <1>1, LifeInvAlways, PTL DEF Spec, DoneMeansLanded

=============================================================================
