---------------------- MODULE BoardTransitions_proofs ----------------------
(***************************************************************************)
(* Proofs about claims and journaled transitions, for any number of        *)
(* processes, tasks, zones in use, requests, faults and editor's acts.     *)
(*                                                                         *)
(* The repository lock lets one command in at a time, so what is left to   *)
(* reason about is what a killed command leaves behind and what editors do *)
(* meanwhile.  Prepared is what stays true of a pending record from the    *)
(* moment its command prepared it until some retry completes it.           *)
(***************************************************************************)
EXTENDS BoardTransitions, FiniteSetTheorems, TLAPS

\* At most one command is past the repository lock, and the lock says so.
OneCommand ==
  /\ \A p \in Process : pc[p] # "idle" => common /\ cmd[p] \in Command
  /\ \A p, q \in Process : pc[p] # "idle" /\ pc[q] # "idle" => p = q

\* What a pending record relies on: its move is an edge of the workflow, its
\* claim stands, its task's files are in the two directories of the move, the
\* card it will publish has the body of the one it found, and the cards of the
\* prerequisites that were checked have not moved.
Prepared(rec) ==
  LET r == rec.req
  IN  /\ rec \in Record /\ rec.kind = "pending"
      /\ <<r.from, r.to>> \in Edge
      /\ HeldBy(r)
      /\ Found(r.task) \subseteq {r.from, r.to}
      /\ rec.patched.body = rec.original.body
      /\ r.to \in {"doing", "done"} =>
           \A d \in Deps[r.task] : d # r.task /\ Found(d) \subseteq {"done"}

\* The journal holds at most one such record, under its own identifier.
PendingFits ==
  /\ \A r, s \in Pending : r = s
  /\ \A r \in Pending : journal[r].req.id = r /\ Prepared(journal[r])

\* A command that prepared a record, or finishes one, holds that record.
CommandFits(p) ==
  LET r == cmd[p].req
  IN  /\ pc[p] = "journal" =>
           /\ cmd[p].op = "transition"
           /\ draft[p].req = r /\ Prepared(draft[p])
           /\ Pending = {} /\ journal[r.id] = NoRecord
           /\ Found(r.task) \subseteq {r.from}
      /\ pc[p] \in FinishSteps =>
           /\ cmd[p].op \in {"transition", "recover"}
           /\ r.id \in Pending /\ journal[r.id].req = r

\* What finishTransition has established at each of its steps, and what an
\* editor may have undone since.
FinishFits(p) ==
  LET r == cmd[p].req
  IN  /\ pc[p] = "link" => Found(r.task) \subseteq {r.from}
      /\ pc[p] \in {"recheckSource", "remove"} =>
           /\ files[r.task][r.to] = NoFile => edits > 0
           /\ ~raced => files[r.task][r.to] = journal[r.id].patched
      /\ pc[p] = "remove" /\ ~raced =>
           files[r.task][r.from] = journal[r.id].original
      /\ pc[p] = "complete" => Found(r.task) \subseteq {r.to}

\* Only the task of a pending record may have two files.
OneFile ==
  \A t \in Task :
    \/ \A y, z \in Found(t) : y = z
    \/ \E r \in Pending : journal[r].req.task = t

\* Tokens name one claim each, and a task has one holder.
ClaimsUnique ==
  \A c, k \in claims :
    (c.token = k.token \/ (c.task = k.task /\ c.status = "held" /\ k.status = "held"))
      => c = k

BoardInv ==
  /\ TypeOK
  /\ OneCommand
  /\ PendingFits
  /\ \A p \in Process : CommandFits(p) /\ FinishFits(p)
  /\ OneFile
  /\ ClaimsUnique

-----------------------------------------------------------------------------
(* Types and the lock.                                                     *)

\* What a command in a session carries.
LEMMA CommandTyped ==
  ASSUME BoardInv, NEW p \in Process, pc[p] # "idle"
  PROVE  /\ common
         /\ cmd[p].op \in {"claim", "claim-resume", "release"} =>
              /\ cmd[p].req \in ClaimRequest
              /\ cmd[p].req.task \in Task /\ cmd[p].req.owner \in Owner
              /\ cmd[p].req.token \in Token
         /\ cmd[p].op \in {"transition", "recover"} =>
              /\ cmd[p].req \in TransitionRequest
              /\ cmd[p].req.id \in RequestId /\ cmd[p].req.task \in Task
              /\ cmd[p].req.from \in Zone /\ cmd[p].req.to \in Zone
<1>1. common /\ cmd[p] \in Command
  BY DEF BoardInv, OneCommand
<1>2. \A r \in ClaimRequest : r.task \in Task /\ r.owner \in Owner /\ r.token \in Token
  BY RequestAssumption
<1>3. \A r \in TransitionRequest :
        r.id \in RequestId /\ r.task \in Task /\ r.from \in Zone /\ r.to \in Zone
  BY RequestAssumption
<1>4. cmd[p].op \in {"claim", "claim-resume", "release"} => cmd[p].req \in ClaimRequest
  BY <1>1 DEF Command
<1>5. cmd[p].op \in {"transition", "recover"} => cmd[p].req \in TransitionRequest
  BY <1>1 DEF Command
<1> QED BY <1>1, <1>2, <1>3, <1>4, <1>5

\* A pending record of the journal, or a prepared one.
LEMMA PreparedTyped ==
  ASSUME NEW rec, Prepared(rec)
  PROVE  /\ rec \in Record /\ rec \in [req : TransitionRequest, kind : {"pending"},
                                       original : Card, patched : Card]
         /\ rec.req \in TransitionRequest /\ rec.req.id \in RequestId
         /\ rec.req.task \in Task /\ rec.req.from \in Zone /\ rec.req.to \in Zone
         /\ rec.original \in Card /\ rec.patched \in Card
         /\ rec.original # NoFile /\ rec.patched # NoFile /\ rec # NoRecord
         /\ rec.req.from # rec.req.to
<1>1. rec \in [req : TransitionRequest, kind : {"pending"}, original : Card, patched : Card]
  BY DEF Prepared, Record
<1>2. rec.req \in TransitionRequest /\ rec.original \in Card /\ rec.patched \in Card
  BY <1>1
<1>3. rec.req.from # rec.req.to
  BY DEF Prepared, Edge
<1>4. rec \in Record
  BY DEF Prepared
<1> QED BY <1>1, <1>2, <1>3, <1>4, RequestAssumption

LEMMA OneCommandStep == ASSUME BoardInv, [Next]_vars PROVE OneCommand'
<1>1. TypeOK /\ OneCommand
  BY DEF BoardInv
<1> USE <1>1 DEF TypeOK, OneCommand
<1>2. ASSUME NEW p \in Process, NEW c \in Command, TakeCommon(p, c) PROVE OneCommand'
  BY <1>2 DEF TakeCommon, Goto
<1>3. ASSUME NEW p \in Process, pc[p] # "idle", NEW step, Goto(p, step),
             UNCHANGED <<common, cmd>>
      PROVE  OneCommand'
  BY <1>3 DEF Goto
<1>4. ASSUME NEW p \in Process, Step(p) PROVE OneCommand'
  <2>1. CASE CloseCommon(p)
    BY <2>1 DEF CloseCommon, Goto
  <2>2. CASE ~CloseCommon(p)
    <3>1. pc[p] # "idle" /\ UNCHANGED <<common, cmd>> /\ \E step : Goto(p, step)
      BY <1>4, <2>2
         DEF Step, TakeBoard, CloseBoard, ClaimCard, Release, Prepare,
             PublishPending, Resume, Refuse, Finish, LinkTarget, RecheckTarget,
             RecheckSource, RemoveSource, Complete, lockVars
    <3> QED BY <1>3, <3>1
  <2> QED BY <2>1, <2>2
<1>5. ASSUME NEW p \in Process, Fail(p) PROVE OneCommand'
  BY <1>3, <1>5 DEF Fail, lockVars, FinishSteps
<1>6. ASSUME NEW p \in Process, Kill(p) PROVE OneCommand'
  BY <1>6 DEF Kill, lockVars, Goto
<1>7. CASE ClearCommon
  BY <1>7 DEF ClearCommon, procVars
<1>8. CASE ClearBoard \/ Editor \/ UNCHANGED vars
  BY <1>8 DEF ClearBoard, Editor, Edit, Restore, lockVars, procVars, vars
<1> QED BY <1>2, <1>4, <1>5, <1>6, <1>7, <1>8 DEF Next, Operator

\* While one command is past the lock every other one is idle.
LEMMA OthersIdle ==
  ASSUME BoardInv, NEW p \in Process, pc[p] # "idle"
  PROVE  \A q \in Process \ {p} : pc[q] = "idle"
  BY DEF BoardInv, OneCommand

\* So after a step of it only its own record and place matter.
LEMMA ItsFitsOnly ==
  ASSUME BoardInv, NEW p \in Process, NEW step, Goto(p, step),
         pc[p] # "idle" \/ \A q \in Process : pc[q] = "idle",
         step \in {"journal"} \cup FinishSteps => CommandFits(p)' /\ FinishFits(p)'
  PROVE  \A q \in Process : CommandFits(q)' /\ FinishFits(q)'
<1>1. pc' = [pc EXCEPT ![p] = step] /\ pc \in [Process -> Steps]
  BY DEF Goto, BoardInv, TypeOK
<1>2. ASSUME NEW q \in Process, pc'[q] \notin {"journal"} \cup FinishSteps
      PROVE  CommandFits(q)' /\ FinishFits(q)'
  BY <1>2 DEF CommandFits, FinishFits, FinishSteps
<1>3. ASSUME NEW q \in Process, q # p PROVE pc'[q] = "idle"
  BY <1>1, <1>3, OthersIdle
<1>4. CommandFits(p)' /\ FinishFits(p)'
  BY <1>1, <1>2
<1> QED BY <1>2, <1>3, <1>4 DEF FinishSteps

\* A step that leaves the files, the journal and the claims alone.
LEMMA StoreKept ==
  ASSUME BoardInv, UNCHANGED storeVars
  PROVE  /\ PendingFits' /\ OneFile' /\ ClaimsUnique'
         /\ files' \in [Task -> [Zone -> Card \cup {NoFile}]]
         /\ journal' \in [RequestId -> Record \cup {NoRecord}]
         /\ claims' \subseteq ClaimRecord
<1> USE DEF storeVars, BoardInv
<1>1. PendingFits'
  BY DEF PendingFits, Prepared, Pending, Found, HeldBy
<1>2. OneFile' /\ ClaimsUnique'
  BY DEF OneFile, ClaimsUnique, Pending, Found
<1> QED BY <1>1, <1>2 DEF TypeOK

\* The same, with what a command does besides: it goes on to its next step.
LEMMA QuietStep ==
  ASSUME BoardInv, NEW p \in Process, NEW step \in Steps, Goto(p, step),
         UNCHANGED <<storeVars, edits, raced>>, faults' \in 0..MaxFaults,
         common' \in BOOLEAN, board' \in BOOLEAN,
         cmd' \in [Process -> Command \cup {NoCommand}],
         draft' \in [Process -> Record \cup {NoRecord}],
         pc[p] # "idle" \/ \A q \in Process : pc[q] = "idle",
         step \in {"journal"} \cup FinishSteps => CommandFits(p)' /\ FinishFits(p)',
         OneCommand'
  PROVE  BoardInv'
<1>1. \A q \in Process : CommandFits(q)' /\ FinishFits(q)'
  BY ItsFitsOnly
<1>2. TypeOK'
  BY StoreKept DEF TypeOK, Goto, BoardInv
<1> QED BY <1>1, <1>2, StoreKept DEF BoardInv

\* The locks, the refusals, the failures, and the steps that only look.
LEMMA LockSteps ==
  ASSUME BoardInv, [Next]_vars, NEW p \in Process,
         \/ \E c \in Command : TakeCommon(p, c)
         \/ TakeBoard(p) \/ CloseBoard(p) \/ CloseCommon(p)
         \/ Refuse(p) \/ Fail(p) \/ Kill(p)
  PROVE  BoardInv'
<1>1. TypeOK /\ OneCommand'
  BY OneCommandStep DEF BoardInv
<1> USE <1>1 DEF TypeOK, Steps, InSession, lockVars
<1>2. ASSUME NEW c \in Command, TakeCommon(p, c) PROVE BoardInv'
  <2>1. \A q \in Process : pc[q] = "idle"
    BY <1>2 DEF TakeCommon, BoardInv, OneCommand
  <2> QED BY <1>2, <2>1, QuietStep DEF TakeCommon, FinishSteps
<1>3. CASE TakeBoard(p)
  BY <1>3, QuietStep DEF TakeBoard, FinishSteps
<1>4. CASE CloseBoard(p) \/ Refuse(p)
  BY <1>4, QuietStep DEF CloseBoard, Refuse, FinishSteps
<1>5. CASE CloseCommon(p)
  BY <1>5, QuietStep DEF CloseCommon, FinishSteps
<1>6. CASE Fail(p)
  <2>1. faults' \in 0..MaxFaults
    BY <1>6, BoardAssumption DEF Fail
  <2>2. PICK step \in {"leaving", "closing"} : Goto(p, step)
    BY <1>6 DEF Fail
  <2> QED BY <1>6, <2>1, <2>2, QuietStep DEF Fail, FinishSteps
<1>7. CASE Kill(p)
  <2>1. faults' \in 0..MaxFaults
    BY <1>7, BoardAssumption DEF Kill
  <2> QED BY <1>7, <2>1, QuietStep DEF Kill, FinishSteps
<1> QED BY <1>2, <1>3, <1>4, <1>5, <1>6, <1>7

\* What the command of a finishing session is about.
LEMMA FinishFacts ==
  ASSUME BoardInv, NEW p \in Process, pc[p] \in FinishSteps
  PROVE  LET r == cmd[p].req
         IN  /\ pc[p] # "idle" /\ pc[p] # "journal"
             /\ cmd[p].op \in {"transition", "recover"}
             /\ Pending = {r.id} /\ journal[r.id].req = r
             /\ Prepared(journal[r.id])
             /\ r \in TransitionRequest /\ r.id \in RequestId /\ r.task \in Task
             /\ r.from \in Zone /\ r.to \in Zone /\ r.from # r.to
             /\ journal[r.id].original \in Card /\ journal[r.id].patched \in Card
<1>1. cmd[p].req.id \in Pending /\ journal[cmd[p].req.id].req = cmd[p].req
        /\ pc[p] # "idle" /\ pc[p] # "journal" /\ cmd[p].op \in {"transition", "recover"}
  BY DEF BoardInv, CommandFits, FinishSteps
<1>2. Pending = {cmd[p].req.id} /\ Prepared(journal[cmd[p].req.id])
  BY <1>1 DEF BoardInv, PendingFits
<1> QED BY <1>1, <1>2, PreparedTyped

\* finishTransition's steps that only look.
LEMMA LookSteps ==
  ASSUME BoardInv, [Next]_vars, NEW p \in Process,
         Finish(p) \/ RecheckTarget(p) \/ RecheckSource(p)
  PROVE  BoardInv'
<1> DEFINE r == cmd[p].req
<1>1. TypeOK /\ OneCommand'
  BY OneCommandStep DEF BoardInv
<1>2. pc[p] \in FinishSteps
  BY DEF Finish, RecheckTarget, RecheckSource, FinishSteps
<1>3. /\ pc[p] # "idle" /\ cmd[p].op \in {"transition", "recover"}
      /\ Pending = {r.id} /\ journal[r.id].req = r
      /\ Prepared(journal[r.id])
      /\ r.task \in Task /\ r.from \in Zone /\ r.to \in Zone
      /\ journal[r.id].original # NoFile /\ journal[r.id].patched # NoFile
  BY <1>2, FinishFacts, PreparedTyped
<1>4. Found(r.task) \subseteq {r.from, r.to}
  BY <1>3 DEF Prepared
<1>5. UNCHANGED <<files, journal, claims, common, board, cmd, draft, faults, edits, raced>>
  BY DEF Finish, RecheckTarget, RecheckSource, storeVars, lockVars
<1>6. UNCHANGED Pending /\ Found(r.task)' = Found(r.task)
  BY <1>5 DEF Pending, Found
<1>7. ASSUME NEW step \in FinishSteps \cup {"closing"}, Goto(p, step),
             step = "link" => files[r.task][r.to] = NoFile,
             step = "recheckSource" => files[r.task][r.to] = journal[r.id].patched,
             step = "remove" =>
               pc[p] = "recheckSource" /\ files[r.task][r.from] = journal[r.id].original,
             step = "complete" => files[r.task][r.from] = NoFile
      PROVE  BoardInv'
  <2>1. pc'[p] = step
    BY <1>1, <1>7 DEF Goto, TypeOK
  <2>2. CommandFits(p)'
    BY <1>3, <1>5, <1>6, <1>7, <2>1 DEF CommandFits, FinishSteps
  <2>3. step = "link" => Found(r.task) \subseteq {r.from}
    BY <1>3, <1>4, <1>7 DEF Found
  <2>4. step = "complete" => Found(r.task) \subseteq {r.to}
    BY <1>3, <1>4, <1>7 DEF Found
  <2>5. pc[p] = "recheckSource" =>
          /\ files[r.task][r.to] = NoFile => edits > 0
          /\ ~raced => files[r.task][r.to] = journal[r.id].patched
    BY DEF BoardInv, FinishFits
  <2>6. FinishFits(p)'
    BY <1>3, <1>5, <1>6, <1>7, <2>1, <2>3, <2>4, <2>5 DEF FinishFits
  <2>7. step \in Steps
    BY DEF Steps, InSession
  <2> QED
    BY <1>1, <1>3, <1>5, <1>7, <2>2, <2>6, <2>7, QuietStep DEF TypeOK, storeVars
<1>8. CASE Finish(p)
  BY <1>7, <1>8 DEF Finish, FinishSteps
<1>9. CASE RecheckTarget(p)
  BY <1>3, <1>7, <1>9 DEF RecheckTarget, Match, FinishSteps
<1>10. CASE RecheckSource(p)
  <2>1. \/ Goto(p, "remove") /\ files[r.task][r.from] = journal[r.id].original
        \/ Goto(p, "complete") /\ files[r.task][r.from] = NoFile
        \/ Goto(p, "closing")
    BY <1>10 DEF RecheckSource, Match
  <2> QED BY <1>7, <1>10, <2>1 DEF RecheckSource, FinishSteps
<1> QED BY <1>8, <1>9, <1>10

\* Claims are taken and given back only while no transition is pending.
LEMMA ClaimSteps ==
  ASSUME BoardInv, [Next]_vars, NEW p \in Process, ClaimCard(p) \/ Release(p)
  PROVE  BoardInv'
<1> DEFINE c == cmd[p].req
           new == [task |-> c.task, owner |-> c.owner, token |-> c.token,
                   status |-> "held"]
<1>1. TypeOK /\ OneCommand' /\ ClaimsUnique /\ claims \subseteq ClaimRecord
  BY OneCommandStep DEF BoardInv, TypeOK
<1>2. /\ pc[p] = "open" /\ Goto(p, "closing") /\ Pending = {}
      /\ UNCHANGED <<files, journal, common, board, cmd, draft, faults, edits, raced>>
  BY DEF ClaimCard, Release, CanClaim, CanClaimResume, FreshClaim, CanRelease,
         BoardLoads, lockVars
<1>3. c.task \in Task /\ c.owner \in Owner /\ c.token \in Token
  <2>1. cmd[p].op \in {"claim", "claim-resume", "release"}
    BY DEF ClaimCard, Release
  <2> QED BY <1>2, <2>1, CommandTyped
<1>4. claims' \subseteq ClaimRecord /\ ClaimsUnique'
  <2>1. CASE ClaimCard(p)
    <3>1. claims' = claims \cup {new}
      BY <2>1 DEF ClaimCard
    <3>2. new \in ClaimRecord
      BY <1>3 DEF ClaimRecord
    <3>3. \A k \in claims : k.token # c.token /\ ~(k.task = c.task /\ k.status = "held")
      BY <2>1 DEF ClaimCard, CanClaim, CanClaimResume, FreshClaim, Held
    <3>4. \A k \in claims : k.token # new.token /\ ~(k.task = new.task /\ k.status = "held")
      BY <3>3
    <3> HIDE DEF new
    <3> QED BY <1>1, <3>1, <3>2, <3>4 DEF ClaimsUnique
  <2>2. CASE Release(p)
    <3> DEFINE f(k) == IF k.token = c.token THEN [k EXCEPT !.status = "released"] ELSE k
    <3>1. claims' = {f(k) : k \in claims}
      BY <2>2 DEF Release
    <3>2. \A k \in claims :
            /\ f(k) \in ClaimRecord /\ f(k).token = k.token /\ f(k).task = k.task
            /\ f(k).status = "held" => k.status = "held"
      BY <1>1 DEF ClaimRecord
    <3> HIDE DEF f
    <3> QED BY <1>1, <3>1, <3>2 DEF ClaimsUnique
  <2> QED BY <2>1, <2>2
<1>5. PendingFits' /\ OneFile'
  BY <1>2 DEF BoardInv, PendingFits, OneFile, Pending, Found
<1>6. \A q \in Process : CommandFits(q)' /\ FinishFits(q)'
  BY <1>2, ItsFitsOnly DEF FinishSteps
<1>7. TypeOK'
  BY <1>1, <1>2, <1>4 DEF TypeOK, Goto, Steps, InSession
<1> QED BY <1>1, <1>4, <1>5, <1>6, <1>7 DEF BoardInv

\* A command prepares its record, or finds the pending one that is its own.
LEMMA BeginSteps ==
  ASSUME BoardInv, [Next]_vars, NEW p \in Process, Prepare(p) \/ Resume(p)
  PROVE  BoardInv'
<1> DEFINE r == cmd[p].req
<1>1. TypeOK /\ OneCommand'
  BY OneCommandStep DEF BoardInv
<1>2. /\ pc[p] = "open" /\ cmd[p].op \in {"transition", "recover"}
      /\ UNCHANGED <<files, journal, claims, common, board, cmd, faults, edits, raced>>
      /\ UNCHANGED Pending /\ Found(r.task)' = Found(r.task)
  BY DEF Prepare, Resume, storeVars, lockVars, Pending, Found
<1>3. r \in TransitionRequest /\ r.task \in Task /\ r.from \in Zone /\ r.to \in Zone
  BY <1>2, CommandTyped
<1>4. CASE Resume(p)
  <2>1. Goto(p, "finish") /\ Pending = {r.id} /\ journal[r.id].req = r /\ draft' = draft
    BY <1>4 DEF Resume, CanFinish
  <2>2. CommandFits(p)' /\ FinishFits(p)'
    BY <1>1, <1>2, <2>1 DEF CommandFits, FinishFits, Goto, TypeOK, FinishSteps
  <2> QED
    BY <1>1, <1>2, <2>1, <2>2, QuietStep
       DEF TypeOK, storeVars, Steps, InSession, FinishSteps
<1>5. CASE Prepare(p)
  <2> DEFINE card == files[r.task][r.from]
             rec == [req |-> r, kind |-> "pending", original |-> card,
                     patched |-> [card EXCEPT !.status = r.to]]
  <2>1. /\ Goto(p, "journal") /\ draft' = [draft EXCEPT ![p] = rec]
        /\ cmd[p].op = "transition" /\ CanPrepare(r)
    BY <1>5 DEF Prepare
  <2>2. /\ Pending = {} /\ journal[r.id] = NoRecord /\ <<r.from, r.to>> \in Edge
        /\ HeldBy(r) /\ r.from \in Found(r.task)
        /\ r.to \in {"doing", "done"} => \A d \in Deps[r.task] : "done" \in Found(d)
    BY <1>3, <2>1 DEF CanPrepare, BoardLoads, DepsDone, Found, Zone
  <2>3. \A t \in Task : \A y, z \in Found(t) : y = z
    BY <2>2 DEF BoardInv, OneFile
  <2>4. Found(r.task) \subseteq {r.from}
    BY <1>3, <2>2, <2>3
  <2>5. card \in Card /\ [card EXCEPT !.status = r.to] \in Card
          /\ [card EXCEPT !.status = r.to].body = card.body
    BY <1>1, <1>3, <2>2 DEF TypeOK, Found, Card
  <2>6. rec \in Record /\ rec.kind = "pending" /\ rec.req = r
          /\ rec.patched.body = rec.original.body
    BY <1>3, <2>5 DEF Record
  <2> HIDE DEF rec, card
  <2>7. r.to \in {"doing", "done"} =>
          \A d \in Deps[r.task] : d # r.task /\ Found(d) \subseteq {"done"}
    <3> SUFFICES ASSUME r.to \in {"doing", "done"}, NEW d \in Deps[r.task]
                 PROVE  d # r.task /\ Found(d) \subseteq {"done"}
      OBVIOUS
    <3>1. "done" \in Found(d) /\ d \in Task
      BY <1>3, <2>2, BoardAssumption
    <3>2. r.from # "done"
      BY <2>2 DEF Edge
    <3> QED BY <2>3, <2>4, <3>1, <3>2
  <2>8. Prepared(rec)
    BY <2>2, <2>4, <2>6, <2>7 DEF Prepared
  <2>9. pc'[p] = "journal" /\ draft'[p] = rec
          /\ draft' \in [Process -> Record \cup {NoRecord}]
    BY <1>1, <2>1, <2>6 DEF TypeOK, Goto
  <2>10. Prepared(draft[p])'
    BY <1>2, <2>8, <2>9 DEF Prepared, Found, HeldBy
  <2>11. CommandFits(p)'
    BY <1>2, <2>1, <2>2, <2>4, <2>6, <2>9, <2>10 DEF CommandFits, FinishSteps
  <2>12. FinishFits(p)'
    BY <2>9 DEF FinishFits
  <2> QED
    BY <1>1, <1>2, <2>1, <2>9, <2>11, <2>12, QuietStep
       DEF TypeOK, storeVars, Steps, InSession
<1> QED BY <1>4, <1>5

\* A prepared record stays prepared while its claim stands and files come and
\* go only in the two directories of its move.
LEMMA PreparedKept ==
  ASSUME NEW rec, Prepared(rec), UNCHANGED claims,
         \A t \in Task : t # rec.req.task => Found(t)' \subseteq Found(t),
         Found(rec.req.task)' \subseteq {rec.req.from, rec.req.to}
  PROVE  LET r == rec.req
         IN  /\ rec \in Record /\ rec.kind = "pending"
             /\ <<r.from, r.to>> \in Edge
             /\ HeldBy(r)'
             /\ Found(r.task)' \subseteq {r.from, r.to}
             /\ rec.patched.body = rec.original.body
             /\ r.to \in {"doing", "done"} =>
                  \A d \in Deps[r.task] : d # r.task /\ Found(d)' \subseteq {"done"}
<1>1. \A d \in Deps[rec.req.task] : d \in Task
  BY PreparedTyped, BoardAssumption
<1>2. HeldBy(rec.req)'
  BY DEF Prepared, HeldBy
<1> QED BY <1>1, <1>2 DEF Prepared

\* The journal is published, and the completed record replaces the pending one.
LEMMA JournalSteps ==
  ASSUME BoardInv, [Next]_vars, NEW p \in Process, PublishPending(p) \/ Complete(p)
  PROVE  BoardInv'
<1> DEFINE r == cmd[p].req
<1>1. TypeOK /\ OneCommand'
  BY OneCommandStep DEF BoardInv
<1>2. /\ UNCHANGED <<files, claims, common, board, cmd, draft, faults, edits, raced>>
      /\ \A t : Found(t)' = Found(t)
  BY DEF PublishPending, Complete, lockVars, Found
<1>3. ClaimsUnique'
  BY <1>2 DEF BoardInv, ClaimsUnique
<1>4. CASE PublishPending(p)
  <2>1. pc[p] = "journal" /\ Goto(p, "finish")
    BY <1>4 DEF PublishPending
  <2>2. /\ draft[p].req = r /\ Prepared(draft[p]) /\ Pending = {}
        /\ cmd[p].op = "transition" /\ journal[r.id] = NoRecord
    BY <2>1 DEF BoardInv, CommandFits
  <2>3. draft[p] \in Record /\ draft[p] # NoRecord /\ r.id \in RequestId
          /\ draft[p].kind = "pending"
    BY <2>2, PreparedTyped
  <2>4. /\ journal' = [journal EXCEPT ![r.id] = draft[p]]
        /\ journal' \in [RequestId -> Record \cup {NoRecord}]
        /\ journal'[r.id] = draft[p]
    BY <1>1, <1>4, <2>2, <2>3 DEF PublishPending, TypeOK
  <2>5. Pending' = {r.id}
    BY <1>1, <2>2, <2>3, <2>4 DEF Pending, TypeOK
  <2>6. PendingFits'
    BY <1>2, <2>2, <2>4, <2>5 DEF PendingFits, Prepared, HeldBy
  <2>7. OneFile'
    BY <1>2, <2>2 DEF BoardInv, OneFile
  <2>8. CommandFits(p)' /\ FinishFits(p)'
    BY <1>1, <1>2, <2>1, <2>2, <2>4, <2>5
       DEF CommandFits, FinishFits, Goto, TypeOK, FinishSteps
  <2>9. \A q \in Process : CommandFits(q)' /\ FinishFits(q)'
    BY <2>1, <2>8, ItsFitsOnly
  <2>10. TypeOK'
    BY <1>1, <1>2, <2>1, <2>4 DEF TypeOK, Goto, Steps, InSession, FinishSteps
  <2> QED BY <1>1, <1>3, <2>6, <2>7, <2>9, <2>10 DEF BoardInv
<1>5. CASE Complete(p)
  <2> DEFINE rec == [req |-> r, kind |-> "completed"]
  <2>1. pc[p] = "complete" /\ Goto(p, "closing") /\ pc[p] \in FinishSteps
    BY <1>5 DEF Complete, FinishSteps
  <2>2. /\ Pending = {r.id} /\ journal[r.id].req = r
        /\ r \in TransitionRequest /\ r.id \in RequestId
    BY <2>1, FinishFacts
  <2>3. Found(r.task) \subseteq {r.to}
    BY <2>1 DEF BoardInv, FinishFits
  <2>4. rec \in Record /\ rec.kind # "pending"
    BY <2>2 DEF Record
  <2>5. /\ journal' = [journal EXCEPT ![r.id] = rec]
        /\ journal' \in [RequestId -> Record \cup {NoRecord}]
    BY <1>1, <1>5, <2>2, <2>4 DEF Complete, TypeOK
  <2> HIDE DEF rec
  <2>6. Pending' = {}
    BY <1>1, <2>2, <2>4, <2>5 DEF Pending, TypeOK
  <2>7. OneFile'
    BY <1>2, <2>2, <2>3 DEF BoardInv, OneFile
  <2>8. \A q \in Process : CommandFits(q)' /\ FinishFits(q)'
    BY <2>1, ItsFitsOnly DEF FinishSteps
  <2>9. TypeOK'
    BY <1>1, <1>2, <2>1, <2>5 DEF TypeOK, Goto, Steps, InSession
  <2> QED BY <1>1, <1>3, <2>6, <2>7, <2>8, <2>9 DEF BoardInv, PendingFits
<1> QED BY <1>4, <1>5

\* One file of one task is written or removed.
LEMMA OneFileChanged ==
  ASSUME TypeOK, NEW t \in Task, NEW z \in Zone, NEW card \in Card \cup {NoFile},
         files' = [files EXCEPT ![t][z] = card]
  PROVE  /\ files' \in [Task -> [Zone -> Card \cup {NoFile}]]
         /\ files'[t][z] = card
         /\ \A y \in Zone : y # z => files'[t][y] = files[t][y]
         /\ \A u \in Task : u # t => files'[u] = files[u] /\ Found(u)' = Found(u)
         /\ Found(t)' \subseteq Found(t) \cup {z}
         /\ card = NoFile => Found(t)' = Found(t) \ {z}
<1>1. files \in [Task -> [Zone -> Card \cup {NoFile}]]
  BY DEF TypeOK
<1>2. files[t] \in [Zone -> Card \cup {NoFile}]
  BY <1>1
<1>3. files' = [files EXCEPT ![t] = [files[t] EXCEPT ![z] = card]]
  BY <1>1
<1>4. files'[t] = [files[t] EXCEPT ![z] = card]
  BY <1>1, <1>3
<1>5. \A u \in Task : u # t => files'[u] = files[u]
  BY <1>1, <1>3
<1>6. files'[t][z] = card /\ \A y \in Zone : y # z => files'[t][y] = files[t][y]
  BY <1>2, <1>4
<1>7. files' \in [Task -> [Zone -> Card \cup {NoFile}]]
  BY <1>1, <1>2, <1>3
<1>8. \A u \in Task : u # t => Found(u)' = Found(u)
  BY <1>5 DEF Found
<1>9. Found(t)' \subseteq Found(t) \cup {z} /\ (card = NoFile => Found(t)' = Found(t) \ {z})
  BY <1>6 DEF Found
<1> QED BY <1>5, <1>6, <1>7, <1>8, <1>9

\* The target is linked, the source removed.
LEMMA FileSteps ==
  ASSUME BoardInv, [Next]_vars, NEW p \in Process, LinkTarget(p) \/ RemoveSource(p)
  PROVE  BoardInv'
<1>0. PICK r : r = cmd[p].req
  OBVIOUS
<1> DEFINE rec == journal[r.id]
<1>1. TypeOK /\ OneCommand'
  BY OneCommandStep DEF BoardInv
<1>2. /\ UNCHANGED <<journal, claims, common, board, cmd, draft, faults, edits, raced>>
      /\ pc[p] \in FinishSteps
  BY DEF LinkTarget, RemoveSource, lockVars, FinishSteps
<1>3. /\ pc[p] # "idle" /\ cmd[p].op \in {"transition", "recover"}
      /\ Pending = {r.id} /\ rec.req = r /\ Prepared(rec)
      /\ r.task \in Task /\ r.from \in Zone /\ r.to \in Zone /\ r.from # r.to
      /\ rec.patched \in Card /\ rec.patched # NoFile
  BY <1>0, <1>2, FinishFacts, PreparedTyped
<1>4. Pending' = Pending
  BY <1>2 DEF Pending
\* Enough: the task's files stay in the two directories, and the next step fits.
<1>5. ASSUME NEW z \in {r.from, r.to}, NEW card \in Card \cup {NoFile},
             files' = [files EXCEPT ![r.task][z] = card],
             NEW step \in {"recheckTarget", "complete"}, Goto(p, step),
             step = "complete" => Found(r.task)' \subseteq {r.to}
      PROVE  BoardInv'
  <2>1. files' \in [Task -> [Zone -> Card \cup {NoFile}]]
    BY <1>1, <1>3, <1>5, OneFileChanged
  <2>2. \A t \in Task : t # r.task => Found(t)' = Found(t)
    <3>1. \A t \in Task : t # r.task => files'[t] = files[t]
      BY <1>1, <1>3, <1>5, OneFileChanged
    <3> QED BY <3>1 DEF Found
  <2>3. Found(r.task)' \subseteq Found(r.task) \cup {z}
    BY <1>1, <1>3, <1>5, OneFileChanged
  <2>4. Found(r.task)' \subseteq {r.from, r.to}
    BY <1>3, <1>5, <2>3 DEF Prepared
  <2>5. PendingFits'
    <3>1. \A s \in Pending : s = r.id /\ journal'[s] = rec
      BY <1>2, <1>3
    <3>2. rec.req.id = r.id
      BY <1>3
    <3> HIDE DEF rec
    <3> QED
      BY <1>2, <1>3, <1>4, <2>2, <2>4, <3>1, <3>2, PreparedKept
         DEF PendingFits, Prepared
  <2>6. OneFile'
    BY <1>2, <1>3, <1>4, <2>2 DEF BoardInv, OneFile
  <2>7. ClaimsUnique'
    BY <1>2 DEF BoardInv, ClaimsUnique
  <2>8. pc'[p] = step
    BY <1>1, <1>5 DEF Goto, TypeOK
  <2>9. CommandFits(p)' /\ FinishFits(p)'
    BY <1>0, <1>2, <1>3, <1>4, <1>5, <2>8 DEF CommandFits, FinishFits, FinishSteps
  <2>10. \A q \in Process : CommandFits(q)' /\ FinishFits(q)'
    BY <1>3, <1>5, <2>9, ItsFitsOnly
  <2>11. TypeOK'
    BY <1>1, <1>2, <1>5, <2>1 DEF TypeOK, Goto, Steps, InSession, FinishSteps
  <2> QED BY <1>1, <2>5, <2>6, <2>7, <2>10, <2>11 DEF BoardInv
<1>6. ASSUME UNCHANGED files, Goto(p, "closing") PROVE BoardInv'
  BY <1>1, <1>2, <1>3, <1>6, QuietStep
     DEF TypeOK, storeVars, Steps, InSession, FinishSteps
<1>7. CASE LinkTarget(p)
  BY <1>0, <1>3, <1>5, <1>6, <1>7 DEF LinkTarget
<1>8. CASE RemoveSource(p)
  <2>1. ASSUME files' = [files EXCEPT ![r.task][r.from] = NoFile], Goto(p, "complete")
        PROVE  BoardInv'
    <3>1. Found(r.task)' \subseteq Found(r.task) \ {r.from}
      <4>1. /\ files'[r.task][r.from] = NoFile
            /\ \A y \in Zone : y # r.from => files'[r.task][y] = files[r.task][y]
        <5>1. files' = [files EXCEPT ![r.task] = [files[r.task] EXCEPT ![r.from] = NoFile]]
          BY <2>1
        <5>2. files'[r.task] = [files[r.task] EXCEPT ![r.from] = NoFile]
          BY <1>1, <1>3, <5>1 DEF TypeOK
        <5>3. files[r.task] \in [Zone -> Card \cup {NoFile}]
          BY <1>1, <1>3 DEF TypeOK
        <5> QED BY <1>3, <5>2, <5>3
      <4> QED BY <4>1 DEF Found
    <3>2. Found(r.task) \subseteq {r.from, r.to}
      BY <1>3 DEF Prepared
    <3>3. Found(r.task)' \subseteq {r.to}
      BY <3>1, <3>2
    <3> QED BY <1>5, <2>1, <3>3
  <2> QED BY <1>0, <1>6, <1>8, <2>1 DEF RemoveSource
<1> QED BY <1>7, <1>8

\* What the operator clears.
LEMMA OperatorSteps == ASSUME BoardInv, [Next]_vars, Operator PROVE BoardInv'
<1>1. TypeOK /\ OneCommand'
  BY OneCommandStep DEF BoardInv
<1>2. UNCHANGED <<files, journal, claims, pc, cmd, draft, faults, edits, raced>>
        /\ common' \in BOOLEAN /\ board' \in BOOLEAN
  BY <1>1 DEF Operator, ClearCommon, ClearBoard, storeVars, procVars, TypeOK
<1>3. \A q \in Process : CommandFits(q)' /\ FinishFits(q)'
  BY <1>2 DEF BoardInv, CommandFits, FinishFits, Pending, Prepared, Found, HeldBy
<1>4. TypeOK'
  BY <1>1, <1>2 DEF TypeOK
<1> QED BY <1>1, <1>2, <1>3, <1>4, StoreKept DEF BoardInv, storeVars

\* An editor changes or removes a file.
LEMMA EditStep ==
  ASSUME BoardInv, [Next]_vars, NEW t \in Task, NEW z \in Zone, Edit(t, z)
  PROVE  BoardInv'
<1>1. TypeOK /\ OneCommand'
  BY OneCommandStep DEF BoardInv
<1>2. /\ UNCHANGED <<journal, claims, common, board, pc, cmd, draft, faults>>
      /\ edits < MaxEdits /\ files[t][z] # NoFile /\ edits' = edits + 1
      /\ raced' = (raced \/ \E p \in Process : pc[p] \in {"recheckSource", "remove"})
  BY DEF Edit, lockVars, procVars
<1>3. edits \in Nat /\ edits' \in 0..MaxEdits /\ edits' > 0
  BY <1>1, <1>2, BoardAssumption DEF TypeOK
<1>4. PICK card \in Card \cup {NoFile} : files' = [files EXCEPT ![t][z] = card]
  <2>1. files[t][z] \in Card
    BY <1>1, <1>2 DEF TypeOK
  <2>2. [files[t][z] EXCEPT !.body = edits + 1] \in Card
    BY <1>2, <1>3, <2>1 DEF Card
  <2>3. \/ files' = [files EXCEPT ![t][z] = [files[t][z] EXCEPT !.body = edits + 1]]
        \/ files' = [files EXCEPT ![t][z] = NoFile]
    BY DEF Edit
  <2> QED BY <2>2, <2>3
<1>5. /\ files' \in [Task -> [Zone -> Card \cup {NoFile}]]
      /\ \A u \in Task : u # t => files'[u] = files[u]
      /\ \A y \in Zone : y # z => files'[t][y] = files[t][y]
  BY <1>1, <1>4, OneFileChanged
<1>6. \A u \in Task : Found(u)' \subseteq Found(u)
  BY <1>2, <1>5 DEF Found
<1>7. Pending' = Pending
  BY <1>2 DEF Pending
<1>8. ASSUME NEW rec, Prepared(rec) PROVE Prepared(rec)'
  <2>1. Found(rec.req.task) \subseteq {rec.req.from, rec.req.to} /\ rec.req.task \in Task
    BY <1>8, PreparedTyped DEF Prepared
  <2>2. Found(rec.req.task)' \subseteq {rec.req.from, rec.req.to}
    BY <1>6, <2>1
  <2>3. \A u \in Task : u # rec.req.task => Found(u)' \subseteq Found(u)
    BY <1>6
  <2>4. UNCHANGED claims
    BY <1>2
  <2> QED BY <1>8, <2>2, <2>3, <2>4, PreparedKept DEF Prepared
<1>9. PendingFits'
  <2>1. \A r \in Pending : journal'[r] = journal[r] /\ Prepared(journal[r])
    BY <1>2 DEF BoardInv, PendingFits
  <2>2. \A r \in Pending : Prepared(journal[r])'
    BY <1>2, <1>8, <2>1
  <2> QED BY <1>2, <1>7, <2>1, <2>2 DEF BoardInv, PendingFits
<1>10. OneFile'
  BY <1>2, <1>6, <1>7 DEF BoardInv, OneFile
<1>11. ASSUME NEW q \in Process PROVE CommandFits(q)' /\ FinishFits(q)'
  <2>1. PICK r : r = cmd[q].req
    OBVIOUS
  <2>2. CommandFits(q) /\ FinishFits(q)
    BY DEF BoardInv
  <2>3. CommandFits(q)'
    <3>1. CASE pc[q] = "journal"
      <4>1. /\ cmd[q].op = "transition" /\ draft[q].req = r /\ Prepared(draft[q])
            /\ Pending = {} /\ journal[r.id] = NoRecord
            /\ Found(r.task) \subseteq {r.from}
        BY <2>1, <2>2, <3>1 DEF CommandFits
      <4>2. r.task \in Task
        BY <4>1, PreparedTyped
      <4>3. Prepared(draft[q])'
        BY <1>2, <1>8, <4>1 DEF Prepared
      <4>4. Found(r.task)' \subseteq {r.from}
        BY <1>6, <4>1, <4>2
      <4> QED BY <1>2, <1>7, <2>1, <3>1, <4>1, <4>3, <4>4 DEF CommandFits, FinishSteps
    <3>2. CASE pc[q] # "journal"
      BY <1>2, <1>7, <2>2, <3>2 DEF CommandFits
    <3> QED BY <3>1, <3>2
  <2>4. FinishFits(q)'
    <3>1. CASE pc[q] \in {"recheckSource", "remove"}
      <4>1. raced'
        BY <1>2, <3>1
      <4> QED BY <1>2, <1>3, <3>1, <4>1 DEF FinishFits
    <3>2. CASE pc[q] \in {"link", "complete"}
      <4>1. r.task \in Task
        BY <2>1, <3>2, FinishFacts DEF FinishSteps
      <4>2. Found(r.task)' \subseteq Found(r.task)
        BY <1>6, <4>1
      <4> QED BY <1>2, <2>1, <2>2, <3>2, <4>2 DEF FinishFits
    <3>3. CASE pc[q] \notin {"link", "recheckSource", "remove", "complete"}
      BY <1>2, <3>3 DEF FinishFits
    <3> QED BY <3>1, <3>2, <3>3
  <2> QED BY <2>3, <2>4
<1>12. TypeOK'
  BY <1>1, <1>2, <1>3, <1>5 DEF TypeOK
<1> QED BY <1>1, <1>2, <1>9, <1>10, <1>11, <1>12 DEF BoardInv, ClaimsUnique

\* An editor puts an image of the pending record back.
LEMMA RestoreStep ==
  ASSUME BoardInv, [Next]_vars, NEW id \in RequestId, Restore(id)
  PROVE  BoardInv'
<1>1. TypeOK /\ OneCommand'
  BY OneCommandStep DEF BoardInv
<1>2. /\ UNCHANGED <<journal, claims, common, board, pc, cmd, draft, faults, raced>>
      /\ edits < MaxEdits /\ edits' = edits + 1 /\ id \in Pending
      /\ \A p \in Process : pc[p] \notin InSession
  BY DEF Restore, lockVars, procVars
<1>3. edits' \in 0..MaxEdits
  BY <1>1, <1>2, BoardAssumption DEF TypeOK
<1>4. PICK rec : rec = journal[id]
  OBVIOUS
<1>5. /\ Pending = {id} /\ Prepared(rec) /\ rec.req.id = id
      /\ rec.req.task \in Task /\ rec.req.from \in Zone /\ rec.req.to \in Zone
      /\ rec.original \in Card /\ rec.patched \in Card
  BY <1>2, <1>4, PreparedTyped DEF BoardInv, PendingFits
<1>6. PICK z \in {rec.req.from, rec.req.to}, card \in Card :
        files' = [files EXCEPT ![rec.req.task][z] = card]
  <2>1. \/ files' = [files EXCEPT ![rec.req.task][rec.req.from] = rec.original]
        \/ files' = [files EXCEPT ![rec.req.task][rec.req.to] = rec.patched]
    BY <1>4 DEF Restore
  <2> QED BY <1>5, <2>1
<1>7. /\ files' \in [Task -> [Zone -> Card \cup {NoFile}]]
      /\ \A u \in Task : u # rec.req.task => files'[u] = files[u]
      /\ Found(rec.req.task)' \subseteq Found(rec.req.task) \cup {z}
  BY <1>1, <1>5, <1>6, OneFileChanged
<1>8. \A u \in Task : u # rec.req.task => Found(u)' = Found(u)
  BY <1>7 DEF Found
<1>9. Pending' = Pending
  BY <1>2 DEF Pending
<1>10. PendingFits'
  <2>1. Found(rec.req.task)' \subseteq {rec.req.from, rec.req.to}
    BY <1>5, <1>6, <1>7 DEF Prepared
  <2>2. \A u \in Task : u # rec.req.task => Found(u)' \subseteq Found(u)
    BY <1>8
  <2>3. UNCHANGED claims
    BY <1>2
  <2>4. Prepared(rec)'
    BY <1>5, <2>1, <2>2, <2>3, PreparedKept DEF Prepared
  <2>5. \A r \in Pending : journal'[r] = rec
    BY <1>2, <1>4, <1>5
  <2> QED BY <1>5, <1>9, <2>4, <2>5 DEF PendingFits, Prepared
<1>11. OneFile'
  BY <1>2, <1>4, <1>5, <1>8, <1>9 DEF BoardInv, OneFile
<1>12. \A q \in Process : CommandFits(q)' /\ FinishFits(q)'
  BY <1>2 DEF CommandFits, FinishFits, InSession, FinishSteps
<1>13. TypeOK'
  BY <1>1, <1>2, <1>3, <1>7 DEF TypeOK
<1> QED BY <1>1, <1>2, <1>10, <1>11, <1>12, <1>13 DEF BoardInv, ClaimsUnique

-----------------------------------------------------------------------------
(* The invariant.                                                          *)

LEMMA BoardInvInit == Init => BoardInv
<1> SUFFICES ASSUME Init PROVE BoardInv
  OBVIOUS
<1>1. PICK at \in Placement :
        files = [t \in Task |-> [z \in Zone |->
                   IF z = at[t] THEN [status |-> z, body |-> 0] ELSE NoFile]]
  BY DEF Init
<1>2. at \in [Task -> Zone]
  BY BoardAssumption DEF Zone
<1>3. \A z \in Zone : [status |-> z, body |-> 0] \in Card
  BY BoardAssumption DEF Card
<1>4. files \in [Task -> [Zone -> Card \cup {NoFile}]]
  BY <1>1, <1>3
<1>5. \A t \in Task : Found(t) \subseteq {at[t]}
  BY <1>1 DEF Found
<1>6. TypeOK
  <2>1. /\ journal \in [RequestId -> Record \cup {NoRecord}]
        /\ pc \in [Process -> Steps]
        /\ cmd \in [Process -> Command \cup {NoCommand}]
        /\ draft \in [Process -> Record \cup {NoRecord}]
    BY DEF Init, Steps
  <2>2. claims \subseteq ClaimRecord /\ common \in BOOLEAN /\ board \in BOOLEAN
          /\ raced \in BOOLEAN
    BY DEF Init
  <2>3. faults \in 0..MaxFaults /\ edits \in 0..MaxEdits
    BY BoardAssumption DEF Init
  <2> QED BY <1>4, <2>1, <2>2, <2>3 DEF TypeOK
<1>7. Pending = {} /\ \A p \in Process : pc[p] = "idle"
  BY DEF Init, Pending
<1>8. OneFile
  BY <1>5 DEF OneFile
<1>9. \A p \in Process : CommandFits(p) /\ FinishFits(p)
  BY <1>7 DEF CommandFits, FinishFits, FinishSteps
<1> QED
  BY <1>6, <1>7, <1>8, <1>9 DEF BoardInv, OneCommand, PendingFits, ClaimsUnique, Init

LEMMA BoardInvStep == BoardInv /\ [Next]_vars => BoardInv'
<1> SUFFICES ASSUME BoardInv, [Next]_vars PROVE BoardInv'
  OBVIOUS
<1>1. ASSUME NEW p \in Process, Step(p) PROVE BoardInv'
  BY <1>1, LockSteps, LookSteps, ClaimSteps, BeginSteps, JournalSteps, FileSteps DEF Step
<1>2. ASSUME NEW p \in Process, \/ \E c \in Command : TakeCommon(p, c)
                                \/ Fail(p) \/ Kill(p)
      PROVE  BoardInv'
  BY <1>2, LockSteps
<1>3. CASE Operator
  BY <1>3, OperatorSteps
<1>4. CASE Editor
  BY <1>4, EditStep, RestoreStep DEF Editor
<1>5. CASE UNCHANGED vars
  BY <1>5
     DEF BoardInv, vars, TypeOK, OneCommand, PendingFits, CommandFits, FinishFits,
         OneFile, ClaimsUnique, Pending, Prepared, Found, HeldBy
<1> QED BY <1>1, <1>2, <1>3, <1>4, <1>5 DEF Next

LEMMA BoardInvAlways == Spec => []BoardInv
<1> QED BY BoardInvInit, BoardInvStep, PTL DEF Spec

-----------------------------------------------------------------------------
(* What the run checks follows from it.                                    *)

LEMMA AtMostOne ==
  ASSUME NEW S, \A x, y \in S : x = y
  PROVE  IsFiniteSet(S) /\ Cardinality(S) <= 1
<1>1. S = {} \/ \E x : S = {x}
  OBVIOUS
<1>2. CASE S = {}
  BY <1>2, FS_EmptySet
<1>3. ASSUME NEW x, S = {x} PROVE IsFiniteSet(S) /\ Cardinality(S) = 1
  BY <1>3, FS_Singleton
<1> QED BY <1>1, <1>2, <1>3

\* Types, and what every command relies on when it opens the board: at most one
\* transition is pending, its claim stands, and only its task has two files,
\* whatever was killed, retried or edited before (claims.go:120,
\* transition_recovery.go:95).
THEOREM BoardConsistentAlways == Spec => []BoardConsistent
<1>1. ASSUME BoardInv PROVE BoardConsistent
  <2>1. PendingKeepsClaim
    BY <1>1, AtMostOne DEF BoardInv, PendingFits, Prepared, PendingKeepsClaim
  <2>2. OneCardPerTask
    <3> SUFFICES ASSUME NEW t \in Task PROVE \/ Cardinality(Found(t)) <= 1
                   \/ \E r \in Pending :
                        /\ journal[r].req.task = t
                        /\ Found(t) = {journal[r].req.from, journal[r].req.to}
      BY DEF OneCardPerTask
    <3>1. CASE \A y, z \in Found(t) : y = z
      BY <3>1, AtMostOne
    <3>2. CASE \E y, z \in Found(t) : y # z
      <4>1. PICK r \in Pending : journal[r].req.task = t
        BY <1>1, <3>2 DEF BoardInv, OneFile
      <4>2. Found(t) \subseteq {journal[r].req.from, journal[r].req.to}
        BY <1>1, <4>1 DEF BoardInv, PendingFits, Prepared
      <4> QED BY <3>2, <4>1, <4>2
    <3> QED BY <3>1, <3>2
  <2> QED BY <1>1, <2>1, <2>2 DEF BoardConsistent, BoardInv
<1> QED BY <1>1, BoardInvAlways, PTL

\* A body of a card leaves the disk only by the hand of an editor, or when an
\* editor acted after the last comparison of the file and before its removal
\* by path: changed bytes are never discarded (transition_recovery.go:95).
THEOREM NoBytesDiscardedAlways == Spec => NoBytesDiscarded
<1>1. ASSUME BoardInv, [Next]_vars
      PROVE  [\A t \in Task : Bodies(t) \subseteq Bodies(t)' \/ edits' # edits \/ raced]_vars
  <2> SUFFICES ASSUME NEW t \in Task, edits' = edits, ~raced, vars' # vars
               PROVE  Bodies(t) \subseteq Bodies(t)'
    OBVIOUS
  <2>1. CASE files' = files
    BY <2>1 DEF Bodies, Found
  <2>2. ASSUME NEW z \in Found(t), NEW y \in Zone, files'[t][y] # NoFile,
               files'[t][y].body = files[t][z].body
        PROVE  files[t][z].body \in Bodies(t)'
    BY <2>2 DEF Bodies, Found
  <2>3. ASSUME NEW p \in Process, LinkTarget(p) \/ RemoveSource(p)
        PROVE  Bodies(t) \subseteq Bodies(t)'
    <3>1. PICK r : r = cmd[p].req
      OBVIOUS
    <3>2. PICK rec : rec = journal[r.id]
      OBVIOUS
    <3>3. /\ pc[p] \in FinishSteps /\ Prepared(rec)
          /\ r.task \in Task /\ r.from \in Zone /\ r.to \in Zone /\ r.from # r.to
      BY <1>1, <2>3, <3>1, <3>2, FinishFacts DEF LinkTarget, RemoveSource, FinishSteps
    <3>4. files[r.task] \in [Zone -> Card \cup {NoFile}]
            /\ files \in [Task -> [Zone -> Card \cup {NoFile}]]
      BY <1>1, <3>3 DEF BoardInv, TypeOK
    <3>5. CASE LinkTarget(p)
      <4>1. CASE files[r.task][r.to] = NoFile
        <5>1. files' = [files EXCEPT ![r.task][r.to] = rec.patched]
          BY <3>1, <3>2, <3>5, <4>1 DEF LinkTarget
        <5>2. \A y \in Zone : files[t][y] # NoFile => files'[t][y] = files[t][y]
          BY <3>3, <3>4, <4>1, <5>1
        <5> QED BY <2>2, <5>2 DEF Bodies, Found
      <4>2. CASE files[r.task][r.to] # NoFile
        BY <2>1, <3>1, <3>5, <4>2 DEF LinkTarget
      <4> QED BY <4>1, <4>2
    <3>6. CASE RemoveSource(p)
      <4>1. files[r.task][r.to] = rec.patched /\ files[r.task][r.from] = rec.original
        BY <1>1, <3>1, <3>2, <3>6 DEF RemoveSource, BoardInv, FinishFits
      <4>2. rec.patched.body = rec.original.body /\ rec.patched # NoFile
              /\ rec.original # NoFile
        BY <3>3, PreparedTyped DEF Prepared
      <4>3. files' = [files EXCEPT ![r.task][r.from] = NoFile]
        BY <3>1, <3>6, <4>1, <4>2 DEF RemoveSource
      <4>4. \A z \in Zone : (t # r.task \/ z # r.from) => files'[t][z] = files[t][z]
        BY <3>3, <3>4, <4>3
      <4>5. ASSUME NEW z \in Found(t) PROVE files[t][z].body \in Bodies(t)'
        <5>1. CASE t # r.task \/ z # r.from
          BY <2>2, <4>4, <5>1 DEF Found
        <5>2. CASE t = r.task /\ z = r.from
          <6>1. files'[t][r.to] = rec.patched
            BY <3>3, <4>1, <4>4, <5>2
          <6> QED BY <2>2, <3>3, <4>1, <4>2, <5>2, <6>1
        <5> QED BY <5>1, <5>2
      <4> QED BY <4>5 DEF Bodies
    <3> QED BY <2>3, <3>5, <3>6
  <2>4. ASSUME files' # files PROVE \E p \in Process : LinkTarget(p) \/ RemoveSource(p)
    <3>1. ~Editor /\ ~Operator
      <4>1. edits \in Nat
        BY <1>1, BoardAssumption DEF BoardInv, TypeOK
      <4>2. \A u \in Task, z \in Zone : ~Edit(u, z)
        BY <4>1 DEF Edit
      <4>3. \A r \in RequestId : ~Restore(r)
        BY <4>1 DEF Restore
      <4>4. ~Operator
        BY <2>4 DEF Operator, ClearCommon, ClearBoard, storeVars
      <4> QED BY <4>2, <4>3, <4>4 DEF Editor
    <3>2. PICK p \in Process : (\E c \in Command : TakeCommon(p, c))
                                 \/ Step(p) \/ Fail(p) \/ Kill(p)
      BY <1>1, <2>4, <3>1 DEF Next, vars
    <3> QED
      BY <2>4, <3>2
         DEF Step, TakeCommon, TakeBoard, CloseBoard, CloseCommon, ClaimCard, Release,
             Prepare, PublishPending, Resume, Refuse, Finish, RecheckTarget,
             RecheckSource, Complete, Fail, Kill, storeVars
  <2> QED BY <2>1, <2>3, <2>4
<1> QED BY <1>1, BoardInvAlways, PTL DEF Spec, NoBytesDiscarded

-----------------------------------------------------------------------------
(* The abstract board: what every step shows of it.                        *)

\* What the mapping shows of a task: its one zone, or the target of its
\* pending move once the file is there.
ZoneShown(t) ==
  /\ Found(t) = {} => ZoneOf(t) = "gone"
  /\ \A z : Found(t) = {z} => ZoneOf(t) = z
  /\ \A r \in Pending :
       journal[r].req.task = t /\ journal[r].req.to \in Found(t)
         => ZoneOf(t) = journal[r].req.to
  /\ ZoneOf(t) \in Zone \cup {"gone"}

LEMMA ZoneOfShown ==
  \A t : (\A r, s \in Pending : r = s) /\ (\A r \in Pending : journal[r].req.to \in Zone)
         => ZoneShown(t)
<1> SUFFICES ASSUME NEW t, \A r, s \in Pending : r = s,
                    \A r \in Pending : journal[r].req.to \in Zone
             PROVE  ZoneShown(t)
  OBVIOUS
<1> DEFINE linked == {r \in Pending : /\ journal[r].req.task = t
                                     /\ files[t][journal[r].req.to] # NoFile}
<1>1. CASE linked = {}
  <2>1. ZoneOf(t) = IF Found(t) = {} THEN "gone" ELSE CHOOSE z \in Found(t) : TRUE
    BY <1>1 DEF ZoneOf
  <2>2. Found(t) # {} => ZoneOf(t) \in Found(t)
    BY <2>1
  <2>3. Found(t) \subseteq Zone /\ \A z \in Found(t) : files[t][z] # NoFile
    BY DEF Found
  <2> QED BY <1>1, <2>1, <2>2, <2>3 DEF ZoneShown
<1>2. CASE linked # {}
  <2>1. PICK r \in Pending : linked = {r} /\ journal[r].req.to \in Found(t)
    BY <1>2 DEF Found
  <2>2. (CHOOSE x \in linked : TRUE) = r
    BY <2>1
  <2>3. ZoneOf(t) = journal[r].req.to
    BY <2>1, <2>2 DEF ZoneOf
  <2> QED BY <2>1, <2>3 DEF ZoneShown
<1> QED BY <1>1, <1>2

LEMMA InvShowsZones == BoardInv => \A t \in Task : ZoneShown(t)
<1>1. BoardInv => (\A r, s \in Pending : r = s)
                    /\ (\A r \in Pending : journal[r].req.to \in Zone)
  BY PreparedTyped DEF BoardInv, PendingFits
<1> QED BY <1>1, ZoneOfShown

\* The same before and after a step.
LEMMA ZonesShown ==
  ASSUME BoardInv, BoardInv'
  PROVE  (\A t \in Task : ZoneShown(t)) /\ (\A t \in Task : ZoneShown(t)')
<1>1. (BoardInv => \A t \in Task : ZoneShown(t))'
  BY InvShowsZones, PTL
<1> QED BY <1>1, InvShowsZones

\* A task whose files a step leaves alone is shown where it was.
LEMMA ZoneKept ==
  ASSUME BoardInv, BoardInv', NEW t \in Task, files'[t] = files[t],
         journal' = journal \/ \A y, z \in Found(t) : y = z
  PROVE  ZoneOf(t)' = ZoneOf(t)
<1>1. CASE journal' = journal
  BY <1>1 DEF ZoneOf, Found, Pending
<1>2. CASE \A y, z \in Found(t) : y = z
  <2>1. Found(t)' = Found(t)
    BY DEF Found
  <2>2. Found(t) = {} \/ \E z : Found(t) = {z}
    BY <1>2
  <2>3. ZoneShown(t) /\ ZoneShown(t)'
    BY ZonesShown
  <2> QED BY <2>1, <2>2, <2>3 DEF ZoneShown
<1> QED BY <1>1, <1>2

\* The holder shown is the one held claim's token.
HolderShown(t) ==
  /\ Held(t) = {} => HolderOf(t) = NoCommand
  /\ \A c \in Held(t) : HolderOf(t) = c.token

LEMMA InvShowsHolders == BoardInv => \A t \in Task : HolderShown(t)
<1> SUFFICES ASSUME BoardInv, NEW t \in Task PROVE HolderShown(t)
  OBVIOUS
<1>1. ASSUME NEW c \in Held(t) PROVE HolderOf(t) = c.token
  <2>1. Held(t) = {c}
    BY <1>1 DEF BoardInv, ClaimsUnique, Held
  <2>2. (CHOOSE k \in Held(t) : TRUE) = c
    BY <2>1
  <2> QED BY <2>1, <2>2 DEF HolderOf
<1> QED BY <1>1 DEF HolderOf, HolderShown

LEMMA HoldersShown ==
  ASSUME BoardInv, BoardInv'
  PROVE  (\A t \in Task : HolderShown(t)) /\ (\A t \in Task : HolderShown(t)')
<1>1. (BoardInv => \A t \in Task : HolderShown(t))'
  BY InvShowsHolders, PTL
<1> QED BY <1>1, InvShowsHolders

\* Linking the target is the abstract move.
LEMMA LinkMoves ==
  ASSUME BoardInv, BoardInv', NEW p \in Process, LinkTarget(p),
         files[cmd[p].req.task][cmd[p].req.to] = NoFile
  PROVE  Abstract!BoardNext
<1>1. PICK r : r = cmd[p].req
  OBVIOUS
<1>2. PICK rec : rec = journal[r.id]
  OBVIOUS
<1>3. pc[p] = "link" /\ UNCHANGED <<journal, claims, edits>>
        /\ files' = [files EXCEPT ![r.task][r.to] = rec.patched]
  BY <1>1, <1>2 DEF LinkTarget
<1>4. /\ Pending = {r.id} /\ rec.req = r /\ Prepared(rec)
      /\ r.task \in Task /\ r.from \in Zone /\ r.to \in Zone /\ r.from # r.to
      /\ rec.patched # NoFile
  BY <1>1, <1>2, <1>3, FinishFacts, PreparedTyped DEF FinishSteps
<1>5. Found(r.task) \subseteq {r.from}
  BY <1>1, <1>3 DEF BoardInv, FinishFits
<1>6. files \in [Task -> [Zone -> Card \cup {NoFile}]]
  BY DEF BoardInv, TypeOK
<1>7. files'[r.task][r.to] = rec.patched /\ \A t \in Task : t # r.task => files'[t] = files[t]
  BY <1>3, <1>4, <1>6
<1>8. ZoneOf(r.task)' = r.to
  <2>1. r.to \in Found(r.task)'
    BY <1>4, <1>7 DEF Found
  <2>2. r.id \in Pending' /\ journal'[r.id].req = r
    BY <1>2, <1>3, <1>4 DEF Pending
  <2>3. ZoneShown(r.task)'
    BY <1>4, ZonesShown
  <2> QED BY <2>1, <2>2, <2>3 DEF ZoneShown
<1>9. \A t \in Task : t # r.task => ZoneOf(t)' = ZoneOf(t)
  BY <1>3, <1>7, ZoneKept
<1>10. ZoneOf(r.task) \in {r.from, "gone"}
  <2>1. ZoneShown(r.task) /\ (Found(r.task) = {} \/ Found(r.task) = {r.from})
    BY <1>4, <1>5, ZonesShown
  <2> QED BY <2>1 DEF ZoneShown
<1>11. r.to \in {"doing", "done"} => \A d \in Deps[r.task] : ZoneOf(d) \in {"done", "gone"}
  <2> SUFFICES ASSUME r.to \in {"doing", "done"}, NEW d \in Deps[r.task]
               PROVE  ZoneOf(d) \in {"done", "gone"}
    OBVIOUS
  <2>1. d \in Task /\ Found(d) \subseteq {"done"}
    BY <1>4, BoardAssumption DEF Prepared
  <2>2. ZoneShown(d) /\ (Found(d) = {} \/ Found(d) = {"done"})
    BY <2>1, ZonesShown
  <2> QED BY <2>2 DEF ZoneShown
<1>12. HolderOf(r.task) # NoCommand /\ \A t \in Task : HolderOf(t)' = HolderOf(t)
  <2>1. PICK c \in Held(r.task) : c.token \in Token
    BY <1>4 DEF Prepared, HeldBy, Held, BoardInv, TypeOK, ClaimRecord
  <2>2. HolderOf(r.task) = c.token
    BY <1>4, <2>1, HoldersShown DEF HolderShown
  <2> QED BY <1>3, <2>1, <2>2, RequestAssumption DEF HolderOf, Held
<1>13. Abstract!Move(r.task, r.from, r.to)
  <2>1. <<r.from, r.to>> \in Edge
    BY <1>4 DEF Prepared
  <2>2. \A d \in Deps[r.task] : d \in Task
    BY <1>4, BoardAssumption
  <2> QED
    BY <1>3, <1>4, <1>8, <1>9, <1>10, <1>11, <1>12, <2>1, <2>2
       DEF Abstract!Move, Abstract!Edge, Abstract!Checked, Edge
<1> QED BY <1>4, <1>13 DEF Abstract!BoardNext, Abstract!Zone, Zone

\* Removing the source is no abstract step, or loses a card that an editor
\* took away at the target.
LEMMA RemoveShows ==
  ASSUME BoardInv, BoardInv', NEW p \in Process, RemoveSource(p),
         files[cmd[p].req.task][cmd[p].req.from] # NoFile
  PROVE  Abstract!BoardNext \/ UNCHANGED Abstract!boardVars
<1>1. PICK r : r = cmd[p].req
  OBVIOUS
<1>2. pc[p] = "remove" /\ UNCHANGED <<journal, claims, edits>>
        /\ files' = [files EXCEPT ![r.task][r.from] = NoFile]
  BY <1>1 DEF RemoveSource
<1>3. /\ Pending = {r.id} /\ journal[r.id].req = r /\ Prepared(journal[r.id])
      /\ r.task \in Task /\ r.from \in Zone /\ r.to \in Zone /\ r.from # r.to
  BY <1>1, <1>2, FinishFacts DEF FinishSteps
<1>4. files \in [Task -> [Zone -> Card \cup {NoFile}]]
  BY DEF BoardInv, TypeOK
<1>5. /\ files'[r.task][r.from] = NoFile
      /\ \A z \in Zone : z # r.from => files'[r.task][z] = files[r.task][z]
      /\ \A t \in Task : t # r.task => files'[t] = files[t]
  <2>1. files[r.task] \in [Zone -> Card \cup {NoFile}]
    BY <1>3, <1>4
  <2>2. files'[r.task] = [files[r.task] EXCEPT ![r.from] = NoFile]
    BY <1>2, <1>3, <1>4
  <2>3. \A t \in Task : t # r.task => files'[t] = files[t]
    BY <1>2, <1>3, <1>4
  <2> QED BY <1>3, <2>1, <2>2, <2>3
<1>6. \A t \in Task : t # r.task => ZoneOf(t)' = ZoneOf(t)
  BY <1>2, <1>5, ZoneKept
<1>7. \A t \in Task : HolderOf(t)' = HolderOf(t)
  BY <1>2 DEF HolderOf, Held
<1>8. ZoneShown(r.task) /\ ZoneShown(r.task)'
  BY <1>3, ZonesShown
<1>9. r.id \in Pending /\ r.id \in Pending' /\ journal'[r.id].req = r
  BY <1>2, <1>3 DEF Pending
<1>10. CASE files[r.task][r.to] # NoFile
  <2>1. r.to \in Found(r.task) /\ r.to \in Found(r.task)'
    BY <1>3, <1>5, <1>10 DEF Found
  <2>2. ZoneOf(r.task) = r.to /\ ZoneOf(r.task)' = r.to
    BY <1>3, <1>8, <1>9, <2>1 DEF ZoneShown
  <2> QED BY <1>2, <1>6, <1>7, <2>2 DEF Abstract!boardVars
<1>11. CASE files[r.task][r.to] = NoFile
  <2>1. Found(r.task) \subseteq {r.from, r.to}
    BY <1>3 DEF Prepared
  <2>2. r.from \in Found(r.task) /\ r.to \notin Found(r.task)
    BY <1>1, <1>3, <1>11 DEF Found
  <2>3. Found(r.task)' = {}
    BY <1>3, <1>5, <1>11, <2>1 DEF Found
  <2>4. Found(r.task) = {r.from}
    BY <2>1, <2>2
  <2>5. ZoneOf(r.task) = r.from /\ ZoneOf(r.task)' = "gone"
    BY <1>8, <2>3, <2>4 DEF ZoneShown
  <2>6. edits > 0
    BY <1>1, <1>2, <1>11 DEF BoardInv, FinishFits
  <2>7. Abstract!Lose(r.task)
    BY <1>2, <1>3, <1>6, <1>7, <2>5, <2>6 DEF Abstract!Lose, Abstract!Zone, Zone
  <2> QED BY <1>3, <2>7 DEF Abstract!BoardNext
<1> QED BY <1>10, <1>11

\* Claiming a card takes it.
LEMMA ClaimTakes ==
  ASSUME BoardInv, BoardInv', NEW p \in Process, ClaimCard(p)
  PROVE  Abstract!BoardNext
<1>1. PICK c : c = cmd[p].req
  OBVIOUS
<1>2. PICK new : new = [task |-> c.task, owner |-> c.owner, token |-> c.token,
                        status |-> "held"]
  OBVIOUS
<1>3. /\ pc[p] = "open" /\ FreshClaim(c) /\ UNCHANGED <<files, journal, edits>>
      /\ claims' = claims \cup {new}
      /\ cmd[p].op \in {"claim", "claim-resume"}
      /\ CanClaim(c) \/ CanClaimResume(c)
  BY <1>1, <1>2 DEF ClaimCard, CanClaim, CanClaimResume
<1>4. c.task \in Task /\ c.token \in Token
  BY <1>1, <1>3, CommandTyped
<1>5. \A t \in Task : \A y, z \in Found(t) : y = z
  BY <1>3 DEF BoardInv, OneFile, FreshClaim, BoardLoads
<1>6. \A t \in Task, z \in Zone : files[t][z] # NoFile => ZoneOf(t) = z
  <2> SUFFICES ASSUME NEW t \in Task, NEW z \in Zone, files[t][z] # NoFile
               PROVE  ZoneOf(t) = z
    OBVIOUS
  <2>1. Found(t) = {z}
    BY <1>5 DEF Found
  <2> QED BY <2>1, ZonesShown DEF ZoneShown
<1>7. ZoneOf(c.task) \in Zone
        /\ (ZoneOf(c.task) = "todo" => \A d \in Deps[c.task] : ZoneOf(d) = "done")
  <2>1. CASE CanClaim(c)
    <3>1. ZoneOf(c.task) = "todo"
      BY <1>4, <1>6, <2>1 DEF CanClaim, Zone
    <3>2. \A d \in Deps[c.task] : d \in Task /\ files[d]["done"] # NoFile
      BY <1>4, <2>1, BoardAssumption DEF CanClaim, DepsDone
    <3> QED BY <1>6, <3>1, <3>2 DEF Zone
  <2>2. CASE CanClaimResume(c)
    <3>1. PICK z \in Zone \ {"todo"} : files[c.task][z] # NoFile
      BY <2>2 DEF CanClaimResume
    <3>2. ZoneOf(c.task) = z
      BY <1>4, <1>6, <3>1
    <3> QED BY <3>1, <3>2
  <2> QED BY <1>3, <2>1, <2>2
<1>8. \A t \in Task : ZoneOf(t)' = ZoneOf(t)
  BY <1>3, ZoneKept
<1>9. HolderOf(c.task) = NoCommand /\ c.token \notin {k.token : k \in claims}
  BY <1>3, <1>4, HoldersShown DEF HolderShown, FreshClaim
<1>10. HolderOf(c.task)' = c.token
  <2>1. new \in Held(c.task)'
    BY <1>2, <1>3 DEF Held
  <2>2. HolderShown(c.task)'
    BY <1>4, HoldersShown
  <2> QED BY <1>2, <2>1, <2>2 DEF HolderShown
<1>11. \A t \in Task : t # c.task => HolderOf(t)' = HolderOf(t)
  <2> SUFFICES ASSUME NEW t \in Task, t # c.task PROVE HolderOf(t)' = HolderOf(t)
    OBVIOUS
  <2>1. Held(t)' = Held(t)
    BY <1>2, <1>3 DEF Held
  <2> QED BY <2>1 DEF HolderOf
<1>12. {k.token : k \in claims}' = {k.token : k \in claims} \cup {c.token}
  BY <1>2, <1>3
<1>13. Abstract!Take(c.task, c.token)
  BY <1>3, <1>4, <1>7, <1>8, <1>9, <1>10, <1>11, <1>12, BoardAssumption
     DEF Abstract!Take, Abstract!Zone, Zone
<1> QED BY <1>4, <1>13 DEF Abstract!BoardNext

\* Releasing a claim gives the card back.
LEMMA ReleaseGivesBack ==
  ASSUME BoardInv, BoardInv', NEW p \in Process, Release(p)
  PROVE  Abstract!BoardNext
<1>1. PICK c : c = cmd[p].req
  OBVIOUS
<1> DEFINE f(k) == IF k.token = c.token THEN [k EXCEPT !.status = "released"] ELSE k
<1>2. /\ pc[p] = "open" /\ cmd[p].op = "release" /\ HeldBy(c)
      /\ claims' = {f(k) : k \in claims}
      /\ UNCHANGED <<files, journal, edits>>
  BY <1>1 DEF Release, CanRelease
<1>3. c.task \in Task /\ c.token \in Token
  BY <1>1, <1>2, CommandTyped
<1>4. PICK own \in claims : own = [task |-> c.task, owner |-> c.owner,
                                   token |-> c.token, status |-> "held"]
  BY <1>2 DEF HeldBy
<1>5. \A k \in claims : k.token = c.token <=> k = own
  BY <1>4 DEF BoardInv, ClaimsUnique
<1>6. \A k \in claims :
        /\ k # own => f(k) = k
        /\ f(k).token = k.token /\ f(k).task = k.task
        /\ f(own).status = "released"
  BY <1>4, <1>5 DEF BoardInv, TypeOK, ClaimRecord
<1> HIDE DEF f
<1>7. \A t \in Task : t # c.task => HolderOf(t)' = HolderOf(t)
  <2> SUFFICES ASSUME NEW t \in Task, t # c.task PROVE HolderOf(t)' = HolderOf(t)
    OBVIOUS
  <2>1. Held(t)' = Held(t)
    BY <1>2, <1>4, <1>6 DEF Held
  <2> QED BY <2>1 DEF HolderOf
<1>8. HolderOf(c.task) = c.token
  BY <1>3, <1>4, HoldersShown DEF HolderShown, Held
<1>9. HolderOf(c.task)' = NoCommand
  <2>1. \A k \in claims : k.task = c.task /\ k.status = "held" => k = own
    BY <1>4 DEF BoardInv, ClaimsUnique
  <2>2. Held(c.task)' = {}
    BY <1>2, <1>4, <1>6, <2>1 DEF Held
  <2>3. HolderShown(c.task)'
    BY <1>3, HoldersShown
  <2> QED BY <2>2, <2>3 DEF HolderShown
<1>10. \A t \in Task : ZoneOf(t)' = ZoneOf(t)
  BY <1>2, ZoneKept
<1>11. {k.token : k \in claims}' = {k.token : k \in claims}
  BY <1>2, <1>6
<1>12. Abstract!GiveBack(c.task)
  BY <1>2, <1>3, <1>7, <1>8, <1>9, <1>10, <1>11, RequestAssumption DEF Abstract!GiveBack
<1> QED BY <1>3, <1>12 DEF Abstract!BoardNext

\* Nothing of the board changes while the journal is written: no task but the
\* pending one has two files, and that one has two at neither of these moments.
LEMMA JournalShowsNothing ==
  ASSUME BoardInv, BoardInv', NEW p \in Process, PublishPending(p) \/ Complete(p)
  PROVE  UNCHANGED Abstract!boardVars
<1>1. UNCHANGED <<files, claims, edits>>
  BY DEF PublishPending, Complete
<1>2. \A t \in Task : \A y, z \in Found(t) : y = z
  <2>1. CASE PublishPending(p)
    BY <2>1 DEF PublishPending, BoardInv, CommandFits, OneFile
  <2>2. CASE Complete(p)
    <3>1. PICK r : r = cmd[p].req
      OBVIOUS
    <3>2. Pending = {r.id} /\ journal[r.id].req = r
      BY <2>2, <3>1, FinishFacts DEF Complete, FinishSteps
    <3>3. Found(r.task) \subseteq {r.to}
      BY <2>2, <3>1 DEF Complete, BoardInv, FinishFits
    <3> QED BY <3>2, <3>3 DEF BoardInv, OneFile
  <2> QED BY <2>1, <2>2
<1>3. \A t \in Task : ZoneOf(t)' = ZoneOf(t)
  BY <1>1, <1>2, ZoneKept
<1>4. \A t \in Task : HolderOf(t)' = HolderOf(t)
  BY <1>1 DEF HolderOf, Held
<1> QED BY <1>1, <1>3, <1>4 DEF Abstract!boardVars

\* An editor's act is an act from outside.
LEMMA EditorShows ==
  ASSUME BoardInv, BoardInv', Editor
  PROVE  Abstract!BoardNext
<1>1. UNCHANGED <<journal, claims>> /\ edits' = edits + 1
  BY DEF Editor, Edit, Restore
<1>2. files \in [Task -> [Zone -> Card \cup {NoFile}]]
  BY DEF BoardInv, TypeOK
<1>3. PICK u \in Task : \A t \in Task : t # u => files'[t] = files[t]
  <2>1. ASSUME NEW t \in Task, NEW z \in Zone, Edit(t, z)
        PROVE  \A v \in Task : v # t => files'[v] = files[v]
    BY <1>2, <2>1 DEF Edit
  <2>2. ASSUME NEW id \in RequestId, Restore(id)
        PROVE  \E u \in Task : \A t \in Task : t # u => files'[t] = files[t]
    <3>1. PICK rec : rec = journal[id]
      OBVIOUS
    <3>2. rec.req.task \in Task
      BY <2>2, <3>1, PreparedTyped DEF Restore, BoardInv, PendingFits
    <3>3. \/ files' = [files EXCEPT ![rec.req.task][rec.req.from] = rec.original]
          \/ files' = [files EXCEPT ![rec.req.task][rec.req.to] = rec.patched]
      BY <2>2, <3>1 DEF Restore
    <3> QED BY <1>2, <3>2, <3>3
  <2> QED BY <2>1, <2>2 DEF Editor
<1>4. \A t \in Task : t # u => ZoneOf(t)' = ZoneOf(t)
  BY <1>1, <1>3, ZoneKept
<1>5. ZoneOf(u)' \in Zone \cup {"gone"}
  BY ZonesShown DEF ZoneShown
<1>6. \A t \in Task : HolderOf(t)' = HolderOf(t)
  BY <1>1 DEF HolderOf, Held
<1>7. Abstract!Outside(u)
  BY <1>1, <1>4, <1>5, <1>6 DEF Abstract!Outside, Abstract!Zone, Zone
<1> QED BY <1>7 DEF Abstract!BoardNext

\* Every other step leaves the abstract board as it is.
LEMMA StoreKeptShowsNothing ==
  ASSUME UNCHANGED <<storeVars, edits>> PROVE UNCHANGED Abstract!boardVars
<1>1. \A t \in Task : ZoneOf(t)' = ZoneOf(t) /\ HolderOf(t)' = HolderOf(t)
  BY DEF storeVars, ZoneOf, HolderOf, Held, Found, Pending
<1>2. claims' = claims /\ edits' = edits
  BY DEF storeVars
<1> QED BY <1>1, <1>2 DEF Abstract!boardVars

LEMMA InitShows == Init => Abstract!BoardInit
<1> SUFFICES ASSUME Init PROVE Abstract!BoardInit
  OBVIOUS
<1>1. PICK at \in Placement :
        files = [t \in Task |-> [z \in Zone |->
                   IF z = at[t] THEN [status |-> z, body |-> 0] ELSE NoFile]]
  BY DEF Init
<1>2. at \in [Task -> Zone]
  BY BoardAssumption DEF Zone
<1>3. \A z \in Zone : [status |-> z, body |-> 0] # NoFile
  BY BoardAssumption, RequestAssumption DEF Card
<1>4. \A t \in Task : Found(t) = {at[t]}
  BY <1>1, <1>2, <1>3 DEF Found
<1>5. \A t \in Task : ZoneOf(t) \in Zone
  BY <1>2, <1>4, BoardInvInit, InvShowsZones DEF ZoneShown
<1>6. \A t \in Task : HolderOf(t) = NoCommand
  BY BoardInvInit, InvShowsHolders DEF HolderShown, Held, Init
<1>7. edits = 0 /\ {c.token : c \in claims} = {}
  BY DEF Init
<1> QED BY <1>5, <1>6, <1>7 DEF Abstract!BoardInit, Abstract!Zone, Zone

LEMMA StepShows ==
  BoardInv /\ BoardInv' /\ [Next]_vars
    => [Abstract!BoardNext]_(Abstract!boardVars)
<1> SUFFICES ASSUME BoardInv, BoardInv', [Next]_vars
             PROVE  Abstract!BoardNext \/ UNCHANGED Abstract!boardVars
  OBVIOUS
<1>1. CASE UNCHANGED <<storeVars, edits>>
  BY <1>1, StoreKeptShowsNothing
<1>2. CASE Editor
  BY <1>2, EditorShows
<1>3. CASE ~UNCHANGED <<storeVars, edits>> /\ ~Editor
  <2>1. PICK p \in Process : ClaimCard(p) \/ Release(p) \/ PublishPending(p)
                               \/ LinkTarget(p) \/ RemoveSource(p) \/ Complete(p)
    <3>1. ~Operator /\ ~UNCHANGED vars
      BY <1>3 DEF Operator, ClearCommon, ClearBoard, vars, storeVars
    <3>2. PICK p \in Process : (\E c \in Command : TakeCommon(p, c))
                                 \/ Step(p) \/ Fail(p) \/ Kill(p)
      BY <1>3, <3>1 DEF Next
    <3> QED
      BY <1>3, <3>2
         DEF Step, TakeCommon, TakeBoard, CloseBoard, CloseCommon, Prepare, Resume,
             Refuse, Finish, RecheckTarget, RecheckSource, Fail, Kill
  <2>2. ASSUME UNCHANGED files, LinkTarget(p) \/ RemoveSource(p) PROVE FALSE
    BY <1>3, <2>2 DEF LinkTarget, RemoveSource, storeVars
  <2>3. LinkTarget(p) => files[cmd[p].req.task][cmd[p].req.to] = NoFile
    BY <2>2 DEF LinkTarget
  <2>4. RemoveSource(p) => files[cmd[p].req.task][cmd[p].req.from] # NoFile
    BY <2>2 DEF RemoveSource
  <2> QED
    BY <2>1, <2>3, <2>4, ClaimTakes, ReleaseGivesBack, JournalShowsNothing,
       LinkMoves, RemoveShows
<1> QED BY <1>1, <1>2, <1>3

\* Crashes, retries and races of commands only ever show users the claims,
\* releases and moves of TaskBoard: every step of the protocol is one of its
\* steps, an act of an editor, or invisible (executeTransition and
\* finishTransition, transitions.go:76, transition_recovery.go:16).
THEOREM ImplementsBoardAlways == Spec => ImplementsBoard
<1> QED
  BY InitShows, StepShows, BoardInvAlways, PTL
     DEF Spec, ImplementsBoard, Abstract!BoardSpec

=============================================================================
