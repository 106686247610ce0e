-------------------------- MODULE BoardTransitions --------------------------
(***************************************************************************)
(* Claims and journaled transitions of one board (internal/taskstore:      *)
(* board_session.go, claims.go, transitions.go, transition_recovery.go,    *)
(* transition_journal.go).  A process is one command at a time.  It takes  *)
(* the repository's lock directory, then the board's, and may fail or be   *)
(* killed between any two of its file operations; a killed command leaves  *)
(* its lock directories behind for the operator.  Card files may also be   *)
(* changed by editors, which do not honour the locks.                      *)
(***************************************************************************)
EXTENDS Naturals, FiniteSets

CONSTANTS
  Process,
  Task, Deps,          \* tasks and their prerequisites
  Owner, Token,
  RequestId,
  ClaimRequest,        \* [task, owner, token] records users submit
  TransitionRequest,   \* [id, task, owner, token, from, to] records
  Placement,           \* where the cards stand before the first command
  NoFile, NoRecord, NoCommand,
  MaxFaults,           \* bound: command failures and kills
  MaxEdits             \* bound: acts of editors

ASSUME BoardAssumption ==
  /\ Deps \in [Task -> SUBSET Task]
  /\ Placement \subseteq [Task -> {"todo", "doing", "review", "blocked", "done"}]
  /\ MaxFaults \in Nat /\ MaxEdits \in Nat

VARIABLES
  files,    \* files[t][z]: the card file of t in zone directory z
  journal,  \* .transitions.json, by request ID
  claims,   \* .claims.json
  common,   \* the repository lock directory exists
  board,    \* the board lock directory exists
  pc, cmd,  \* the step each process is at, and its command
  draft,    \* the pending record a command prepared
  faults, edits,
  raced     \* history: an editor acted between a check of a file and its removal

storeVars == <<files, journal, claims>>
lockVars == <<common, board>>
procVars == <<pc, cmd, draft>>
vars == <<files, journal, claims, common, board, pc, cmd, draft, faults, edits, raced>>

-----------------------------------------------------------------------------
(* Types.                                                                  *)

Zone == {"todo", "doing", "review", "blocked", "done"}

Edge == { <<"todo", "doing">>,
          <<"doing", "todo">>, <<"doing", "review">>, <<"doing", "blocked">>,
          <<"blocked", "todo">>, <<"blocked", "doing">>,
          <<"review", "doing">>, <<"review", "done">>,
          <<"done", "todo">> }

\* A card's bytes: the status cell and everything else.  Every editor writes
\* a body nobody wrote before.
Card == [status : Zone, body : 0..MaxEdits]

ClaimRecord == [task : Task, owner : Owner, token : Token,
                status : {"held", "released"}]

\* A completed record no longer carries the two card images.
Record ==
  [req : TransitionRequest, kind : {"pending"}, original : Card, patched : Card]
    \cup [req : TransitionRequest, kind : {"completed"}]

Command ==
  [op : {"claim", "claim-resume", "release"}, req : ClaimRequest]
    \cup [op : {"transition", "recover"}, req : TransitionRequest]

\* What the requests name exists, and "none" is none of what it stands for.
ASSUME RequestAssumption ==
  /\ ClaimRequest \subseteq [task : Task, owner : Owner, token : Token]
  /\ TransitionRequest \subseteq
       [id : RequestId, task : Task, owner : Owner, token : Token,
        from : Zone, to : Zone]
  /\ NoFile \notin Card /\ NoRecord \notin Record
  /\ NoCommand \notin Command /\ NoCommand \notin Token

\* The steps of finishTransition.
FinishSteps == {"finish", "link", "recheckTarget", "recheckSource", "remove",
                "complete"}

\* A command in these steps holds both locks; at "common" and "leaving" it
\* holds the repository's alone.
InSession == {"open", "journal", "closing"} \cup FinishSteps

Steps == {"idle", "common", "leaving"} \cup InSession

TypeOK ==
  /\ files \in [Task -> [Zone -> Card \cup {NoFile}]]
  /\ journal \in [RequestId -> Record \cup {NoRecord}]
  /\ claims \subseteq ClaimRecord
  /\ common \in BOOLEAN /\ board \in BOOLEAN
  /\ pc \in [Process -> Steps]
  /\ cmd \in [Process -> Command \cup {NoCommand}]
  /\ draft \in [Process -> Record \cup {NoRecord}]
  /\ faults \in 0..MaxFaults
  /\ edits \in 0..MaxEdits /\ raced \in BOOLEAN

-----------------------------------------------------------------------------
(* What a command reads.                                                   *)

Found(t) == {z \in Zone : files[t][z] # NoFile}

Pending == {r \in RequestId : journal[r] # NoRecord /\ journal[r].kind = "pending"}

\* The scan rejects a task identity that two files carry; the finish of a
\* transition scans past its own source once the target is published.
ScanExcept(t, z) ==
  \A u \in Task : Cardinality(Found(u) \ (IF u = t THEN {z} ELSE {})) <= 1

Scan == \A u \in Task : Cardinality(Found(u)) <= 1

Held(t) == {c \in claims : c.task = t /\ c.status = "held"}

\* The ledger loads only if every held claim names a card the scan found.
ClaimsLoad == \A t \in Task : Held(t) # {} => Found(t) # {}

\* validateGraph: every prerequisite of a scanned card was scanned too.
GraphLoads == \A t \in Task : Found(t) # {} => \A d \in Deps[t] : Found(d) # {}

DepsDone(t) == \A d \in Deps[t] : files[d]["done"] # NoFile

HeldBy(req) ==
  \E c \in claims : c = [task |-> req.task, owner |-> req.owner,
                         token |-> req.token, status |-> "held"]

BoardLoads == Pending = {} /\ Scan /\ ClaimsLoad

\* matchingTransitionFile; "changed" is an error.
Match(file, want) ==
  IF file = NoFile THEN "absent" ELSE IF file = want THEN "match" ELSE "changed"

-----------------------------------------------------------------------------
Init ==
  /\ \E at \in Placement :
       files = [t \in Task |-> [z \in Zone |->
                  IF z = at[t] THEN [status |-> z, body |-> 0] ELSE NoFile]]
  /\ journal = [r \in RequestId |-> NoRecord]
  /\ claims = {}
  /\ common = FALSE /\ board = FALSE
  /\ pc = [p \in Process |-> "idle"]
  /\ cmd = [p \in Process |-> NoCommand]
  /\ draft = [p \in Process |-> NoRecord]
  /\ faults = 0 /\ edits = 0 /\ raced = FALSE

Goto(p, step) == pc' = [pc EXCEPT ![p] = step]

-----------------------------------------------------------------------------
(* The session: mkdir of each lock directory, never a wait.                *)

\* A command that finds the directory already there ends with an error.
TakeCommon(p, c) ==
  /\ pc[p] = "idle"
  /\ ~common
  /\ common' = TRUE
  /\ cmd' = [cmd EXCEPT ![p] = c]
  /\ Goto(p, "common")
  /\ UNCHANGED <<storeVars, board, draft, faults, edits, raced>>

TakeBoard(p) ==
  /\ pc[p] = "common"
  /\ IF board THEN Goto(p, "leaving") ELSE Goto(p, "open")
  /\ board' = TRUE
  /\ UNCHANGED <<storeVars, common, cmd, draft, faults, edits, raced>>

CloseBoard(p) ==
  /\ pc[p] = "closing"
  /\ board' = FALSE
  /\ Goto(p, "leaving")
  /\ UNCHANGED <<storeVars, common, cmd, draft, faults, edits, raced>>

CloseCommon(p) ==
  /\ pc[p] = "leaving"
  /\ common' = FALSE
  /\ Goto(p, "idle")
  /\ cmd' = [cmd EXCEPT ![p] = NoCommand]
  /\ draft' = [draft EXCEPT ![p] = NoRecord]
  /\ UNCHANGED <<storeVars, board, faults, edits, raced>>

-----------------------------------------------------------------------------
(* Claims.                                                                 *)

FreshClaim(c) ==
  /\ BoardLoads
  /\ \A k \in claims : k.token # c.token
  /\ Held(c.task) = {}

CanClaim(c) ==
  /\ FreshClaim(c)
  /\ GraphLoads
  /\ files[c.task]["todo"] # NoFile
  /\ DepsDone(c.task)

\* ClaimResume takes a card from any workflow zone but the ready one.
CanClaimResume(c) ==
  /\ FreshClaim(c)
  /\ \E z \in Zone \ {"todo"} : files[c.task][z] # NoFile

\* Mutant of CanRelease: a pending transition does not refuse a release.
CanReleasePending(c) ==
  Scan /\ ClaimsLoad /\ HeldBy(c)

\* A released record answers a repeated release without a change.
CanRelease(c) ==
  BoardLoads /\ HeldBy(c)

ClaimCard(p) ==
  LET c == cmd[p].req
  IN  /\ pc[p] = "open"
      /\ \/ cmd[p].op = "claim" /\ CanClaim(c)
         \/ cmd[p].op = "claim-resume" /\ CanClaimResume(c)
      /\ claims' = claims \cup {[task |-> c.task, owner |-> c.owner,
                                 token |-> c.token, status |-> "held"]}
      /\ Goto(p, "closing")
      /\ UNCHANGED <<files, journal, lockVars, cmd, draft, faults, edits, raced>>

Release(p) ==
  LET c == cmd[p].req
  IN  /\ pc[p] = "open"
      /\ cmd[p].op = "release"
      /\ CanRelease(c)
      /\ claims' = {IF k.token = c.token THEN [k EXCEPT !.status = "released"]
                                         ELSE k : k \in claims}
      /\ Goto(p, "closing")
      /\ UNCHANGED <<files, journal, lockVars, cmd, draft, faults, edits, raced>>

-----------------------------------------------------------------------------
(* Starting or resuming a transition.                                      *)

\* The request's own pending record, and no other request's.
CanFinish(r) ==
  /\ Pending = {r.id}
  /\ journal[r.id].req = r

\* Mutant of CanPrepare: prerequisites are not consulted.
CanPrepareIgnoringDeps(r) ==
  /\ journal[r.id] = NoRecord
  /\ <<r.from, r.to>> \in Edge
  /\ BoardLoads /\ GraphLoads
  /\ files[r.task][r.from] # NoFile
  /\ HeldBy(r)

\* The checks of executeTransition and prepareTransition.  The scan leaves no
\* other file of the task, so the target is absent.
CanPrepare(r) ==
  /\ journal[r.id] = NoRecord
  /\ <<r.from, r.to>> \in Edge
  /\ BoardLoads /\ GraphLoads
  /\ files[r.task][r.from] # NoFile
  /\ r.to \in {"doing", "done"} => DepsDone(r.task)
  /\ HeldBy(r)

Prepare(p) ==
  LET r == cmd[p].req
      card == files[r.task][r.from]
  IN  /\ pc[p] = "open"
      /\ cmd[p].op = "transition"
      /\ CanPrepare(r)
      /\ draft' = [draft EXCEPT ![p] =
           [req |-> r, kind |-> "pending", original |-> card,
            patched |-> [card EXCEPT !.status = r.to]]]
      /\ Goto(p, "journal")
      /\ UNCHANGED <<storeVars, lockVars, cmd, faults, edits, raced>>

PublishPending(p) ==
  /\ pc[p] = "journal"
  /\ journal' = [journal EXCEPT ![draft[p].req.id] = draft[p]]
  /\ Goto(p, "finish")
  /\ UNCHANGED <<files, claims, lockVars, cmd, draft, faults, edits, raced>>

\* Both commands resume a pending record; recover never starts a new one.
Resume(p) ==
  /\ pc[p] = "open"
  /\ cmd[p].op \in {"transition", "recover"}
  /\ CanFinish(cmd[p].req)
  /\ Goto(p, "finish")
  /\ UNCHANGED <<storeVars, lockVars, cmd, draft, faults, edits, raced>>

\* Every other command returns an error, or the answer it already recorded.
Refuse(p) ==
  LET c == cmd[p]
  IN  /\ pc[p] = "open"
      /\ CASE c.op = "claim" -> ~CanClaim(c.req)
           [] c.op = "claim-resume" -> ~CanClaimResume(c.req)
           [] c.op = "release" -> ~CanRelease(c.req)
           [] c.op = "transition" -> ~CanFinish(c.req) /\ ~CanPrepare(c.req)
           [] c.op = "recover" -> ~CanFinish(c.req)
      /\ Goto(p, "closing")
      /\ UNCHANGED <<storeVars, lockVars, cmd, draft, faults, edits, raced>>

-----------------------------------------------------------------------------
(* finishTransition.                                                       *)

\* Mutant of CanGoOn: the scan does not pass over the source of a linked target.
CanGoOnFullScan(r) ==
  LET rec == journal[r.id]
      source == Match(files[r.task][r.from], rec.original)
      target == Match(files[r.task][r.to], rec.patched)
  IN  /\ source # "changed" /\ target # "changed"
      /\ source = "match" \/ target = "match"
      /\ Scan /\ ClaimsLoad /\ HeldBy(r)

\* The card images on disk are those the pending record promised, at least
\* one of them exists, the rest of the board loads and the claim stands.
CanGoOn(r) ==
  LET rec == journal[r.id]
      source == Match(files[r.task][r.from], rec.original)
      target == Match(files[r.task][r.to], rec.patched)
  IN  /\ source # "changed" /\ target # "changed"
      /\ source = "match" \/ target = "match"
      /\ IF target = "match" THEN ScanExcept(r.task, r.from) ELSE Scan
      /\ ClaimsLoad
      /\ HeldBy(r)

Finish(p) ==
  LET r == cmd[p].req
  IN  /\ pc[p] = "finish"
      /\ IF ~CanGoOn(r) THEN Goto(p, "closing")
         ELSE IF files[r.task][r.to] = NoFile THEN Goto(p, "link")
         ELSE Goto(p, "recheckTarget")
      /\ UNCHANGED <<storeVars, lockVars, cmd, draft, faults, edits, raced>>

\* link(2) of the staged image: it never overwrites.
LinkTarget(p) ==
  LET r == cmd[p].req
  IN  /\ pc[p] = "link"
      /\ IF files[r.task][r.to] = NoFile
         THEN /\ files' = [files EXCEPT ![r.task][r.to] = journal[r.id].patched]
              /\ Goto(p, "recheckTarget")
         ELSE Goto(p, "closing") /\ UNCHANGED files
      /\ UNCHANGED <<journal, claims, lockVars, cmd, draft, faults, edits, raced>>

RecheckTarget(p) ==
  LET r == cmd[p].req
  IN  /\ pc[p] = "recheckTarget"
      /\ IF Match(files[r.task][r.to], journal[r.id].patched) = "match"
         THEN Goto(p, "recheckSource") ELSE Goto(p, "closing")
      /\ UNCHANGED <<storeVars, lockVars, cmd, draft, faults, edits, raced>>

\* Mutant of RecheckSource: the source is removed whatever it now holds.
RecheckSourceExists(p) ==
  LET r == cmd[p].req
  IN  /\ pc[p] = "recheckSource"
      /\ IF files[r.task][r.from] = NoFile
         THEN Goto(p, "complete") ELSE Goto(p, "remove")
      /\ UNCHANGED <<storeVars, lockVars, cmd, draft, faults, edits, raced>>

RecheckSource(p) ==
  LET r == cmd[p].req
      source == Match(files[r.task][r.from], journal[r.id].original)
  IN  /\ pc[p] = "recheckSource"
      /\ Goto(p, CASE source = "match" -> "remove"
                   [] source = "absent" -> "complete"
                   [] source = "changed" -> "closing")
      /\ UNCHANGED <<storeVars, lockVars, cmd, draft, faults, edits, raced>>

\* A source that vanished since the recheck makes the removal fail.
RemoveSource(p) ==
  LET r == cmd[p].req
  IN  /\ pc[p] = "remove"
      /\ IF files[r.task][r.from] = NoFile
         THEN Goto(p, "closing") /\ UNCHANGED files
         ELSE /\ files' = [files EXCEPT ![r.task][r.from] = NoFile]
              /\ Goto(p, "complete")
      /\ UNCHANGED <<journal, claims, lockVars, cmd, draft, faults, edits, raced>>

Complete(p) ==
  LET r == cmd[p].req
  IN  /\ pc[p] = "complete"
      /\ journal' = [journal EXCEPT ![r.id] = [req |-> r, kind |-> "completed"]]
      /\ Goto(p, "closing")
      /\ UNCHANGED <<files, claims, lockVars, cmd, draft, faults, edits, raced>>

-----------------------------------------------------------------------------
(* Failures, the operator and editors.                                     *)

\* A file operation fails before it takes effect: the command gives up and
\* removes its lock directories.
Fail(p) ==
  /\ faults < MaxFaults
  /\ pc[p] \in {"common", "journal"} \cup FinishSteps
  /\ Goto(p, IF pc[p] = "common" THEN "leaving" ELSE "closing")
  /\ faults' = faults + 1
  /\ UNCHANGED <<storeVars, lockVars, cmd, draft, edits, raced>>

\* The command is killed, or fails to remove a lock directory.
Kill(p) ==
  /\ faults < MaxFaults
  /\ pc[p] # "idle"
  /\ Goto(p, "idle")
  /\ cmd' = [cmd EXCEPT ![p] = NoCommand]
  /\ draft' = [draft EXCEPT ![p] = NoRecord]
  /\ faults' = faults + 1
  /\ UNCHANGED <<storeVars, lockVars, edits, raced>>

\* "remove only after confirming the owner is gone".
ClearCommon ==
  /\ common
  /\ \A p \in Process : pc[p] = "idle"
  /\ common' = FALSE
  /\ UNCHANGED <<storeVars, board, procVars, faults, edits, raced>>

ClearBoard ==
  /\ board
  /\ \A p \in Process : pc[p] \notin InSession
  /\ board' = FALSE
  /\ UNCHANGED <<storeVars, common, procVars, faults, edits, raced>>

\* An editor rewrites or removes a card file at any moment ...
Edit(t, z) ==
  /\ edits < MaxEdits
  /\ files[t][z] # NoFile
  /\ files' \in {[files EXCEPT ![t][z].body = edits + 1],
                 [files EXCEPT ![t][z] = NoFile]}
  /\ edits' = edits + 1
  /\ raced' = (raced \/ \E p \in Process : pc[p] \in {"recheckSource", "remove"})
  /\ UNCHANGED <<journal, claims, lockVars, procVars, faults>>

\* ... and, between commands, puts back an image of a pending record.
Restore(r) ==
  /\ edits < MaxEdits
  /\ \A p \in Process : pc[p] \notin InSession
  /\ r \in Pending
  /\ LET rec == journal[r]
     IN  files' \in {[files EXCEPT ![rec.req.task][rec.req.from] = rec.original],
                     [files EXCEPT ![rec.req.task][rec.req.to] = rec.patched]}
  /\ edits' = edits + 1
  /\ UNCHANGED <<journal, claims, lockVars, procVars, faults, raced>>

-----------------------------------------------------------------------------
\* What a command that holds the repository lock does next.
Step(p) ==
  \/ TakeBoard(p) \/ CloseBoard(p) \/ CloseCommon(p)
  \/ ClaimCard(p) \/ Release(p)
  \/ Prepare(p) \/ PublishPending(p) \/ Resume(p) \/ Refuse(p)
  \/ Finish(p) \/ LinkTarget(p) \/ RecheckTarget(p) \/ RecheckSource(p)
  \/ RemoveSource(p) \/ Complete(p)

Operator == ClearCommon \/ ClearBoard

Editor ==
  \/ \E t \in Task, z \in Zone : Edit(t, z)
  \/ \E r \in RequestId : Restore(r)

Next ==
  \/ \E p \in Process :
       \/ \E c \in Command : TakeCommon(p, c)
       \/ Step(p)
       \/ Fail(p) \/ Kill(p)
  \/ Operator
  \/ Editor

Spec == Init /\ [][Next]_vars

\* A user repeats the command of the pending record until it is not refused
\* for a busy lock; commands run on; the operator clears what kills leave.
Retry(r) ==
  \E p \in Process :
    /\ r \in Pending
    /\ TakeCommon(p, [op |-> "recover", req |-> journal[r].req])

Fairness ==
  /\ \A p \in Process : WF_vars(Step(p))
  /\ \A r \in RequestId : SF_vars(Retry(r))
  /\ WF_vars(ClearCommon) /\ SF_vars(ClearBoard)

FairSpec == Spec /\ Fairness

-----------------------------------------------------------------------------
(* Properties.                                                             *)

\* At most one transition is unfinished on a board, and its claim cannot be
\* released under it: its retry never finds the claim gone (claims.go:120).
PendingKeepsClaim ==
  /\ Cardinality(Pending) <= 1
  /\ \A r \in Pending : HeldBy(journal[r].req)

\* A task has two card files only inside the two directories of its pending
\* transition: a crash never leaves a duplicate the retry cannot resolve.
OneCardPerTask ==
  \A t \in Task : Cardinality(Found(t)) <= 1 \/
    \E r \in Pending : /\ journal[r].req.task = t
                       /\ Found(t) = {journal[r].req.from, journal[r].req.to}

\* Types, and what every command relies on when it opens the board: a pending
\* transition has its claim, and at most its task has two files.
BoardConsistent == TypeOK /\ PendingKeepsClaim /\ OneCardPerTask

Bodies(t) == {files[t][z].body : z \in Found(t)}

\* transition_recovery.go:95: changed bytes must never be discarded.  A body
\* leaves the disk only by the hand of an editor, or because an editor acted
\* after the last comparison of the file and before its removal by path.
NoBytesDiscarded ==
  [][\A t \in Task : Bodies(t) \subseteq Bodies(t)' \/ edits' # edits \/ raced]_vars

\* Every transition that was begun is finished by retries, whatever was
\* killed on the way (checked without editors).
PendingResolved ==
  \A r \in RequestId : r \in Pending ~> (journal[r] # NoRecord /\ r \notin Pending)

-----------------------------------------------------------------------------
(* The abstract board this protocol implements.                            *)

\* A pending task stands in its target zone as soon as the target is linked.
ZoneOf(t) ==
  LET linked == {r \in Pending : /\ journal[r].req.task = t
                                 /\ files[t][journal[r].req.to] # NoFile}
  IN  IF linked # {} THEN journal[CHOOSE r \in linked : TRUE].req.to
      ELSE IF Found(t) = {} THEN "gone"
      ELSE CHOOSE z \in Found(t) : TRUE

HolderOf(t) ==
  IF Held(t) = {} THEN NoCommand ELSE (CHOOSE c \in Held(t) : TRUE).token

Abstract == INSTANCE TaskBoard WITH
  NoToken <- NoCommand,
  zone <- [t \in Task |-> ZoneOf(t)],
  holder <- [t \in Task |-> HolderOf(t)],
  used <- {c.token : c \in claims},
  outside <- edits

\* Crashes, retries and races of commands only ever show users the moves,
\* claims and releases of TaskBoard.
ImplementsBoard == Abstract!BoardSpec

=============================================================================
