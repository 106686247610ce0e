------------------------ MODULE AuthorityPublication ------------------------
(***************************************************************************)
(* Who may write the execution ledger, and changing who that is            *)
(* (internal/taskruntime: authority_publish.go, authority_publish_darwin.  *)
(* go, authority_lock.go, authority_quiescence.go, authority_decode.go,    *)
(* canonical_config.go, canonical_config_darwin.go, canonical_repository.  *)
(* go).  No command calls these yet.                                       *)
(*                                                                         *)
(* The declaration is one file, replaced by a rename under the repository's*)
(* mutation lock.  A mutation under a lease reads it before and after it   *)
(* takes that lock.  The verbs in use take the lock and never look at it.  *)
(* Editors replace the file without the lock.  A power loss leaves any of  *)
(* the contents that were not overwritten by a sync.                       *)
(*                                                                         *)
(* Every content has the number of the change that wrote it, which stands  *)
(* for the file's identity.  A dead owner's lock is as good as a free one  *)
(* (MutationLock models how it is reclaimed).                              *)
(***************************************************************************)
EXTENDS Naturals, FiniteSets

CONSTANTS
  Process,
  Engine,       \* writers that may hold a lease
  Request,      \* [expected, target, confirm]: what a controller asks for
  None,
  First,        \* the content at the start
  MaxActs,      \* bound: edits, and changes of the controller's mind
  MaxStops,     \* bound: kills, power losses and failing steps
  MaxRuns       \* bound: executions started

ASSUME AuthorityAssumption == None \notin Process

VARIABLES
  config,       \* the declaration: [id, data, hand]: hand for an edit
  durable,      \* what a power loss may leave of it
  changes,      \* declarations written so far
  lock,         \* holder of the mutation lock, or None
  call,         \* process -> its call
  told,         \* the last declaration answered as published; whether calls that
                \* answered that they replaced nothing kept to it
  row,          \* the execution the ledger has a row for, 0 for none
  receipt,      \* the last receipt: its execution and its status
  accepts,      \* the owner's approval and the repository are as requested
  drained,      \* launches are frozen, callers gone, board and cleanup clear
  seen          \* bounds used up

ledger == <<row, receipt>>
owner == <<accepts, drained>>
vars == <<config, durable, changes, lock, call, told, ledger, owner, seen>>

Idle == [at |-> "idle"]
At(p, at) == call[p].at = at
q(p) == call[p].request

\* decodeCanonicalAuthority and, for the content a publication starts from, the
\* legacy schemas that may be replaced.
Canonical(data) == data.kind = "authority"
Replaceable(data) == data.kind \in {"authority", "legacy"}

Pinned(p) == config = call[p].handle

-----------------------------------------------------------------------------
(* The answer and the release of the lock.                                 *)

Goes(p, at, status) ==
  call' = [call EXCEPT ![p].at = at, ![p].status = status,
                       ![p].handle = IF at = "release" /\ status # "already-published" THEN None ELSE @]
Answer(p, status) ==
  /\ call' = [call EXCEPT ![p] = Idle]
  /\ told' = IF status \in {"published", "already-published"} 
             THEN [told EXCEPT !.id = IF call[p].handle.id > @ THEN call[p].handle.id ELSE @]
             ELSE IF status \in {"refused", "conflict", "failed-before-publish"}
             THEN [told EXCEPT !.kept = @ /\ call[p].own = 0] ELSE told

Kept == UNCHANGED <<config, durable, changes>>
Quiet == UNCHANGED <<ledger, owner, seen>>

\* The lock is released whatever happened.  When that fails, what was published
\* is answered as unverified.
Release(p, fails) ==
  /\ At(p, "release")
  /\ fails => seen.stops < MaxStops
  /\ seen' = [seen EXCEPT !.stops = @ + IF fails THEN 1 ELSE 0]
  /\ lock' = None
  /\ IF call[p].what = "publish"
     THEN Answer(p, IF fails /\ call[p].status \in {"published", "already-published"}
                    THEN "publication-unverified" ELSE call[p].status)
     ELSE call' = [call EXCEPT ![p] = Idle] /\ UNCHANGED told
  /\ Kept /\ UNCHANGED <<ledger, owner>>

-----------------------------------------------------------------------------
(* Publication.                                                            *)

\* checkAuthorityQuiescence: nobody else is at work, and every execution of the
\* ledger is over by a receipt of its own.
Over(r, w) == r.status = "over" /\ r.run = w

\* Mutant of Quiescent: any terminal receipt will do.
QuiescentByStatus ==
  /\ drained
  /\ receipt.status = "over"
  /\ row # 0 => receipt.status = "over"

Quiescent ==
  /\ drained
  /\ receipt.status = "over"
  /\ row # 0 => Over(receipt, row)

Publish(p) ==
  /\ At(p, "idle")
  /\ \E request \in Request :
       call' = [call EXCEPT ![p] =
                  [what |-> "publish", at |-> "ask", request |-> request, handle |-> None,
                   status |-> "refused", own |-> 0]]
  /\ Kept /\ Quiet /\ UNCHANGED <<lock, told>>

\* The scope, both contents and the current file are looked at before the lock.
Ask(p) ==
  /\ At(p, "ask")
  /\ IF /\ accepts
        /\ Canonical(q(p).target) /\ Replaceable(q(p).expected)
        /\ Replaceable(config.data)
     THEN Goes(p, "lock", "refused") /\ UNCHANGED told
     ELSE Answer(p, "refused")
  /\ Kept /\ Quiet /\ UNCHANGED lock

\* A live owner's lock refuses at once.
TakeLock(p) ==
  /\ At(p, "lock")
  /\ IF lock = None THEN lock' = p /\ Goes(p, "read", "refused") /\ UNCHANGED told
     ELSE IF call[p].what = "publish" THEN Answer(p, "refused") /\ UNCHANGED lock
     ELSE call' = [call EXCEPT ![p] = Idle] /\ UNCHANGED <<lock, told>>
  /\ Kept /\ Quiet

\* The compare of compare-and-swap, and a new revision has a new generation.
Expected(p) ==
  /\ ~q(p).confirm
  /\ config.data = q(p).expected
  /\ Canonical(config.data) => config.data.generation # q(p).target.generation

\* Under the lock the file is opened and stays open; a target that is there
\* already is confirmed before anything else is asked.
ReadCurrent(p) ==
  /\ At(p, "read") /\ call[p].what = "publish"
  /\ call' = [call EXCEPT
       ![p].handle = config,
       ![p].at = IF ~accepts \/ ~Replaceable(config.data) THEN "release"
                 ELSE IF config.data = q(p).target THEN "confirm"
                 ELSE IF Expected(p) THEN "quiescence" ELSE "release",
       ![p].status = IF accepts /\ Replaceable(config.data)
                        /\ config.data # q(p).target /\ ~Expected(p)
                     THEN "conflict" ELSE "refused"]
  /\ Kept /\ Quiet /\ UNCHANGED <<lock, told>>

\* syncPublicationCurrent: what is on the path now survives a power loss.
Synced == durable' = {config}

\* Mutant of ConfirmCurrent: the target that is there is not synced again.
ConfirmUnsynced(p) ==
  /\ At(p, "confirm")
  /\ Goes(p, "check", "durability-unknown")
  /\ UNCHANGED <<config, durable, changes, lock, told>> /\ Quiet

ConfirmCurrent(p) ==
  /\ At(p, "confirm")
  /\ Synced
  /\ Goes(p, "check", "durability-unknown")
  /\ UNCHANGED <<config, changes, lock, told>> /\ Quiet

CheckConfirmed(p) ==
  /\ At(p, "check")
  /\ Goes(p, "release", IF ~Pinned(p) THEN "durability-unknown"
                        ELSE IF accepts THEN "already-published" ELSE "refused")
  /\ Kept /\ Quiet /\ UNCHANGED <<lock, told>>

AskQuiescence(p) ==
  /\ At(p, "quiescence")
  /\ IF Quiescent /\ accepts THEN Goes(p, "temp", "failed-before-publish")
     ELSE Goes(p, "release", "refused")
  /\ Kept /\ Quiet /\ UNCHANGED <<lock, told>>

\* The target is written and synced beside the file, then everything is asked again.
WriteTemp(p) ==
  /\ At(p, "temp")
  /\ Goes(p, IF accepts /\ Quiescent /\ Pinned(p) THEN "rename" ELSE "release", "failed-before-publish")
  /\ Kept /\ Quiet /\ UNCHANGED <<lock, told>>

Rename(p) ==
  /\ At(p, "rename")
  /\ changes' = changes + 1
  /\ config' = [id |-> changes', data |-> q(p).target, hand |-> FALSE]
  /\ durable' = durable \cup {config'}
  /\ call' = [call EXCEPT ![p].at = "sync", ![p].status = "durability-unknown", ![p].own = changes']
  /\ UNCHANGED <<lock, told>> /\ Quiet

SyncDirectory(p) ==
  /\ At(p, "sync")
  /\ Synced
  /\ Goes(p, "verify", "publication-unverified")
  /\ UNCHANGED <<config, changes, lock, told>> /\ Quiet

\* The path is opened again: the same file, the target's bytes, the same scope.
Verify(p) ==
  /\ At(p, "verify")
  /\ IF config.id = call[p].own /\ accepts
     THEN call' = [call EXCEPT ![p].at = "release", ![p].status = "published", ![p].handle = config]
     ELSE Goes(p, "release", "publication-unverified")
  /\ Kept /\ Quiet /\ UNCHANGED <<lock, told>>

\* A read, a write or a sync fails; the answer is that of the last step.
StepFails(p) ==
  /\ call[p].at \in {"read", "confirm", "temp", "rename", "sync", "verify", "leased"}
  /\ seen.stops < MaxStops /\ seen' = [seen EXCEPT !.stops = @ + 1]
  /\ Goes(p, "release", IF At(p, "confirm") THEN "durability-unknown" ELSE call[p].status)
  /\ Kept /\ UNCHANGED <<lock, told, ledger, owner>>

-----------------------------------------------------------------------------
(* Mutations: under a lease, and those in use.                             *)

Writes(engine) == Canonical(config.data) /\ config.data.writer = engine /\ engine \in Engine

\* withAuthorityMutation: first without the lock.
Mutate(p) ==
  /\ At(p, "idle")
  /\ \E engine \in Engine :
       /\ Writes(engine) /\ accepts
       /\ call' = [call EXCEPT ![p] =
                     [what |-> "mutate", at |-> "lock", request |-> engine, handle |-> None,
                      status |-> "refused", own |-> 0]]
  /\ Kept /\ Quiet /\ UNCHANGED <<lock, told>>

\* withLockedCanonicalAuthority: again under it, then synced and leased.
GrantLease(p) ==
  /\ At(p, "read") /\ call[p].what = "mutate"
  /\ call' = [call EXCEPT ![p].handle = config,
                          ![p].at = IF Writes(q(p)) /\ accepts THEN "leased" ELSE "release"]
  /\ IF call'[p].at = "leased" THEN Synced ELSE UNCHANGED durable
  /\ UNCHANGED <<config, changes, lock, told>> /\ Quiet

\* What a verb does to the ledger: a row, its receipt, a claim, its end.
Starts == row' = seen.runs + 1 /\ seen.runs < MaxRuns /\ (row = 0 \/ Over(receipt, row)) /\ UNCHANGED receipt
Records(status) == row # 0 /\ ~Over(receipt, row) /\ receipt' = [run |-> row, status |-> status] /\ UNCHANGED row
Forgets == row # 0 /\ Over(receipt, row) /\ row' = 0 /\ UNCHANGED receipt
LedgerStep ==
  /\ Starts \/ (\E status \in {"active", "finishing", "over"} : Records(status)) \/ Forgets
  /\ seen' = [seen EXCEPT !.runs = IF row' > @ THEN row' ELSE @]

UnderLease(p) ==
  /\ At(p, "leased")
  /\ Pinned(p) /\ accepts        \* authorityLease.validate
  /\ LedgerStep
  /\ UNCHANGED <<config, durable, changes, lock, told, owner>>
  /\ \/ UNCHANGED call
     \/ call' = [call EXCEPT ![p].at = "release", ![p].handle = None]

Returns(p) ==
  /\ At(p, "leased")
  /\ call' = [call EXCEPT ![p].at = "release", ![p].handle = None]
  /\ Kept /\ Quiet /\ UNCHANGED <<lock, told>>

\* A verb in use takes the lock for each of its steps.
Verb ==
  /\ lock = None
  /\ LedgerStep
  /\ UNCHANGED <<config, durable, changes, lock, call, told, owner>>

-----------------------------------------------------------------------------
(* The world: editors, the controller, kills and power losses.             *)

Acts == seen.acts < MaxActs /\ seen' = [seen EXCEPT !.acts = @ + 1]

Edit(data) ==
  /\ Acts
  /\ changes' = changes + 1
  /\ config' = [id |-> changes', data |-> data, hand |-> TRUE]
  /\ durable' = durable \cup {config'}
  /\ UNCHANGED <<lock, call, told, ledger, owner>>

Decides ==
  /\ Acts
  /\ \/ accepts' = ~accepts /\ UNCHANGED drained
     \/ drained' = ~drained /\ UNCHANGED accepts
  /\ Kept /\ UNCHANGED <<lock, call, told, ledger>>

Stops == seen.stops < MaxStops /\ seen' = [seen EXCEPT !.stops = @ + 1]

Kill(p) ==
  /\ ~At(p, "idle") /\ Stops
  /\ call' = [call EXCEPT ![p] = Idle]
  /\ lock' = IF lock = p THEN None ELSE lock
  /\ Kept /\ UNCHANGED <<told, ledger, owner>>

PowerLoss ==
  /\ Stops
  /\ \E left \in durable : config' = left /\ durable' = {left}
  /\ call' = [p \in Process |-> Idle] /\ lock' = None
  /\ UNCHANGED <<changes, told, ledger, owner>>

Init ==
  /\ config = [id |-> 0, data |-> First, hand |-> FALSE]
  /\ durable = {config} /\ changes = 0
  /\ lock = None
  /\ call = [p \in Process |-> Idle]
  /\ told = [id |-> 0, kept |-> TRUE]
  /\ row = 1 /\ receipt = [run |-> 1, status |-> "over"]
  /\ accepts = TRUE /\ drained = TRUE
  /\ seen = [acts |-> 0, stops |-> 0, runs |-> 1]

Publishes(p) ==
  \/ Publish(p) \/ Ask(p) \/ TakeLock(p) \/ ReadCurrent(p)
  \/ ConfirmCurrent(p) \/ CheckConfirmed(p) \/ AskQuiescence(p)
  \/ WriteTemp(p) \/ Rename(p) \/ SyncDirectory(p) \/ Verify(p)
  \/ StepFails(p) \/ \E fails \in BOOLEAN : Release(p, fails)

Next ==
  \/ \E p \in Process :
       Publishes(p) \/ Mutate(p) \/ GrantLease(p) \/ UnderLease(p) \/ Returns(p) \/ Kill(p)
  \/ Verb
  \/ \E request \in Request : Edit(request.target)
  \/ Decides \/ PowerLoss

Spec == Init /\ [][Next]_vars

-----------------------------------------------------------------------------
(* Properties.                                                             *)

TypeOK ==
  /\ config \in durable
  /\ \A c \in durable : c.id <= changes
  /\ lock # None => ~At(lock, "idle") /\ call[lock].at \notin {"ask", "lock"}

\* What was answered as published is never taken back: no power loss leaves an
\* older declaration, and a call that answered a refusal, a conflict or a
\* failure before the publication has replaced nothing.
AnswersStand ==
  told.kept /\ \A c \in durable : c.id >= told.id

\* While a mutation holds its lease, its engine is the declared writer, unless
\* the file was edited by hand: no publication comes between.
LeaseHolds ==
  \A p \in Process : At(p, "leased") => Writes(q(p)) \/ config.hand

\* Types, answers and leases: what was said to be in force is.
AuthorityHolds == TypeOK /\ AnswersStand /\ LeaseHolds

\* The writer changes only between executions, and only from the content the
\* controller approved the change of, or an edit by hand is lost.
SwitchesQuietly ==
  [][\A p \in Process : At(p, "rename") /\ call'[p].at = "sync" =>
       /\ row = 0 \/ Over(receipt, row)
       /\ config.data = q(p).expected \/ config.hand]_vars
=============================================================================
