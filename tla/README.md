# TaskChain Task Manager: verification project

TaskChain keeps a repository's tasks as Markdown cards on a board, hands a task
to one owner at a time, gives the owner an isolated worktree, integrates the
finished branch into the source branch, and judges whether a board is ready.
Everything it decides is kept in files that commands share, in several worktrees
and on several hosts, and every command may be killed at any point. This
directory holds TLA+ models of that program, the TLC configurations that check
them, and TLAPS proofs about them. Paths below are relative to `src/`.

## 1. The system

### Inventory

One Go binary, `cmd/taskchain-task-manager`, over packages under `internal/`.
There is no daemon: every component is a set of operations that a command runs
once, on files it shares with other commands. `PROJECT.json` lists the components
with their files and status; those with state or concurrency are:

| Component (main sources) | State it keeps | Operations | What makes it correct |
|---|---|---|---|
| Runtime mutation lock (`taskruntime/lock.go`) | `mutation.lock` and its reclaim guard | lock, reclaim, unlock, `lockBlocks` | one holder, a live owner's lock never taken, a dead one's reclaimed |
| Integration queue and adapter (`integrationqueue`, `taskruntime/integration_request.go`) | requests with revision, worker claim, outcome | enqueue, admit, execute, cancel, recover, resume | FIFO per resource, one integration per resource, no provider run repeated |
| Board session, claims, transitions (`taskstore`) | card files, `.claims.json`, `.transitions.json`, two lock directories | claim, release, transition, recover | one card per task, a pending move finishes with its claim and loses nothing |
| Execution lifecycle (`taskruntime`) | a ledger row per task, receipts, branches | run-start, -finish, -recover, -abort, -settle, -close, -discard | a finishing execution is left alone, an ended one stays ended, DONE means landed |
| Shared identifiers (`taskstore/ids.go`, `shared_*.go`) | a common state and a ledger per worktree | create, reserve-ids, init, enable-shared | an identifier is given out once |
| Storage operations, archive capacity (`taskstore/repair*`, `relocation*`, `archive*`) | a common marker, a journal per family, card files | adopt, repair, relocate, archive, upgrade, resume | whole to every other command, nothing of an editor's lost, finished by repetition |
| Bundle publication (`taskstore/bundle_*.go`) | record, marker, ledger, cards, batch | publish, resume | identifiers issued once, whole to others |
| Policy activation and revision (`taskstore/policy_*.go`) | receipt, policy, journal, common announcement | activate, revise, join, resume | active only when complete, history never lost |
| Owner rejoin (`taskstore/owner_rejoin*.go`) | plan, receipt, rewritten files, common announcement | prepare, apply | let in only when whole, no identifier reissued |
| Execution authority (`taskruntime/authority_*.go`) | the declaration of who writes the ledger | publish, confirm, mutate under a lease | an announced writer stands until its successor, and changes only when quiet |
| Context registry, evidence links (`taskstore/context_*.go`, `intentdoc`) | immutable documents | register, link | never overwritten, references resolve, counters true |
| Card verbs (`taskflow/move.go`, `newcard.go`, `promote.go`, `cardid`) | card files, number reservations | move, archive, new, promote | no number twice from the ledger, no text lost unseen |
| Manual cards (`taskflow/manual_*.go`, `manualzone`) | stamped cards, entry and close records | enter, exit, reissue, resume | a card comes out as it went in |
| Board maintenance (`boardruntime`, `taskruntime/guard.go`) | files set aside | reconcile, cleanup, maintenance | nothing removed under an execution |
| Board capture (`boardfiles`, `taskflow/cards_only_capture*.go`) | none | two passes and a comparison | two matching observations; the board of one moment as far as change times tell |
| Completion gate (`taskflow/gate.go`, `validate.go`, `lint.go`, `preflight.go`) | none | the passes of `task gate` | ready means that the board was measured |
| Gate evidence (`taskflow/gate_evidence*.go`, `change_id.go`) | receipts under `taskchain/gates` | bind, file, check | a verified receipt names a tested commit |

Without state of their own, and not modelled (section 6): reports and other
renderings, the card codec, declarations, git queries, role documents,
output vocabulary, release workflow, paths and times.

### How the parts interact

- A transition needs the **claim** of its task; claim, journal and cards change
  under one **board session** (the namespace's lock directory, then the board's).
- Storage operations, bundles, policy changes and rejoins announce themselves in
  the **common state** of the namespace; other commands refuse while one is
  pending, and its own request finishes it.
- An execution's verbs change the ledger under the **mutation lock**;
  `run-finish` gives it up while the provider integrates, leaving a FINISHING
  receipt as its claim.
- The **queue** admits a request when its resource is free and calls the
  **adapter** outside the queue's own lock.
- Board maintenance takes the mutation lock, the card verbs take none, the
  completion gate and the capture only read. A ready gate files a receipt.
- Editors, git and CI scripts know nothing of any of these locks.

### What is hard

Interleavings of short commands around lock files; judgements (a pid is dead, a
card is unchanged, a row is current) used after what they rest on may have
changed; kills between any two file operations, with recovery by another
invocation; work outside a lock on the strength of a durable claim; wrong
declarations that a remote process is dead; repeated requests; readers that look
at a board, a log or a repository piece by piece. `PROJECT.json` "hazards" lists
them at their lines with the properties that cover them.

## 2. Modules

Each module's head comment says which files it models; `PROJECT.json` "map" gives
the lines of each definition. Here: how state and actions correspond, and what is
assumed.

### MutationLock (proofs in TaskRuntime_proofs)

`taskruntime/lock.go`, one action per file operation. `lockFile` and `guardFile`
are the two files, with the process whose bytes they hold and whether those are
written yet; `place[p]` is where it is in `lock()` or `reclaimDeadLock()`; `seenOwner[p]`
is the owner read before the guard was taken. GuardTimeout and WriteFails are the
error paths; Crash kills a process anywhere and leaves its files.

Assumed: the bytes of two lock files never agree by accident (pid, host and
creation second); file operations other than the write fail only by the process
dying. A process killed with the guard leaves an orphan, which the liveness
property excepts.

### IntegrationQueue, QueueExecutor, QueueExecutor_proofs

`IntegrationQueue` is `integrationqueue/store.go`: what each operation requires
(`Can...`) and publishes, each under the queue's lock and against the revision its
caller read. The validation in `write` is not a guard of the model but its
invariant `QueueValid`. `QueueExecutor` adds the workers of `executor.go` and the
adapter: a worker is one invocation of `task integration execute` or `resume`, and
other workers, owners and kills act between its reads and publications. `native`
is what the provider durably did; a provider may outlive its worker. An error
return is a Crash at that point. `ResumeRevalidation` is exported and modelled
although no command calls it. `QueueConsistent` is the types, `QueueValid` and
`NoOvertaking` together. An unproven outcome carries the exit code of whichever
command failed, so it may carry any (`UnknownExit`); with 4 the queue takes it for
a refusal before any mutation (disagreement 3). `misread` remembers these requests,
and the properties say what each excepts of them.

### BoardTransitions, TaskBoard, BoardTransitions_proofs

Session, claims and journaled transitions under the built-in policy. `files[t][z]`
are the cards, `journal` the records with both card images of a pending one,
`claims` the ledger, `common` and `board` the lock directories. A command journals
a transition and runs `finishTransition` one file operation at a time: link the
target, recheck it, recheck the source, remove it, complete the record. Fail and
Kill may end it between any two; ClearCommon and ClearBoard are the operator. Edit
and Restore are an editor that honours no lock. Read-only commands would only add
contention, which Refuse stands for.

Assumed: the journal in memory is the one on disk, both locks being held; editors
keep a card parseable. Adopted policies, modules and archives are not in it.

`TaskBoard` is the abstract promise, without locks, journal or crashes: a task
stands in one zone and moves in one step along an edge, only while held, with
finished prerequisites where the policy asks for them. A pending card counts in
its source zone until its target is linked. The abstraction admits three effects of
editors: a card deleted after its move was prepared reappears at the target, a
prerequisite removed then stops nothing, and a card whose new copy an editor
removes while the move finishes is gone with it. `raced` remembers that an editor
acted between the last comparison of a file and its removal.

### ExecutionLifecycle (proofs in TaskRuntime_proofs)

The seven verbs for one task, for executions without an integration request. `row`
is the ledger row, `latest` the last receipt (the only one the verbs read), `refs`
what stands of each branch, `run[n]` the provider of FINISHING claim `n`, `landed`
the generations whose head is in the pushed source. `run-start` (create, save,
receipt), `run-finish` (claim, run, outcome), `run-discard` and the unlocked reads
of `run-settle` and `run-close` are steps; the other verbs are one. The lock is a
mutex that a killed holder gives back, which MutationLock justifies. Rows of other
tasks share only the lock.

A generation stands for the row's `CreatedAt` (`Binds` is `receiptBindsExecution`);
owner, host, purpose and type are folded into `Branch`. Exits 0 and 3 of the
provider mean the branch landed, 4 that it did not. DeclareClaimDead is the owner's
declaration about a claimant nobody can observe, right or wrong. `TerminalStays`
lets a receipt of a later generation follow: a run-start that cannot save its row
says BLOCKED for its own. Not in it: torn receipt lines, commits after the head was
captured, request-bound executions.

### SharedIds, SharedState_proofs

`state` is `state.json` in git's common directory, `local[w]` the ledger of
worktree `w`, `cards[w]` its identifiers, `head`, `history` and `trees` what git
has. Every command holds the namespace's lock from first read to last write, so
its reads are one step (`Plan`); what matters is where it stops. create,
reserve-ids and init publish to the common state, then the ledger, then the card.
enable-shared records the participants, binds one ledger after the other, reads
all again and activates, and can be resumed. Commit, Checkout, AddWorktree and
EditCard honour no lock. `spent` is what no new card may be given under sharing.
`create` asks for any identifier (`Unasked`) or for one. Not in it: import-ids,
reservation floors, the loss of the common state.

### StorageOperations (proofs in PendingMarkers_proofs)

Status repair, relocation, archive and the adoption of an archive as one protocol
with a family each, over boards of one card: a marker in the common state
(`Reserve`), a pending record in the family's journal (`Record`), the files
(`Publish`, `RemoveSource`), the receipt, and the marker cleared. `Begin` is the
request or its repetition; `Ordinary` is what any other command asks before it
works. Adoption (`Adopt...`) publishes the protocol numbers that keep older writers
out; the upgrade of the archive journal is `capacity`. Whether a file is what the
record says stands for the payload checks. `StorageHolds` is the types, `PendingMarked`
and `OrdinarySeesWhole`.

### BundlePublication, TaskIssue (proofs in PendingMarkers_proofs)

The record is saved before the marker; from then on every step repeats what the
record says. A worktree that is given one of the identifiers in between makes the
resumption fail for good, as `docs/task-bundles.md` says. `TaskIssue` is the
abstract promise, that an identifier is issued once and never taken back, and
`BundlePublication` implements it.

### PolicyAuthority, SharedState_proofs

An authority is a number nobody used before; it stands in four files of a board and
in the common state. `Announce` publishes a plan per worktree, then each board
gets its files one by one, and the last step declares the policy active. Every
step checks that a board is where the plan found it or where it leads. Local and
shared activation, revision, joining, and their resumptions are actions, as are
acts of git that bring an older tree back. The archive binding is left out.

### OwnerRejoin, SharedState_proofs

A board copied with its history is brought back under its own name, in a worktree
of the same repository or in an independent clone. A file is abstracted to the plan
that wrote it and how often it was written since. Preparation reads only; the
operator vouches that the source is at rest. The application goes from plan and
payload over the pending receipt and the announcement to the files, looks at
everything again, completes the receipt and clears the announcement. Policies and
identifier floors are left out.

What the model shows besides its properties: the preflight of an application does
not look at the target's files, so an outdated copy is refused only after the
announcement has stopped every command, and there is no abort; moved refs while
the rejoin is pending block its resumption; a second rejoin in one clone is
refused for ever. `Resumed` excepts these.

### ContextRegistry (proofs in RegistryAndCards_proofs)

`registry` maps a key (kind, ID, revision) to a document; `told` is what callers
were answered. A digest is the document itself, or `None` for that of something
else. The session lock makes a command one step that may be killed once its link is
there. The guard against 32-bit overflow of the counters is in the model and its
bound (`MaxCount`) is small. Refused commands are no steps.

### CardFiles, CardVerbs, BoardMaintenance, CardBoard (proofs in RegistryAndCards_proofs)

`CardFiles` gives the cards as files with who saved them last, their status and
links; `CardVerbs` the verbs `move`, `archive`, `new` and `promote` with the
search for the highest number and its reservation; `BoardMaintenance` `reconcile`, `cleanup` and a
`maintenance` plan of one move. `CardBoard` interleaves them file operation by
file operation with editors. Verbs take no lock, so a write after a rename can
duplicate or resurrect a card, and a failed promotion removes cards that earlier
links still name (`promote.go:81`); none of this loses a saved text that nobody
looked at, which is what `NothingLostUnseen` says. It excepts what the code
excepts: a card created between staging and exchange is swapped away
(`maintenance_live.go:15`), and `os.Rename` replaces although `reconcile_move.go`
speaks of publishing without replacement.

A creation without `--id` lists the directories of the board (`Floor`), then each when
the walk comes to it (`ListZone`), opens their files (`ReadFile`), asks git
(`RefFloor`), and only then locks the ledger and takes the next number; cards come,
go and move between any two of these steps. With `--id` it writes a card of that
number at once, without reading board or ledger (`NewById`). So `NumbersOnce` is what
the ledger can give: its number is in no commit message, no other creation has it from
the ledger, no card with a number of the ledger bears it wherever it went since, and
no other card that has stayed where it is since the search began (`stayed`). Excepted
is a card with a number of its own, by `--id` or from the start, that came, or was moved
to where the walk had been, while the search went on: it may get a namesake, and in the
instance it does. So may, at any time, a card made with `--id`; the code checks nothing there.

### ManualCards, ManualCards_proofs

Entering, leaving and reissuing a manual card, for one caller at a time, with
rollbacks, kills (torn writes), resumptions, and a human who writes receipts and
verdicts and edits. Assumed: the caller names an existing card or repeats its own
request, and reads do not fail. `ManualKept` is the types, `LeavesAsEntered`,
`Settles` and `TextSurvives`. `Settles` excepts, as `seen.undone`, what two faults
leave half undone: a repeated entry whose record is staged already publishes it and
does not look at the links again (`resumeStagedEntry`), so links that were undone
before it stay undone; and a rollback killed between `rollbackMoved`'s move and its
write leaves a card with the other zone's status, which a later entry takes for its
baseline. A torn write leaves an empty partial record that every repetition refuses; a
killed request's partial blocks other requests of its generation. No command calls
this code yet.

### AuthorityPublication (proofs in LooseProtocols_proofs)

The declaration of the ledger's writer, replaced by a rename under the mutation
lock (Darwin only; no command calls it yet, and the verbs in use never look at it,
`docs/lifecycle-authority.md`). Kills, a power loss that brings back any content not
yet overwritten by a sync, and an editor's replacement are actions. An editor that
saves between the recheck and the rename is lost; `AuthorityHolds` excepts what
a hand wrote. It is the types, `AnswersStand` and `LeaseHolds`.

### BoardCapture (proofs in LooseProtocols_proofs)

The candidate policy, the git index and two walks over the board, one system call
at a time, while writers replace, move and put back files and the index. The code
promises two matching observations, "not an atomic filesystem snapshot"
(`boardfiles/cards_only_capture.go:22`), and does not exclude "transient ABA
substitutions" (`taskflow/cards_only_capture_git.go:15`). `CaptureIsOneMoment` says
what these observations amount to under one assumption, that each change of a file or
directory leaves a change time it did not have before (inode and change time are what
`captureFDIdentity` compares; changes within one tick of the clock are out of reach of
both). Of the index the code compares inode, size and modification time, which one
that was renamed away and is renamed back still has: `PutIndexBack` is that writer,
and after it (`swapped`) nothing is said of the tracked paths. Renaming the
board's directory itself, and a ref source changed and changed back, are left out.

### BoardGate (proofs in LooseProtocols_proofs)

`task gate`: validate, lint, preflight and the checked bindings, in this order up
to the first that fails, or, with declared file roles, a scan and the lint
first. The gate takes no lock and walks the tree again for each pass. As in
`filepath.WalkDir`, a walk lists the tasks directory once (`ListTasks`) and then each
directory it found when it comes to it (`FindCards`, `RunBindings`), while Move and
Write change the board and Turn the outcome of a command; a move makes its zone's
directory if there is none, and a walk that has begun never visits it.
`ReadyIsMeasured` states what "ready" still means then: a file nobody touched has been
filed, read, validated, its checked bindings held, and its open criteria were probed
and did not, or the probe gave no answer (it cannot start, is not supported or runs
out of time, `admission.go:88`; `silent` remembers those); a file moved to a directory
that the walk under way found and reaches later has been measured too. A file moved
the other way (a claim, from `todo` to `doing`), or to a directory that was made during
a walk, may have escaped every pass, and the property says nothing of it: an invalid card
moved from `doing` to a new `todo` during `validate` passes the gate.

Abstracted: card validity is one bit; ID parity, evidence directories, symbolic
links and `--base` snapshots are left out, and no directory is removed. That the
bindings pass counts files that are no cards is disagreement 8.

### GateEvidence (proofs in LooseProtocols_proofs)

A CI run writes a log whose first and last lines carry the state of git and a run
ID; `task gate-evidence` reads the log in pieces and git in separate calls, binds
the log to HEAD and files a receipt whose name holds its hash; `CheckGateEvidence`
checks a block a card quotes. People commit, amend, switch, integrate and edit in
between, CI runs rewrite the log, and time passes. `VerifiedIsTested` says that a
verified block names a commit that a complete, clean, passing run tested after it
was made. The run IDs protect it against a rewritten log, the date against commits
and amends. Not protected: HEAD sent to another existing commit between the calls
can make a block mix two commits; `mixed` excepts those.

Abstracted: histories have no merges; malformed lines, trailers, time formats,
`FAIL` lines and exit codes fold into `pass`; `--log` may name any log.

### Instances that hold several components

`PendingMarkers`, `LooseProtocols`, `RegistryAndCards` and `ExceptionalSessions`, with
their instances, and `MCRecoveries` are sums: `which` chooses a component at the start,
whose files then change while those of the others rest (in one initial state). The
components of a sum write no common file, with one exception: storage, bundles,
policies and rejoins meet in the common state, where a pending one refuses the
others; that refusal is in neither of these modules.

## 3. What the runs check

| Run | Instance | Shows |
|---|---|---|
| `mutation_lock` | three processes on one host, or the third elsewhere; a kill anywhere | `MutualExclusion`; a live owner's file is never removed or replaced by another (`LiveLockKept`); a lock file blocks readers while anybody may mutate (`MutationBlocksReaders`); a dead owner's lock is reclaimed (`DeadLockReclaimed`) |
| `integration_queue` | two owners, one resource, three submissions of which two share a key, three workers | FIFO and validity (`QueueConsistent`), one integration per resource, orphaned providers included, `OutcomeTruthful`, `NeverRerun`, each but for requests that exit 4 made look refused |
| `board_transitions` | two commands, two dependent tasks, one request ID used for two moves, two faults, one act of an editor | one card per task and pending moves with their claims (`BoardConsistent`), `NoBytesDiscarded`, the refinement of `TaskBoard` |
| `recoveries` | the board without editors, and a lifecycle with one claim, a review branch and failing saves | every pending transition is completed (`PendingResolved`), a dead claimant's claim is released (`ClaimResolves`) |
| `execution_lifecycle` | two commands on two hosts, two generations, two claims, one kill, failing saves | `LedgerConsistent` (a claimant's execution is not ended under it), `TerminalStays`, `DoneMeansLanded` |
| `shared_ids` | two commands, two worktrees of which one may come later, two identifiers, two faults, one act of git or an editor | `IssuedOnce`, `IdsConsistent` (the common state knows what a bound ledger knows), `ActivationEnds` |
| `pending_markers` | two boards, three requests and the upgrade of the archive journal, or two bundles; one kill, one act of an editor | `OthersSeeWhole`, `EditsKept`, the refinement of `TaskIssue`, `Finished` |
| `exceptional_sessions` | two worktrees and two policies, or two copies and two rejoins; one fault | `ActiveIsComplete`, `ChainKept`, `LetInWhole`, `NotReissued`, `Resumed` |
| `registry_and_cards` | two intents, a batch, two iterations, four receipts; or two commands on a card board with an issue, a task in doing and a finished one, a number asked for by hand, and one act of an editor | `ToldHolds`, `ReferencesStand`, `CountersTrue`; `ActiveKept`, `NothingLostUnseen`, `NumbersOnce` |
| `loose_protocols` | an authority with two controllers; a capture with two acts of writers; a manual card with two requests, two calls and two stops; a gate over two files, in directories that are there or not, with one act of others; three commits, two CI runs and one evidence command | `AuthorityHolds`, `SwitchesQuietly`; `CaptureIsOneMoment`; `ManualKept`; `GateHolds`; `EvidenceHolds` |
| `lifecycle_stale_done`, `storage_protocol` | the smallest bounds that show it | two disagreements (section 4) |

### Bounds

Three lock users are the fewest with a dead owner, a fast reclaimer and a slow one.
Three workers give a first, its recovery and a late third; the third submission
collides with the first one's key. Two board commands with two faults reach a crash
in the recovery of a crash. Two generations let a receipt of the first meet the row
of the second; two claims let the first claimant report after the second was
written. Two identifiers in `shared_ids` leave a hole and run out, and three in a
bundle let another worktree take one. One act of an editor or of git at every point
is what the checks of the journaled operations look for; two would let the editor
undo its own act, which the comparisons cannot see either. Two iterations make a
lineage. Two files and eight texts, each of which stops another pass of the gate,
let one file move while the other is read. Three commits are a base, the tested
commit and one that comes in between; all have the same tree, so that only hashes
tell them apart. A manual card meets two stops: the second one finds what the first one's
rollback left.

Every bound (`Max...`) stands in a guard and is a CONSTANT, or a parameter of the
instance in a sum. Deadlock is not checked: every model stops when its
commands have ended and its bounds are used up. Symmetry is used over processes,
in `board_transitions`, `registry_and_cards` and `loose_protocols`, where no
liveness is checked.

In `integration_queue` an unproven outcome carries a negative code, which makes it
invalid, 4, which the queue takes for a refusal, or 2, which stands for all others.
On the card board the task in doing has number 2, the finished one number 1, as have
the commits, and 3 is asked for by hand, so that three of four numbers are taken by
other ways than the ledger; `todo` may have a directory before it has a card. In the
gate's instance the directories are `plan` and those that hold a file, so a move
finds its directory or makes it. The branch of `loose_protocols` starts at a
source that its origin knows.

### Fairness

- `mutation_lock`: each process's own steps; a command that runs goes on. Kills
  are never fair, in any run.
- `recoveries`: commands go on; the user repeats the request of a pending
  transition (strong fairness, as another command may hold the lock whenever it is
  tried); the operator clears lock directories that a kill left; a provider ends;
  somebody runs `run-recover` on each host. The messages of the code ask for each
  of these.
- `shared_ids`: commands go on, the operator clears lock directories, and the user
  repeats `enable-shared --resume`, which every refusal asks for.
- `pending_markers`: commands go on; the request of a pending operation, the
  upgrade and the bundle are repeated.
- `exceptional_sessions`: commands go on; the pending change of policy is resumed;
  a rejoin is repeated until it is done (strong fairness: its commands refuse and
  do not queue while another holds the locks).

## 4. Disagreements between the code and what it says

With a run:

1. **A new execution closed by an old receipt** (`lifecycle_stale_done`). The DONE
   receipt of `run-recover` names no generation and `validateDoneReceipt` then
   compares none. If the next `run-start` ends between saving its row and its
   receipt, its execution counts as DONE.
2. **The permanent protocol goes back** (`storage_protocol`). An archive of a second
   worktree sets the common protocol to 4 although the first worktree's upgrade
   made it 5; `docs/archive.md:34` calls these markers permanent.

Stated in the modules, outside the runs:

3. **An uncertain integration can leave running.** `integration_request.go:222`
   says that an uncertain result stays running until reconciliation; `unknown(...)`
   copies the exit code of whichever subcommand failed, and `normalizeOutcome`
   turns an exit 4 into revalidation-required
   (`QueueExecutor.UncertainStaysRunning` excepts just these requests).
4. **An editor's bytes can be removed.** `transition_recovery.go:95` says that
   changed bytes must never be discarded. The source is compared and then removed
   by path; a save in between is lost (`NoBytesDiscarded` without its last
   disjunct).
5. **A failed run-start reopens a closed execution.** When the row cannot be saved,
   the BLOCKED start receipt becomes the last receipt of the row it did not replace
   (`ClosedFreesTask`), although `start.go:66` says that a closed execution does
   not hold its task.
6. **A terminal record is moved.** `types.go:61` says that no further verb can move
   one; `run-discard` takes up one that abort, settle or close ended
   (`NoVerbMovesTerminal`). `TerminalStays` states what does hold.
7. **A rejoined board is shut out by its first transition.**
   `ownerRejoinTransitionTargetMatches` (`owner_rejoin_gate.go:116`) wants the
   transition journal to be the very bytes of the plan; the first claim or
   transition rewrites it, and every later command refuses
   (`OwnerRejoin.StaysAdmitted`), although `owner_rejoin_gate.go:148` names absent
   or pending evidence as what keeps a board closed.
8. **A board without an examined card is ready.** `gate.go:350-352` reserves exit 0
   "for a board the gate actually examined" and calls one whose cards all live in
   storage not measured; but the bindings pass counts every Markdown file outside
   storage before it asks whether it is a card (`gate.go:147`), so `tasks/README.md`
   alone makes such a board ready. `RunBindings` does the same, and
   `ReadyIsMeasured` asks for a file, not for a card.

## 5. What is proved

Each theorem is for every value of the constants: any number of processes, tasks,
worktrees or requests, any number of kills, failures and acts of editors. A proof
module first states the inductive invariant, shows that Init gives it and every
action keeps it, and then draws the checked properties from it. The invariants
were checked by TLC on the runs' instances before they were proved.

**TaskRuntime_proofs** is first about the mutation lock (`LockTypesHold`,
`LockMutualExclusion`, `ReadersBlocked`, `LiveLockNeverRemoved`), from
`LockAssumption`: the value for "no invocation" is none, placements are functions.
`MutualExclusion` is not inductive: a state in which a
reclaimer is about to remove a live owner's file satisfies it and the next step
breaks it. `LockInv` rules that out. A process inside the guarded section owns the
guard, so there is one; past its probe a reclaimer has seen the bytes of a dead
process (`SeenDead`), and the dead stay dead; from the second read to the removal
the file is still that process's (`TargetDead`), as nobody can create a file on a
taken path. Removal by path then removes what was judged. The comparison of the two
reads is where this rests: without it (`RereadWithoutCompare`) TLC finds two
holders.

Its other half is about the execution of a task (`LedgerConsistentAlways`,
`TerminalStaysAlways`, `DoneMeansLandedAlways`), from `LifecycleAssumption` and
`NoneAssumption` (the values for "no row" and "no receipt" are none). `LifeInv` holds what each command
may rely on at each step (`Fits`): under the lock, row and last receipt are what it
read; while `run-finish` works without the lock, its row and its FINISHING receipt
stand unless an owner declared the claimant dead, rightly or wrongly. A generic step
lemma (`StepKeeps`) asks of an action only what it does to the commands it is about and
shows that all bystanders keep theirs. `TerminalStays` and `DoneMeansLanded` are action
properties drawn from it.

**QueueExecutor_proofs** (`QueueConsistentAlways`, `OneIntegrationAlways`,
`OutcomeTruthfulAlways`, `NeverRerunAlways`, `UncertainStaysRunningAlways`), from
`QueueAssumption`. `Moved` says what any operation may do to one request; validity
and FIFO follow from it once, for all operations. The rest needs `QueueInv`: a
worker's view at the current revision is the request (`ViewsAgree`), a recorded
claim names the worker that made it, which nobody overtakes while it runs
(`ClaimsLive`, `AdapterHolds`), and a provider works only for a running request
(`ProviderTracked`, `AdapterKnows`). So a second worker gets in only after the first
is dead and the provider was looked at. Nothing is assumed of the exit codes of
unproven outcomes: the invariant lets go of a request in `misread`, and of no other,
once its provider is started. `UncertainStaysRunningAlways` says that this is all that
stands between the code and its comment (disagreement 3).

**BoardTransitions_proofs** (`BoardConsistentAlways`, `NoBytesDiscardedAlways`,
`ImplementsBoardAlways`), from `BoardAssumption` and `RequestAssumption` (requests
name tasks, owners and zones). One command at a time is past the repository lock
(`OneCommand`), so the argument is about what a killed one leaves: `Prepared` is
what a pending record keeps from the step that prepared it until a retry completes
it. Its claim stands, its move is an edge, its task's files are in the two
directories of the move, its two images have one body, and the prerequisites that
were checked have not moved. `FinishFits` says what each step of
`finishTransition` has established and what an editor may have undone since.
The refinement of `TaskBoard` goes step by step (`StepShows`): linking the target is
the abstract move (`LinkMoves`), with the edge, claim and finished prerequisites
taken from `Prepared` however long ago they were checked; a claim and a release are
theirs, an editor's act is an editor's act, and all else, recovery included, is
invisible. `ImplementsBoardAlways` is the same formula that the run checks.

**SharedState_proofs** proves about what the worktrees of a repository share.
`IdsConsistentAlways` and `IssuedOnceAlways` are about identifiers, from
`SharedIdsAssumption`. The namespace's lock leaves one command at work; the common
state only grows and is written first, so a bound ledger, a copy of it that git can
bring back and every spent identifier are within it (`LedgersCovered`,
`SpentKnown`), and `create` picks above or beside all it has read (`CommandFits`).
`IssuedOnce` needs the copies in git: without them a checkout would break the
invariant.

`PolicyActiveIsComplete` and `PolicyChainKept` are about policies, from
`PolicyAssumption` (bounds are numbers, there is a board, and the values for no file
and no session are nothing that is kept in files or in memory). The hazard is a change
that is announced, half done, killed, and resumed from its plans long after: what
they were made from may be gone. `PolicyInv` says what each plan keeps for that,
wherever it lies, in a receipt, in the common state or in a session. It departs from
the journal it found (`Chained`), which is all that `ChainKept` needs, because the step
that publishes a journal compares it with that one again; this half holds whatever git
and editors did, a receipt checked out from another board included. `ActiveIsComplete`
needs more: the session works on exactly the announced plans, one for each board
(`SessionSound`), the announcement raised the history barrier for all of them
(`PlansSound`), and, as long as neither git nor an editor meddled, the board at work shows
what its plan has published by now (`StageFits`), so that a receipt, once completed,
agrees with the board's files (`Undisturbed`). After the last board the final look at
all of them (`AllDone`) makes each a board that works (`FinishStep`).

`RejoinedWhole` and `RejoinedNotReissued` are about rejoins, from `RejoinAssumption`
(bounds are numbers, the source is no target, the values for nothing are no records).
`RejoinInv` says who knows which identifiers: a plan knows what was reserved at the
source, the ledger it leads to knows nothing else in a clone (`PlanKnows`), common
states and ledgers are initial segments of the numbers (`IdsKnown`), and a target gives
out nothing before its receipt is completed, which the common state has recorded by
then (`ReceiptFits`). So what a rejoined board gives out is beyond what its plan knew. `SessionFits` keeps apart the rejoin at work and those that are done, so
that only `Clear` can record one (`OnlyClearRecords`), and it looks at every file.

**LooseProtocols_proofs** proves about four of the five protocols of `LooseProtocols`.
`AuthorityHoldsAlways` and `SwitchesQuietlyAlways` are about the declaration, from
`AuthorityAssumption` (`None` is no process). `AuthInv` knows what a power loss
may bring back (`Survives`) and what the holder of the mutation lock has compared,
synced or leased at each step (`Fits`); nobody but an editor's hand can have changed
row, receipt or declaration since.

`ReadyIsMeasuredAlways` and `GateHoldsAlways` (the first of BoardGate alone, the second
of the sum that the run checks) are about the gate, from `GateAssumption` (the texts are such texts,
refused bindings are bindings, `MaxActs` is a number). `ReadyIsMeasured` speaks of the
answer; `GateInv` says what is known on the way to it. `PassFits`: whatever card a
file holds that nobody changed but to move it onward, the walk has read it once its
directory is behind, and its directory is among those the walk found; `FactsFit`: what
each finished pass found out of such files, or of those nobody touched at all. Acts of
others only take files out of these facts (`Loosens`): a file moved onward cannot
return to where the walk has yet to come, and one that is written, or moved to a
directory the walk does not know, is no longer spoken of.

`CapturedAtOnceAlways` (of BoardCapture alone) and `CaptureIsOneMomentAlways` (of the
sum) are about the capture of the board, from `CaptureAssumption` (`CaptureActs` is a
number). The moment of which the property speaks is the one at which the second
observation began. Every change gives a file or directory a new change time, so one
that has the time it had then is the one it was then (`ThenFits`). The second
observation must get what the first got, change times included, and the first is past
(`FirstFits`): so whatever the second has got so far is genuine at that moment
(`GotFits`), a directory it has left is complete (`QueueFits`), and the one it is in
is what it was as long as its time is (`HeadFits`). `IndexFits` says the same of the
listing and the index until an earlier index is put back; `EndFits` concludes for the
tree as a whole.

`VerifiedIsTestedAlways` (of GateEvidence alone) and `EvidenceHoldsAlways` (of the sum)
are about receipts of gates, from `EvidenceAssumption` (bounds are numbers, and there
may be a second commit). A reader combines what moves without it, and `EvidenceInv` has
a part for each: the lines of a log belong to one run, and a complete clean pass is one
that a run made (`LogsFit`); what the reader has of a log, rewritten while it reads, is
of one run if the run IDs agree (`ScanFits`); HEAD, subject and date come from separate
calls, and HEAD is what it was or a commit younger than the end of the log, unless it
was switched (`BindFits`). `StoreFits` concludes for the receipts on file that mix no
two commits.

**ManualCards_proofs** (`ManualKeptAlone` of ManualCards, `ManualKeptAlways` of the sum)
is about the manual zone, under `ManualParameters` (bounds are numbers, and the values
for no file and a torn one are no cards, records or names; a hypothesis, because it
quantifies over all values where it says "no cards, records or names", and TLC cannot
evaluate that; its instance meets it). A call holds no lock and
may be killed, or fail and turn back, after any of its writes; the next one has only
the files to go by. `ManualInv` says what they must show. `Data` is what nobody can
spoil: one file, whole or torn; published evidence that describes a whole card of its
generation; generations in the order of their derivation, so that a reissued one
cannot be entered twice (`Descends`). `Copied` has the text in the evidence before
the card's file may be torn. `StepFits` says of a call at each step in which of a few
forms the card is (as entered, stamped, stamped and turned) and what is staged beside
it: from it follow `LeavesAsEntered` and `TextSurvives`, edits, failures and kills
included. `StepCalm` says the same of a card that nothing disturbed, and of what a
kill makes of it there (`StoppedIsWell`): it is settled (`Proper`), or some
unanswered request leads on from it, an entry whose baseline or record is staged, an
exit whose generation is open and receipted, a reissue whose derived record is
staged (`Well`). When no request is left unanswered only the first remains, which is
`Settles`. The proof attempt corrected that property: a second entry that found its
record staged, and a rollback killed between its move and its write, leave links or
status half undone, and are excepted as `seen.undone`.

**PendingMarkers_proofs** proves about both kinds of operation that leave a marker
in the common state. `StorageHoldsAlways` and `EditsKeptAlways` are about those of
storage, from `StorageAssumption` and `MissingAssumption` (the value for a lost
journal is no journal). They are not inductive: a resumption writes
the journal again from a marker that was left by a killed command or outlived a lost
journal. `StorageInv` says that such a marker is good for that whenever it happens
(`MarkerFits`), that a pending record has its marker and the claim it was granted
for (`Marked`, `Granted`), that without a pending record a card is in one place
unless an editor was there (`Whole`), and what each session has established
(`SessionFits`). Steps that take up no record share one lemma
(`QuietKeeps`), as do all that take one up (`TakesUp`).

`BundleWholeAlways` and `BundleImplementsIssue` are about bundles, under
`BundleParameters`: requests ask for identifiers, and the values for no marker, no
journal, no file and a card of `create` are not also markers, journals or requests.
It is a hypothesis, and not an assumption of the module, because TLC cannot compare
its value for no journal with every set of records; its instance meets it. The
record is saved before the marker, so `BundleInv` cannot say that a pending record's
identifiers are free on other boards: only that they are, and are all reserved, once
its marker stands (`PendingFits`), and that no session is past `Reserve` without it
(`Stage`). What was given out on a board is in its ledger and, under sharing, in the
common state (`BoardFits`); an allocation picks above the greatest
(`AllocatedIsNew`), and a reservation refuses what is reserved. The refinement of
`TaskIssue`: completing a record is the one issue of all its identifiers
(`CompleteIssues`), a card of `create` is one of one (`CreateIssues`), all else is
invisible (`OthersIssueNothing`). `OthersSeeWholeAlways` and `ImplementsIssueAlways`
are the run's properties, of the sum of both.

**RegistryAndCards_proofs** proves about both halves of `RegistryAndCards`.
`ToldHoldsAlways` and, from `IntentsAssumption`, `ReferencesStandAlways` are about the
registry, which only grows (`NextGrows`): a publication adds one key
(`PublishGrows`), and what a document refers to was registered when it was published
(`PublishedStands`), and so stays. `CountersTrueAlways` (`CountsTrueAlways` of the
registry alone), from `RegistryAssumption` (`MaxCount` is a number): the code checks an
iteration's counters against its predecessor only (`validatePredecessor`), the property
speaks of the whole lineage. `Counting` names the lineage as a function from ordinals
to documents, so that one registration extends a function instead of a recursion, and
the truth of the new counters follows from that of the predecessor's
(`RegisteredCounts`).

`ActiveKeptAlways`, `NumbersOnceAlways` and `NothingLostUnseenAlways` are about the card
board, from `CardsAssumption`: bounds are numbers, and issues, tasks and special values
are different things and no integers. Nothing is assumed of the order of the tasks'
numbers, the commits' and those asked for by hand. None of the three is inductive. A verb takes no lock, so
what it may rest on is not the board but its own record of it: `CardsInv` says of
every command what its record must say at each step. A rename has seen its
destination empty; a stamp has in memory what it saw at the path (`CarriesFit`); a
rollback removes only what this command wrote (`CreatesFit`); what a cleanup has set
aside is what is no longer left to do, and what it removes for good is what
the pinned commit has (`CleanupFits`); only what is set aside is put back, and only
where nothing was seen (`RestoreFits`); the staged board has every file as the copy saw
it, but for the planned change (`MaintainFits`). Beside the record, each command may rest on
two things that it shares with others (`RunHolds`): the mutation lock, from which
`ActiveKept` follows, because `run-start` takes it too, and the reservation ledger,
where each number is recorded before it is used: so no creation at work and no card
with a number of the ledger has one beyond it (`Known`). What the ledger does not know, a search must
find: `ScanInv` says that of the cards that have stayed in their place since it began,
each is in a directory or a file still to be read or has been counted, however the
others come, go and move (`ScanKept`). `NumbersOnce` follows at `Reserve`, the only
step that gives a number out (`ReserveAlone`, `ReserveFresh`). `Advances` is the step lemma: an action has to show what it does to its
own record, and the others' records stay true because of the little it does to lock,
ledger and board (`Apart`). `NothingLostUnseen` is drawn from the invariant action by
action: of the actions that overwrite, remove or retain away a file, each destroys only
what its record contradicts (`Unseen`); all others leave the files where they are
(`StillSees`).

Every invariant and every action property of a passing run is a theorem, and so are
the two refinements. Only model-checked:

- liveness (`DeadLockReclaimed`, `PendingResolved`, `ClaimResolves`,
  `ActivationEnds`, `Finished`, `Resumed`): the proof system reaches neither it
  nor ENABLED.

The invariants of a sum are those of its components (`OthersSeeWhole`, `GateHolds` and
so on are the component's property, or another component is chosen); a theorem about
`Spec` is of the component, one about `Behaviour` of the sum.

## 6. Not modelled

The components of status `not_modelled` in `PROJECT.json`: parsing, rendering,
wording, read-only queries and rules on paths and times have no state to get wrong
in several steps. Within modelled components:

- request-bound executions (`integration_request.go` with `finish.go`): the queue
  sees their outcomes, the lifecycle does not see their receipts;
- import-ids, reservation floors, and the loss of the common state, which the code
  refuses to repair;
- module boards and archive completions as prerequisites;
- the refusal of one pending exceptional operation by another;
- the removal of git refs and worktrees in cleanup;
- the power loss of anything but the execution authority;
- validity rules of single cards, documents and payloads: they are one bit.

## 7. Plan

Modules: request-bound finish composed with the queue; import-ids and floors; the
common state shared by the exceptional operations; module boards.
