----------------------------- MODULE SharedIds -----------------------------
(***************************************************************************)
(* The task identifiers of a repository's worktrees (internal/taskstore:   *)
(* ids.go, store.go's Create and Init, shared_session.go, shared_enable.go,*)
(* shared_ledger.go, shared_snapshot.go; internal/githistory).  Each       *)
(* worktree's board has a ledger of reserved identifiers.  enable-shared   *)
(* binds the ledgers of all worktrees to one state file in git's common    *)
(* directory; from then on every command reserves there first, then in its *)
(* board's ledger, and only then publishes a card.                         *)
(*                                                                         *)
(* Commands take the namespace's lock directory, then their board's (the   *)
(* activation takes every board's), and fail at once if one is taken: one  *)
(* command is at work at a time, but a killed one leaves its locks.  A     *)
(* refusal changes nothing and is no step.  Git and editors honour no lock.*)
(* Identifiers are the numbers of one prefix: prefixes are independent.    *)
(***************************************************************************)
EXTENDS Naturals, FiniteSetsExt

CONSTANTS
  Process,    \* command invocations at work at one time
  Worktree, Registered,  \* worktrees, and the sets of them to begin with
  LastId,     \* the greatest identifier, 2^64 - 1 in the code
  Unasked,    \* no identifier was asked for
  Wanted,     \* identifiers that commands ask for, perhaps Unasked
  Common,     \* the place of the namespace's lock directory
  Free, Left, \* no lock directory; one whose command was killed
  NoCommand, NoPart,
  MaxFaults,  \* bound: commands that fail or are killed
  MaxEdits    \* bound: acts of git and of editors

ASSUME SharedIdsAssumption ==
  /\ Registered \subseteq SUBSET Worktree
  /\ LastId \in Nat \ {0} /\ Unasked \notin 1..LastId
  /\ Wanted \subseteq (1..LastId) \cup {Unasked}
  /\ Common \notin Worktree
  /\ Free \notin Process /\ Left \notin Process /\ Free # Left
  /\ MaxFaults \in Nat /\ MaxEdits \in Nat

VARIABLES
  state,    \* state.json: phase, reserved identifiers, activation's participants
  local,    \* the identifier ledger of each worktree's board
  cards,    \* the identifiers of the cards on each board
  head,     \* what each worktree's HEAD has of its board
  history,  \* identifiers of the cards that some ref reaches
  trees,    \* the registered worktrees
  lock,     \* the lock directories
  pc, cmd,  \* the step and the command of each process
  spent,    \* identifiers that must not be given to a new card any more
  faults, edits

git == <<head, history, trees>>
store == <<state, local, cards>>
procs == <<lock, pc, cmd>>
vars == <<state, local, cards, head, history, trees, lock, pc, cmd, spent,
          faults, edits>>

-----------------------------------------------------------------------------
(* Types.                                                                  *)

Id == 1..LastId

\* "nodir": no board; "none": no ledger; "local": schema 1 or 2; "bound":
\* schema 3, naming the one namespace there is.
Ledger == [kind : {"nodir", "none", "local", "bound"}, reserved : SUBSET Id]

NoBoard == [kind |-> "nodir", reserved |-> {}]

EmptyLedger == [kind |-> "none", reserved |-> {}]

Head == [cards : SUBSET Id, ledger : Ledger]

\* What the activation recorded of a participant.
Part == [head : Head, cards : SUBSET Id, ledger : Ledger]

Parts == [Worktree -> Part \cup {NoPart}]

NoParts == [w \in Worktree |-> NoPart]

State == [phase : {"absent", "initializing", "active"}, reserved : SUBSET Id,
          parts : Parts]

\* ids: the ledger a command is about to publish; id: that of its new card.
BoardCommand ==
  [op : {"create", "reserve", "init"}, tree : Worktree, want : Wanted,
   ids : SUBSET Id, id : Id \cup {Unasked}]

\* left: the boards the activation has not bound yet.
Activation == [op : {"enable"}, parts : Parts, ids : SUBSET Id, left : SUBSET Worktree]

Steps == {"idle", "plan", "common", "local", "link",
          "initialize", "bind", "recheck", "activate"}

Place == Worktree \cup {Common}

TypeOK ==
  /\ state \in State
  /\ local \in [Worktree -> Ledger]
  /\ cards \in [Worktree -> SUBSET Id]
  /\ head \in [Worktree -> Head]
  /\ history \subseteq Id
  /\ trees \subseteq Worktree
  /\ lock \in [Place -> Process \cup {Free, Left}]
  /\ pc \in [Process -> Steps]
  /\ cmd \in [Process -> BoardCommand \cup Activation \cup {NoCommand}]
  /\ spent \subseteq Id
  /\ faults \in 0..MaxFaults /\ edits \in 0..MaxEdits

-----------------------------------------------------------------------------
(* What commands read.                                                     *)

Sharing == state.phase # "absent"

\* observedIDs: the ledger and what the board shows.
Observed(w) == local[w].reserved \cup cards[w]

\* Mutant of Merged: a ledger takes part in sharing by its binding alone.
MergedIfBound(w, ids) ==
  IF local[w].kind = "bound" THEN ids \cup state.reserved \cup history ELSE ids

\* merge: under sharing every ledger, bound or not, is joined with the common
\* state and with git's history.
Merged(w, ids) ==
  IF Sharing THEN ids \cup state.reserved \cup history ELSE ids

Highest(ids) == Max(ids \cup {0})

\* allocateID: the number after the highest, unless it would overflow, or the
\* wanted one, unless it is reserved.
Allocated(ids, want) ==
  IF want = Unasked THEN {Highest(ids) + 1} \cap Id ELSE {want} \ ids

\* What a board looks like to the activation (activationSnapshot).
Snapshot(w) == [head |-> head[w], cards |-> cards[w], ledger |-> local[w]]

TargetLedger == [kind |-> "bound", reserved |-> state.reserved]

Participants(parts) == {w \in Worktree : parts[w] # NoPart}

\* verifyActivationBoards and the inventory check: the worktrees, their HEADs
\* and cards are as recorded, and the ledgers are as recorded or bound.
BoardsAsRecorded ==
  /\ trees = Participants(state.parts)
  /\ \A w \in trees :
       /\ head[w] = state.parts[w].head
       /\ cards[w] = state.parts[w].cards
       /\ local[w] \in {state.parts[w].ledger, TargetLedger}
       /\ Observed(w) \subseteq state.reserved

-----------------------------------------------------------------------------
\* The boards of the first worktrees are empty and have a local ledger.
Init ==
  /\ state = [phase |-> "absent", reserved |-> {}, parts |-> NoParts]
  /\ trees \in Registered
  /\ cards = [w \in Worktree |-> {}]
  /\ local = [w \in Worktree |->
       IF w \in trees THEN [kind |-> "local", reserved |-> {}] ELSE NoBoard]
  /\ head = [w \in Worktree |-> [cards |-> {}, ledger |-> local[w]]]
  /\ history = {}
  /\ lock = [x \in Place |-> Free]
  /\ pc = [p \in Process |-> "idle"]
  /\ cmd = [p \in Process |-> NoCommand]
  /\ spent = {}
  /\ faults = 0 /\ edits = 0

-----------------------------------------------------------------------------
(* Locks.                                                                  *)

CanLock(places) == \A x \in places : lock[x] = Free

Lock(p, places) ==
  lock' = [x \in Place |-> IF x \in places THEN p ELSE lock[x]]

Unlock(p, to) == lock' = [x \in Place |-> IF lock[x] = p THEN to ELSE lock[x]]

Goto(p, step, c) ==
  pc' = [pc EXCEPT ![p] = step] /\ cmd' = [cmd EXCEPT ![p] = c]

Leave(p) == Goto(p, "idle", NoCommand) /\ Unlock(p, Free)

-----------------------------------------------------------------------------
(* create, reserve-ids and init.                                           *)

\* The ledger each operation finds: init makes a board that is not there but
\* adopts none that has no ledger; reserve-ids --adopt does.
Admits(op, kind) ==
  \/ op = "create" /\ kind \in {"local", "bound"}
  \/ op = "reserve" /\ kind \in {"none", "local", "bound"}
  \/ op = "init" /\ kind \in {"nodir", "local", "bound"}

\* acquireShared, the board's lock and verifyBoard.  An interrupted activation
\* admits nobody, and a bound ledger needs the common state.
Enter(p, op, w, want) ==
  /\ pc[p] = "idle"
  /\ w \in trees
  /\ CanLock({Common, w})
  /\ state.phase # "initializing"
  /\ Admits(op, local[w].kind)
  /\ local[w].kind = "bound" => Sharing
  /\ op = "reserve" => want # Unasked
  /\ op = "init" => want = Unasked
  /\ Lock(p, {Common, w})
  /\ Goto(p, "plan", [op |-> op, tree |-> w, want |-> want, ids |-> {}, id |-> Unasked])
  /\ local' = IF local[w].kind = "nodir" THEN [local EXCEPT ![w] = EmptyLedger] ELSE local
  /\ UNCHANGED <<state, cards, git, spent, faults, edits>>

\* The ledger and the identifier are computed from what the board, the common
\* state and git show; then whatever can be refused without a trace is refused.
Plan(p) ==
  LET c == cmd[p]
      w == c.tree
      known == Merged(w, IF c.op = "init" THEN local[w].reserved ELSE Observed(w))
      next == IF Sharing THEN "common" ELSE "local"
  IN  /\ pc[p] = "plan"
      /\ \/ /\ c.op = "init"
            /\ Goto(p, next, [c EXCEPT !.ids = known])
            /\ UNCHANGED lock
         \/ /\ c.op = "reserve"
            /\ Goto(p, next, [c EXCEPT !.ids = known \cup {c.want}])
            /\ UNCHANGED lock
         \/ /\ c.op = "create"
            /\ \E n \in Allocated(known, c.want) :
                 Goto(p, next, [c EXCEPT !.ids = known \cup {n}, !.id = n])
            /\ UNCHANGED lock
         \/ c.op = "create" /\ Allocated(known, c.want) = {} /\ Leave(p)
      /\ UNCHANGED <<store, git, spent, faults, edits>>

\* Mutant of PublishCommon: only the new identifier is published.
PublishCommonNew(p) ==
  /\ pc[p] = "common"
  /\ state' = [state EXCEPT !.reserved = @ \cup ({cmd[p].id, cmd[p].want} \cap Id)]
  /\ Goto(p, "local", cmd[p])
  /\ UNCHANGED <<local, cards, git, lock, spent, faults, edits>>

\* publish: the common state first.
PublishCommon(p) ==
  /\ pc[p] = "common"
  /\ state' = [state EXCEPT !.reserved = @ \cup cmd[p].ids]
  /\ Goto(p, "local", cmd[p])
  /\ UNCHANGED <<local, cards, git, lock, spent, faults, edits>>

\* publishIDs: the board's ledger next, bound from now on if there is sharing.
\* A command without a card is finished then.
PublishLocal(p) ==
  LET c == cmd[p]
  IN  /\ pc[p] = "local"
      /\ local' = [local EXCEPT ![c.tree] =
           [kind |-> IF Sharing THEN "bound" ELSE "local", reserved |-> c.ids]]
      /\ IF c.op = "create"
         THEN Goto(p, "link", c) /\ UNCHANGED <<lock, spent>>
         ELSE /\ Leave(p)
              /\ spent' = IF Sharing THEN spent \cup ({c.want} \cap Id) ELSE spent
      /\ UNCHANGED <<state, cards, git, faults, edits>>

\* The card is published last, by a link that never overwrites.
LinkCard(p) ==
  LET c == cmd[p]
  IN  /\ pc[p] = "link"
      /\ cards' = [cards EXCEPT ![c.tree] = @ \cup {c.id}]
      /\ spent' = IF Sharing THEN spent \cup {c.id} ELSE spent
      /\ Leave(p)
      /\ UNCHANGED <<state, local, git, faults, edits>>

-----------------------------------------------------------------------------
(* enable-shared.                                                          *)

\* Every worktree has a board with a ledger; no board may be locked.
CanActivate ==
  /\ CanLock(trees \cup {Common})
  /\ \A w \in trees : local[w].kind \in {"local", "bound"}

\* A first activation reads all boards and git's history.
EnableFirst(p) ==
  /\ pc[p] = "idle"
  /\ state.phase = "absent" /\ trees # {}
  /\ CanActivate
  /\ \A w \in trees : local[w].kind = "local"
  /\ Lock(p, trees \cup {Common})
  /\ Goto(p, "initialize",
       [op |-> "enable",
        parts |-> [w \in Worktree |-> IF w \in trees THEN Snapshot(w) ELSE NoPart],
        ids |-> history \cup UNION {Observed(w) : w \in trees},
        left |-> trees])
  /\ UNCHANGED <<store, git, spent, faults, edits>>

\* From here on only activation may touch the boards.
Initialize(p) ==
  /\ pc[p] = "initialize"
  /\ state' = [phase |-> "initializing", reserved |-> cmd[p].ids, parts |-> cmd[p].parts]
  /\ Goto(p, "bind", cmd[p])
  /\ UNCHANGED <<local, cards, git, lock, spent, faults, edits>>

\* Mutant of CanResume: a ledger that is already bound counts as changed.
CanResumeUnbound ==
  /\ BoardsAsRecorded
  /\ \A w \in trees : local[w] = state.parts[w].ledger

CanResume == BoardsAsRecorded

\* enable-shared --resume after an interruption.
EnableResume(p) ==
  /\ pc[p] = "idle"
  /\ state.phase = "initializing"
  /\ CanActivate /\ CanResume
  /\ Lock(p, trees \cup {Common})
  /\ Goto(p, "bind", [op |-> "enable", parts |-> state.parts,
                      ids |-> state.reserved, left |-> trees])
  /\ UNCHANGED <<store, git, spent, faults, edits>>

\* The ledgers are bound one after the other.
Bind(p) ==
  LET c == cmd[p]
  IN  /\ pc[p] = "bind"
      /\ \/ \E w \in c.left :
              /\ local' = [local EXCEPT ![w] = TargetLedger]
              /\ Goto(p, "bind", [c EXCEPT !.left = @ \ {w}])
         \/ c.left = {} /\ Goto(p, "recheck", c) /\ UNCHANGED local
      /\ UNCHANGED <<state, cards, git, lock, spent, faults, edits>>

\* The inventory and the boards are read again.
Recheck(p) ==
  /\ pc[p] = "recheck"
  /\ IF BoardsAsRecorded THEN Goto(p, "activate", cmd[p]) /\ UNCHANGED lock
                         ELSE Leave(p)
  /\ UNCHANGED <<store, git, spent, faults, edits>>

Activate(p) ==
  /\ pc[p] = "activate"
  /\ state' = [state EXCEPT !.phase = "active"]
  /\ spent' = UNION {state.parts[w].cards \cup state.parts[w].ledger.reserved :
                       w \in Participants(state.parts)}
  /\ Leave(p)
  /\ UNCHANGED <<local, cards, git, faults, edits>>

-----------------------------------------------------------------------------
(* Failures and the operator.                                              *)

\* A file operation fails: the command gives its locks back and ends.
Fail(p) ==
  /\ faults < MaxFaults
  /\ pc[p] # "idle"
  /\ faults' = faults + 1
  /\ Leave(p)
  /\ UNCHANGED <<store, git, spent, edits>>

\* A killed command leaves its lock directories behind.
Kill(p) ==
  /\ faults < MaxFaults
  /\ pc[p] # "idle"
  /\ faults' = faults + 1
  /\ Goto(p, "idle", NoCommand)
  /\ Unlock(p, Left)
  /\ UNCHANGED <<store, git, spent, edits>>

\* The operator removes a lock directory whose command is gone.
ClearLock(x) ==
  /\ lock[x] = Left
  /\ lock' = [lock EXCEPT ![x] = Free]
  /\ UNCHANGED <<store, git, pc, cmd, spent, faults, edits>>

-----------------------------------------------------------------------------
(* Git and editors.                                                        *)

\* The board of a worktree is committed, ledger included.
Commit(w) ==
  /\ w \in trees
  /\ head[w] # [cards |-> cards[w], ledger |-> local[w]]
  /\ head' = [head EXCEPT ![w] = [cards |-> cards[w], ledger |-> local[w]]]
  /\ history' = history \cup cards[w]
  /\ UNCHANGED <<store, trees>>

\* A commit of another worktree is checked out over the board; what was not
\* committed there is lost.
Checkout(w, from) ==
  /\ {w, from} \subseteq trees
  /\ head[from] # [cards |-> cards[w], ledger |-> local[w]]
  /\ head' = [head EXCEPT ![w] = head[from]]
  /\ cards' = [cards EXCEPT ![w] = head[from].cards]
  /\ local' = [local EXCEPT ![w] = head[from].ledger]
  /\ UNCHANGED <<state, history, trees>>

\* git worktree add, at a commit of another worktree or at one from before there
\* was a board.
AddWorktree(w, from) ==
  /\ w \notin trees /\ from \in trees
  /\ trees' = trees \cup {w}
  /\ \E at \in {head[from], [cards |-> {}, ledger |-> NoBoard]} :
       /\ head' = [head EXCEPT ![w] = at]
       /\ cards' = [cards EXCEPT ![w] = at.cards]
       /\ local' = [local EXCEPT ![w] = at.ledger]
  /\ UNCHANGED <<state, history>>

\* Somebody writes a card by hand, or deletes one.
EditCard(w, n) ==
  /\ w \in trees /\ local[w].kind # "nodir"
  /\ cards' = [cards EXCEPT ![w] = IF n \in @ THEN @ \ {n} ELSE @ \cup {n}]
  /\ UNCHANGED <<state, local, git>>

Outside ==
  /\ edits < MaxEdits
  /\ edits' = edits + 1
  /\ \E w \in Worktree :
       \/ Commit(w)
       \/ \E from \in Worktree : Checkout(w, from) \/ AddWorktree(w, from)
       \/ \E n \in Id : EditCard(w, n)
  /\ UNCHANGED <<procs, spent, faults>>

-----------------------------------------------------------------------------
\* The steps of a command that has begun.
Continue(p) ==
  \/ Plan(p) \/ PublishCommon(p) \/ PublishLocal(p) \/ LinkCard(p)
  \/ Initialize(p) \/ Bind(p) \/ Recheck(p) \/ Activate(p)

Begin(p) ==
  \/ \E op \in {"create", "reserve", "init"}, w \in Worktree, want \in Wanted :
       Enter(p, op, w, want)
  \/ EnableFirst(p) \/ EnableResume(p)

Next ==
  \/ \E p \in Process : Begin(p) \/ Continue(p) \/ Fail(p) \/ Kill(p)
  \/ \E x \in Place : ClearLock(x)
  \/ Outside

Spec == Init /\ [][Next]_vars

\* Commands that run go on, the operator clears lock directories whose command
\* is gone, and the user repeats enable-shared --resume.
FairSpec ==
  /\ Spec
  /\ \A p \in Process : WF_vars(Continue(p))
  /\ \A x \in Place : WF_vars(ClearLock(x))
  /\ WF_vars(\E p \in Process : EnableResume(p))

-----------------------------------------------------------------------------
(* Properties.                                                             *)

\* Under sharing, an identifier is given to a new card once, whichever worktree
\* asks, however old its ledger is and whatever was killed: never one that a
\* participating board or ledger had at the activation, that a command has given
\* out or reserved since, even if its card is long deleted.
IssuedOnce ==
  [][\A p \in Process :
       pc[p] = "link" /\ cards' # cards /\ Sharing => cmd[p].id \notin spent]_vars

\* A bound ledger never knows of an identifier that the common state does not:
\* another worktree can always see it (the reservation order of store.go:281).
BoundWithinCommon ==
  \A w \in trees : local[w].kind = "bound" =>
    Sharing /\ local[w].reserved \subseteq state.reserved

\* Types, and the common state as the union of what ledgers know.
IdsConsistent == TypeOK /\ BoundWithinCommon

\* The worktrees and their boards are as the activation found them, but for
\* ledgers it has bound.
BoardsUntouched ==
  /\ trees = Participants(state.parts)
  /\ \A w \in trees :
       /\ [Snapshot(w) EXCEPT !.ledger = state.parts[w].ledger] = state.parts[w]
       /\ local[w] \in {state.parts[w].ledger, TargetLedger}

\* An interrupted activation, which blocks all boards, is completed by
\* enable-shared --resume unless somebody changed a board or worktree since.
ActivationEnds ==
  state.phase = "initializing" ~> state.phase = "active" \/ ~BoardsUntouched

=============================================================================
