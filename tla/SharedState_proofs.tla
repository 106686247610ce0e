------------------------- MODULE SharedState_proofs -------------------------
(***************************************************************************)
(* Proofs about what the worktrees of a repository share: identifiers,     *)
(* policies and rejoined boards, for any number of processes, worktrees,   *)
(* policies, rejoins and identifiers, any interleaving of failures, kills  *)
(* and interrupted commands with acts of git and editors.                  *)
(*                                                                         *)
(* The namespace's lock lets one command in at a time.  What remains is    *)
(* that the common state keeps growing and is written first: whatever a    *)
(* bound ledger, a committed copy of one or the memory of issued           *)
(* identifiers holds was put in the common state before (IdsInv).          *)
(*                                                                         *)
(* A rejoin gives out nothing before it is done, and what its plan knows   *)
(* is reserved by then; only the step that finds every file published      *)
(* records it as done (RejoinInv).  Every plan of a policy departs from    *)
(* what its journal names, a session works on the plans of what the common *)
(* state announces, and while neither git nor an editor meddled the files  *)
(* of a board show how far its plan came (PolicyInv).                      *)
(***************************************************************************)
EXTENDS SharedIds, ExceptionalSessions, FiniteSetTheorems, WellFoundedInduction, TLAPS

\* A ledger that is bound knows only what the common state knows.
Covered(ledger) ==
  ledger.kind = "bound" => Sharing /\ ledger.reserved \subseteq state.reserved

\* The ledgers on the boards, and those that git can bring back.
LedgersCovered ==
  \A w \in Worktree : Covered(local[w]) /\ Covered(head[w].ledger)

\* The activation reserved everything that the boards it found show.
PartsKnown(parts, ids) ==
  \A w \in Participants(parts) :
    parts[w].cards \cup parts[w].ledger.reserved \subseteq ids

\* What must not be issued again is in the common state.
SpentKnown ==
  /\ ~Sharing => spent = {}
  /\ Sharing => spent \subseteq state.reserved
  /\ state.phase = "initializing" => PartsKnown(state.parts, state.reserved)

\* Whoever is past the namespace's lock holds it.
OneAtWork == \A p \in Process : pc[p] # "idle" => lock[Common] = p

Publishing == {"common", "local", "link"}

\* What a command relies on at each of its steps.
CommandFits(p) ==
  LET c == cmd[p]
  IN  /\ pc[p] \in {"plan"} \cup Publishing =>
           /\ c \in BoardCommand /\ state.phase # "initializing"
           /\ c.op = "reserve" => c.want \in Id
           /\ c.op = "init" => c.want = Unasked
      /\ pc[p] = "common" => Sharing
      /\ pc[p] \in {"local", "link"} /\ Sharing => c.ids \subseteq state.reserved
      /\ pc[p] \in Publishing /\ c.op = "reserve" => c.want \in c.ids
      /\ pc[p] \in Publishing /\ c.op = "create" =>
           c.id \in c.ids /\ (Sharing => c.id \notin spent)
      /\ pc[p] = "link" => c.op = "create"
      /\ pc[p] = "initialize" =>
           /\ c \in Activation /\ state.phase = "absent"
           /\ PartsKnown(c.parts, c.ids)
      /\ pc[p] \in {"bind", "recheck", "activate"} =>
           c \in Activation /\ state.phase = "initializing"

IdsInv ==
  /\ TypeOK
  /\ LedgersCovered
  /\ SpentKnown
  /\ OneAtWork
  /\ \A p \in Process : CommandFits(p)

-----------------------------------------------------------------------------
(* Identifiers.                                                            *)

\* The CHOOSE of Max finds the greatest one.
LEMMA HighestIsHighest ==
  ASSUME NEW ids \in SUBSET Id
  PROVE  /\ Highest(ids) \in Nat
         /\ \A n \in ids : n <= Highest(ids)
<1> DEFINE S == ids \cup {0}
           T == {LastId - n : n \in S}
<1>1. S \subseteq 0..LastId /\ S # {} /\ LastId \in Nat
  BY SharedIdsAssumption DEF Id
<1>2. T \subseteq Nat /\ T # {}
  BY <1>1
<1>3. PICK x \in T : \A y \in T : ~ (<<y, x>> \in OpToRel(<, Nat))
  <2> HIDE DEF T
  <2> QED BY <1>2, NatLessThanWellFounded, WFMin
<1>4. \A y \in T : ~(y < x)
  BY <1>2, <1>3 DEF OpToRel
<1>5. PICK m \in S : x = LastId - m
  BY <1>3
<1>6. \A n \in S : m >= n
  BY <1>1, <1>4, <1>5
<1>7. Max(S) \in S /\ \A n \in S : Max(S) >= n
  <2> HIDE DEF S
  <2> QED BY <1>6 DEF Max
<1> QED BY <1>1, <1>7 DEF Highest

\* What allocateID gives is an identifier that nobody knows.
LEMMA AllocatedIsNew ==
  ASSUME NEW ids \in SUBSET Id, NEW want \in Wanted
  PROVE  Allocated(ids, want) \subseteq Id \ ids
<1>1. Wanted \subseteq Id \cup {Unasked} /\ LastId \in Nat
  BY SharedIdsAssumption DEF Id
<1>2. \A n \in ids : n # Highest(ids) + 1
  BY <1>1, HighestIsHighest DEF Id
<1> QED BY <1>1, <1>2 DEF Allocated

-----------------------------------------------------------------------------
(* One command at a time.                                                  *)

\* A command goes on to another step.
LEMMA GoesTyped ==
  ASSUME TypeOK, NEW p \in Process, NEW step \in Steps,
         NEW c \in BoardCommand \cup Activation \cup {NoCommand}, Goto(p, step, c)
  PROVE  /\ pc' \in [Process -> Steps]
         /\ cmd' \in [Process -> BoardCommand \cup Activation \cup {NoCommand}]
         /\ pc'[p] = step /\ cmd'[p] = c
         /\ \A q \in Process : q # p => pc'[q] = pc[q] /\ cmd'[q] = cmd[q]
  BY DEF TypeOK, Goto

\* A command ends.
LEMMA LeavesTyped ==
  ASSUME TypeOK, NEW p \in Process, NEW to \in {Free, Left},
         Goto(p, "idle", NoCommand), Unlock(p, to)
  PROVE  /\ pc' \in [Process -> Steps]
         /\ cmd' \in [Process -> BoardCommand \cup Activation \cup {NoCommand}]
         /\ lock' \in [Place -> Process \cup {Free, Left}]
         /\ pc'[p] = "idle"
         /\ \A q \in Process : q # p => pc'[q] = pc[q]
<1>1. "idle" \in Steps
  BY DEF Steps
<1>2. lock' \in [Place -> Process \cup {Free, Left}]
  BY DEF TypeOK, Unlock
<1> QED BY <1>1, <1>2, GoesTyped

\* A command that begins, or one that has, is alone.
LEMMA Alone ==
  ASSUME OneAtWork, NEW p \in Process, pc[p] # "idle" \/ lock[Common] = Free
  PROVE  \A q \in Process : q # p => pc[q] = "idle"
  BY SharedIdsAssumption DEF OneAtWork

\* A step of the command p, after which p is at a step that keeps the locks, or
\* idle.
LEMMA ItsFitsOnly ==
  ASSUME IdsInv, NEW p \in Process, pc[p] # "idle" \/ lock[Common] = Free,
         \A q \in Process : q # p => pc'[q] = pc[q],
         pc'[p] # "idle" => lock'[Common] = p /\ CommandFits(p)'
  PROVE  OneAtWork' /\ \A q \in Process : CommandFits(q)'
<1>1. \A q \in Process : q # p => pc'[q] = "idle"
  BY Alone DEF IdsInv
<1>2. ASSUME NEW q \in Process, pc'[q] = "idle" PROVE CommandFits(q)'
  BY <1>2 DEF CommandFits, Publishing
<1>3. OneAtWork'
  BY <1>1 DEF OneAtWork
<1> QED BY <1>1, <1>2, <1>3

\* The locks a command takes include the namespace's.
LEMMA LocksCommon ==
  ASSUME TypeOK, NEW p \in Process, NEW places \in SUBSET Worktree,
         CanLock(places \cup {Common}), Lock(p, places \cup {Common})
  PROVE  /\ lock[Common] = Free /\ lock'[Common] = p
         /\ lock' \in [Place -> Process \cup {Free, Left}]
  BY DEF TypeOK, CanLock, Lock, Place

\* A step that publishes nothing.
LEMMA StoreKept ==
  ASSUME IdsInv, UNCHANGED <<state, local, head, spent>>
  PROVE  LedgersCovered' /\ SpentKnown'
<1>1. LedgersCovered'
  BY DEF IdsInv, LedgersCovered, Covered, Sharing
<1>2. SpentKnown'
  BY DEF IdsInv, SpentKnown, Sharing, PartsKnown, Participants
<1> QED BY <1>1, <1>2

\* A command fails, is killed or refused.
LEMMA StopSteps ==
  ASSUME IdsInv, NEW p \in Process, Fail(p) \/ Kill(p) PROVE IdsInv'
<1>1. TypeOK /\ pc[p] # "idle" /\ UNCHANGED <<store, git, spent, edits>>
  BY DEF Fail, Kill, IdsInv
<1>2. PICK to \in {Free, Left} : Goto(p, "idle", NoCommand) /\ Unlock(p, to)
  BY DEF Fail, Kill, Leave
<1>3. faults' \in 0..MaxFaults
  BY SharedIdsAssumption DEF Fail, Kill, IdsInv, TypeOK
<1>4. /\ pc' \in [Process -> Steps]
      /\ cmd' \in [Process -> BoardCommand \cup Activation \cup {NoCommand}]
      /\ lock' \in [Place -> Process \cup {Free, Left}]
      /\ pc'[p] = "idle" /\ \A q \in Process : q # p => pc'[q] = pc[q]
  BY <1>1, <1>2, LeavesTyped
<1>5. TypeOK'
  BY <1>1, <1>3, <1>4 DEF TypeOK, store, git
<1> QED BY <1>1, <1>4, <1>5, StoreKept, ItsFitsOnly DEF IdsInv, store, git

\* A dead process's locks are removed by hand.
LEMMA ClearStep ==
  ASSUME IdsInv, NEW x \in Place, ClearLock(x) PROVE IdsInv'
<1>1. UNCHANGED <<state, local, cards, head, history, trees, pc, cmd, spent, faults, edits>>
        /\ lock[x] = Left /\ lock' = [lock EXCEPT ![x] = Free]
  BY DEF ClearLock, store, git
<1>2. TypeOK'
  BY <1>1 DEF IdsInv, TypeOK
<1>3. OneAtWork'
  <2>1. \A p \in Process : pc[p] # "idle" => x # Common
    BY <1>1, SharedIdsAssumption DEF IdsInv, OneAtWork
  <2>2. Common \in Place
    BY DEF Place
  <2> QED BY <1>1, <2>1, <2>2 DEF IdsInv, OneAtWork, TypeOK
<1>4. \A p \in Process : CommandFits(p)'
  BY <1>1 DEF IdsInv, CommandFits, Sharing, PartsKnown, Participants
<1> QED BY <1>1, <1>2, <1>3, <1>4, StoreKept DEF IdsInv

\* Git and editors bring back committed ledgers, and those are covered too.
LEMMA OutsideStep ==
  ASSUME IdsInv, Outside PROVE IdsInv'
<1>1. UNCHANGED <<state, lock, pc, cmd, spent, faults>> /\ TypeOK /\ LedgersCovered
  BY DEF Outside, procs, store, Commit, Checkout, AddWorktree, EditCard, IdsInv
<1>2. edits' \in 0..MaxEdits
  BY SharedIdsAssumption DEF Outside, IdsInv, TypeOK
<1>3. NoBoard \in Ledger
  BY DEF NoBoard, Ledger
<1>4. PICK w \in Worktree :
        \/ Commit(w)
        \/ \E from \in Worktree : Checkout(w, from) \/ AddWorktree(w, from)
        \/ \E n \in Id : EditCard(w, n)
  BY DEF Outside
<1>5. \A l \in Ledger : Covered(l)' <=> Covered(l)
  BY <1>1 DEF Covered, Sharing
<1> DEFINE Whole ==
      /\ local' \in [Worktree -> Ledger] /\ head' \in [Worktree -> Head]
      /\ cards' \in [Worktree -> SUBSET Id] /\ history' \subseteq Id
      /\ trees' \subseteq Worktree
      /\ \A v \in Worktree : Covered(local'[v]) /\ Covered(head'[v].ledger)
<1>6. Whole
  <2>1. CASE Commit(w)
    <3>1. [cards |-> cards[w], ledger |-> local[w]] \in Head
      BY <1>1 DEF TypeOK, Head
    <3> QED BY <1>1, <2>1, <3>1 DEF Commit, store, TypeOK, LedgersCovered
  <2>2. ASSUME NEW from \in Worktree, Checkout(w, from) PROVE Whole
    <3>1. head[from] \in Head /\ head[from].cards \subseteq Id /\ head[from].ledger \in Ledger
      BY <1>1 DEF TypeOK, Head
    <3> QED BY <1>1, <2>2, <3>1 DEF Checkout, TypeOK, LedgersCovered
  <2>3. ASSUME NEW from \in Worktree, AddWorktree(w, from) PROVE Whole
    <3>1. PICK at \in {head[from], [cards |-> {}, ledger |-> NoBoard]} :
            /\ head' = [head EXCEPT ![w] = at]
            /\ cards' = [cards EXCEPT ![w] = at.cards]
            /\ local' = [local EXCEPT ![w] = at.ledger]
      BY <2>3 DEF AddWorktree
    <3>2. at \in Head /\ at.cards \subseteq Id /\ at.ledger \in Ledger /\ Covered(at.ledger)
      <4>1. CASE at = head[from]
        BY <1>1, <4>1 DEF TypeOK, Head, LedgersCovered
      <4>2. CASE at = [cards |-> {}, ledger |-> NoBoard]
        BY <1>3, <4>2 DEF Head, Covered, NoBoard
      <4> QED BY <3>1, <4>1, <4>2
    <3> QED BY <1>1, <2>3, <3>1, <3>2 DEF AddWorktree, TypeOK, LedgersCovered
  <2>4. ASSUME NEW n \in Id, EditCard(w, n) PROVE Whole
    BY <1>1, <2>4 DEF EditCard, git, TypeOK, LedgersCovered
  <2> QED BY <1>4, <2>1, <2>2, <2>3, <2>4
<1>7. TypeOK'
  BY <1>1, <1>2, <1>6 DEF TypeOK
<1>8. LedgersCovered'
  BY <1>1, <1>6 DEF LedgersCovered, Covered, Sharing
<1>9. SpentKnown'
  BY <1>1 DEF IdsInv, SpentKnown, Sharing, PartsKnown, Participants
<1>10. OneAtWork' /\ \A p \in Process : CommandFits(p)'
  BY <1>1 DEF IdsInv, OneAtWork, CommandFits, Sharing, PartsKnown, Participants
<1> QED BY <1>7, <1>8, <1>9, <1>10 DEF IdsInv

-----------------------------------------------------------------------------
(* create, reserve-ids and init.                                           *)

\* What a command knows at one of its steps.
LEMMA CommandTyped ==
  ASSUME NEW c \in BoardCommand
  PROVE  /\ c.op \in {"create", "reserve", "init"} /\ c.tree \in Worktree
         /\ c.want \in Wanted /\ c.ids \subseteq Id
         /\ \A ids \in SUBSET Id : [c EXCEPT !.ids = ids] \in BoardCommand
         /\ \A ids \in SUBSET Id, n \in Id :
              [c EXCEPT !.ids = ids, !.id = n] \in BoardCommand
  BY DEF BoardCommand

\* A command begins.
LEMMA EnterStep ==
  ASSUME IdsInv, NEW p \in Process, NEW op \in {"create", "reserve", "init"},
         NEW w \in Worktree, NEW want \in Wanted, Enter(p, op, w, want)
  PROVE  IdsInv'
<1> DEFINE c == [op |-> op, tree |-> w, want |-> want, ids |-> {}, id |-> Unasked]
<1>1. /\ pc[p] = "idle" /\ CanLock({w} \cup {Common}) /\ Lock(p, {w} \cup {Common})
      /\ state.phase # "initializing" /\ Goto(p, "plan", c)
      /\ op = "reserve" => want # Unasked
      /\ op = "init" => want = Unasked
      /\ UNCHANGED <<state, cards, head, history, trees, spent, faults, edits>>
  <2>1. {Common, w} = {w} \cup {Common}
    OBVIOUS
  <2> QED BY <2>1 DEF Enter, git
<1>2. c \in BoardCommand /\ TypeOK
  BY DEF BoardCommand, IdsInv
<1>3. op = "reserve" => want \in Id
  BY <1>1, SharedIdsAssumption DEF Id
<1> HIDE DEF c
<1>4. /\ pc' \in [Process -> Steps] /\ pc'[p] = "plan" /\ cmd'[p] = c
      /\ cmd' \in [Process -> BoardCommand \cup Activation \cup {NoCommand}]
      /\ \A q \in Process : q # p => pc'[q] = pc[q]
  BY <1>1, <1>2, GoesTyped DEF Steps
<1>5. /\ lock[Common] = Free /\ lock'[Common] = p
      /\ lock' \in [Place -> Process \cup {Free, Left}]
  BY <1>1, <1>2, LocksCommon
<1>6. local' \in [Worktree -> Ledger] /\ \A v \in Worktree : Covered(local'[v])
  <2>1. EmptyLedger \in Ledger /\ Covered(EmptyLedger)
    BY DEF EmptyLedger, Ledger, Covered
  <2>2. local' = IF local[w].kind = "nodir" THEN [local EXCEPT ![w] = EmptyLedger] ELSE local
    BY DEF Enter
  <2> QED BY <1>2, <2>1, <2>2 DEF TypeOK, IdsInv, LedgersCovered
<1>7. LedgersCovered'
  BY <1>1, <1>6 DEF LedgersCovered, Covered, Sharing, IdsInv
<1>8. SpentKnown'
  BY <1>1 DEF IdsInv, SpentKnown, Sharing, PartsKnown, Participants
<1>9. TypeOK'
  BY <1>1, <1>2, <1>4, <1>5, <1>6 DEF TypeOK
<1>10. CommandFits(p)'
  <2>1. c.op = op /\ c.want = want
    BY DEF c
  <2> QED BY <1>1, <1>2, <1>3, <1>4, <2>1 DEF CommandFits, Publishing
<1> QED BY <1>4, <1>5, <1>7, <1>8, <1>9, <1>10, ItsFitsOnly DEF IdsInv

\* The command computes what it will publish.
LEMMA PlanStep == ASSUME IdsInv, NEW p \in Process, Plan(p) PROVE IdsInv'
<1>1. PICK c : c = cmd[p]
  OBVIOUS
<1>2. PICK known : known = Merged(c.tree, IF c.op = "init" THEN local[c.tree].reserved
                                                        ELSE Observed(c.tree))
  OBVIOUS
<1>3. /\ pc[p] = "plan" /\ TypeOK
      /\ UNCHANGED <<state, local, cards, head, history, trees, spent, faults, edits>>
  BY DEF Plan, store, git, IdsInv
<1>4. /\ c \in BoardCommand /\ state.phase # "initializing"
      /\ c.op = "reserve" => c.want \in Id
      /\ c.op = "init" => c.want = Unasked
  BY <1>1, <1>3 DEF IdsInv, CommandFits
<1>5. known \in SUBSET Id /\ (Sharing => spent \subseteq known)
  <2>1. /\ local[c.tree].reserved \subseteq Id /\ cards[c.tree] \subseteq Id
        /\ state.reserved \subseteq Id /\ history \subseteq Id
    BY <1>3, <1>4, CommandTyped DEF TypeOK, Ledger, State
  <2>2. Sharing => spent \subseteq state.reserved
    BY DEF IdsInv, SpentKnown
  <2> QED BY <1>2, <2>1, <2>2 DEF Merged, Observed
\* Enough: it knows its identifier, which is new, and publishes there first.
<1>6. ASSUME NEW d \in BoardCommand, NEW step \in {"common", "local"},
             Goto(p, step, d), UNCHANGED lock,
             step = IF Sharing THEN "common" ELSE "local",
             d.op = c.op, d.want = c.want,
             d.op = "reserve" => d.want \in d.ids,
             d.op = "create" => d.id \in d.ids /\ (Sharing => d.id \notin spent)
      PROVE  IdsInv'
  <2>1. /\ pc' \in [Process -> Steps] /\ pc'[p] = step /\ cmd'[p] = d
        /\ cmd' \in [Process -> BoardCommand \cup Activation \cup {NoCommand}]
        /\ \A q \in Process : q # p => pc'[q] = pc[q]
    BY <1>3, <1>6, GoesTyped DEF Steps
  <2>2. TypeOK'
    BY <1>3, <1>6, <2>1 DEF TypeOK
  <2>3. CommandFits(p)'
    BY <1>3, <1>4, <1>6, <2>1 DEF CommandFits, Publishing, Sharing
  <2>4. lock'[Common] = p
    BY <1>3, <1>6 DEF IdsInv, OneAtWork
  <2> QED BY <1>3, <2>1, <2>2, <2>3, <2>4, StoreKept, ItsFitsOnly DEF IdsInv
<1>7. PICK step \in {"common", "local"} : step = IF Sharing THEN "common" ELSE "local"
  OBVIOUS
<1>8. CASE c.op = "init" /\ Goto(p, step, [c EXCEPT !.ids = known]) /\ UNCHANGED lock
  <2>1. PICK d \in BoardCommand : d = [c EXCEPT !.ids = known]
    BY <1>4, <1>5, CommandTyped
  <2>2. d.op = c.op /\ d.want = c.want
    BY <1>4, <2>1 DEF BoardCommand
  <2> QED BY <1>6, <1>7, <1>8, <2>1, <2>2
<1>9. CASE c.op = "reserve" /\ Goto(p, step, [c EXCEPT !.ids = known \cup {c.want}])
             /\ UNCHANGED lock
  <2>1. known \cup {c.want} \in SUBSET Id
    BY <1>4, <1>5, <1>9
  <2>2. PICK d \in BoardCommand : d = [c EXCEPT !.ids = known \cup {c.want}]
    BY <1>4, <2>1, CommandTyped
  <2>3. d.op = c.op /\ d.want = c.want /\ d.ids = known \cup {c.want}
    BY <1>4, <2>2 DEF BoardCommand
  <2> QED BY <1>6, <1>7, <1>9, <2>2, <2>3
<1>10. ASSUME NEW n \in Allocated(known, c.want), c.op = "create", UNCHANGED lock,
              Goto(p, step, [c EXCEPT !.ids = known \cup {n}, !.id = n])
       PROVE  IdsInv'
  <2>1. n \in Id \ known
    BY <1>4, <1>5, <1>10, AllocatedIsNew, CommandTyped
  <2>2. PICK d \in BoardCommand : d = [c EXCEPT !.ids = known \cup {n}, !.id = n]
    BY <1>4, <1>5, <2>1, CommandTyped
  <2>3. d.op = c.op /\ d.want = c.want /\ d.ids = known \cup {n} /\ d.id = n
    BY <1>4, <2>2 DEF BoardCommand
  <2> QED BY <1>5, <1>6, <1>7, <1>10, <2>1, <2>2, <2>3
<1>11. CASE Leave(p)
  <2>1. /\ pc' \in [Process -> Steps] /\ pc'[p] = "idle"
        /\ cmd' \in [Process -> BoardCommand \cup Activation \cup {NoCommand}]
        /\ lock' \in [Place -> Process \cup {Free, Left}]
        /\ \A q \in Process : q # p => pc'[q] = pc[q]
    BY <1>3, <1>11, LeavesTyped DEF Leave
  <2>2. TypeOK'
    BY <1>3, <2>1 DEF TypeOK
  <2> QED BY <1>3, <2>1, <2>2, StoreKept, ItsFitsOnly DEF IdsInv
<1> QED BY <1>1, <1>2, <1>7, <1>8, <1>9, <1>10, <1>11 DEF Plan

\* The common state grows first ...
LEMMA PublishCommonStep == ASSUME IdsInv, NEW p \in Process, PublishCommon(p) PROVE IdsInv'
<1>1. PICK c : c = cmd[p]
  OBVIOUS
<1>2. /\ pc[p] = "common" /\ TypeOK /\ Sharing /\ state.phase # "initializing"
      /\ state' = [state EXCEPT !.reserved = @ \cup c.ids] /\ Goto(p, "local", c)
      /\ UNCHANGED <<local, cards, head, history, trees, lock, spent, faults, edits>>
  BY <1>1 DEF PublishCommon, git, IdsInv, CommandFits, Publishing
<1>3. /\ c \in BoardCommand /\ c.ids \subseteq Id
      /\ c.op = "reserve" => c.want \in c.ids /\ c.want \in Id
      /\ c.op = "create" => c.id \in c.ids /\ c.id \notin spent
      /\ c.op = "init" => c.want = Unasked
  BY <1>1, <1>2, CommandTyped DEF IdsInv, CommandFits, Publishing
<1>4. /\ state' \in State /\ state'.phase = state.phase
      /\ state.reserved \subseteq state'.reserved /\ c.ids \subseteq state'.reserved
  BY <1>2, <1>3 DEF TypeOK, State
<1>5. LedgersCovered'
  BY <1>2, <1>4 DEF IdsInv, LedgersCovered, Covered, Sharing
<1>6. SpentKnown'
  BY <1>2, <1>4 DEF IdsInv, SpentKnown, Sharing
<1>7. /\ pc' \in [Process -> Steps] /\ pc'[p] = "local" /\ cmd'[p] = c
      /\ cmd' \in [Process -> BoardCommand \cup Activation \cup {NoCommand}]
      /\ \A q \in Process : q # p => pc'[q] = pc[q]
  BY <1>2, <1>3, GoesTyped DEF Steps
<1>8. TypeOK'
  BY <1>2, <1>4, <1>7 DEF TypeOK
<1>9. CommandFits(p)'
  BY <1>2, <1>3, <1>4, <1>7 DEF CommandFits, Publishing, Sharing
<1>10. lock'[Common] = p
  BY <1>2 DEF IdsInv, OneAtWork
<1> QED BY <1>2, <1>5, <1>6, <1>7, <1>8, <1>9, <1>10, ItsFitsOnly DEF IdsInv

\* ... then the board's ledger ...
LEMMA PublishLocalStep == ASSUME IdsInv, NEW p \in Process, PublishLocal(p) PROVE IdsInv'
<1>1. PICK c : c = cmd[p]
  OBVIOUS
<1>2. PICK ledger : ledger = [kind |-> IF Sharing THEN "bound" ELSE "local",
                             reserved |-> c.ids]
  OBVIOUS
<1>3. /\ pc[p] = "local" /\ TypeOK /\ state.phase # "initializing"
      /\ local' = [local EXCEPT ![c.tree] = ledger]
      /\ UNCHANGED <<state, cards, head, history, trees, faults, edits>>
  BY <1>1, <1>2 DEF PublishLocal, git, IdsInv, CommandFits, Publishing
<1>4. /\ c \in BoardCommand /\ c.ids \subseteq Id /\ c.tree \in Worktree
      /\ Sharing => c.ids \subseteq state.reserved
      /\ c.op = "reserve" => c.want \in c.ids /\ c.want \in Id
      /\ c.op = "create" => c.id \in c.ids /\ (Sharing => c.id \notin spent)
      /\ c.op = "init" => c.want = Unasked
      /\ c.op \in {"create", "reserve", "init"}
  BY <1>1, <1>3, CommandTyped DEF IdsInv, CommandFits, Publishing
<1>5. ledger \in Ledger /\ Covered(ledger)
  BY <1>2, <1>4 DEF Ledger, Covered
<1>6. local' \in [Worktree -> Ledger] /\ LedgersCovered'
  BY <1>3, <1>4, <1>5 DEF IdsInv, TypeOK, LedgersCovered, Covered, Sharing
<1>7. CASE c.op = "create"
  <2>1. Goto(p, "link", c) /\ UNCHANGED <<lock, spent>>
    BY <1>1, <1>7 DEF PublishLocal
  <2>2. /\ pc' \in [Process -> Steps] /\ pc'[p] = "link" /\ cmd'[p] = c
        /\ cmd' \in [Process -> BoardCommand \cup Activation \cup {NoCommand}]
        /\ \A q \in Process : q # p => pc'[q] = pc[q]
    BY <1>3, <1>4, <2>1, GoesTyped DEF Steps
  <2>3. TypeOK'
    BY <1>3, <1>6, <2>1, <2>2 DEF TypeOK
  <2>4. CommandFits(p)'
    BY <1>3, <1>4, <1>7, <2>1, <2>2 DEF CommandFits, Publishing, Sharing
  <2>5. lock'[Common] = p
    BY <1>3, <2>1 DEF IdsInv, OneAtWork
  <2>6. SpentKnown'
    BY <1>3, <2>1 DEF IdsInv, SpentKnown, Sharing, PartsKnown, Participants
  <2> QED BY <1>3, <1>6, <2>2, <2>3, <2>4, <2>5, <2>6, ItsFitsOnly DEF IdsInv
<1>8. CASE c.op # "create"
  <2>1. /\ Leave(p)
        /\ spent' = IF Sharing THEN spent \cup ({c.want} \cap Id) ELSE spent
    BY <1>1, <1>8 DEF PublishLocal
  <2>2. /\ pc' \in [Process -> Steps] /\ pc'[p] = "idle"
        /\ cmd' \in [Process -> BoardCommand \cup Activation \cup {NoCommand}]
        /\ lock' \in [Place -> Process \cup {Free, Left}]
        /\ \A q \in Process : q # p => pc'[q] = pc[q]
    BY <1>3, <2>1, LeavesTyped DEF Leave
  <2>3. spent' \subseteq Id
    BY <1>3, <2>1 DEF TypeOK
  <2>4. TypeOK'
    BY <1>3, <1>6, <2>2, <2>3 DEF TypeOK
  <2>5. Sharing => {c.want} \cap Id \subseteq state.reserved
    BY <1>4, <1>8, SharedIdsAssumption DEF Id
  <2>6. SpentKnown'
    BY <1>3, <2>1, <2>5 DEF IdsInv, SpentKnown, Sharing
  <2> QED BY <1>3, <1>6, <2>2, <2>4, <2>6, ItsFitsOnly DEF IdsInv
<1> QED BY <1>7, <1>8

\* ... and the card is published last.
LEMMA LinkCardStep == ASSUME IdsInv, NEW p \in Process, LinkCard(p) PROVE IdsInv'
<1>1. PICK c : c = cmd[p]
  OBVIOUS
<1>2. /\ pc[p] = "link" /\ TypeOK /\ state.phase # "initializing" /\ Leave(p)
      /\ cards' = [cards EXCEPT ![c.tree] = @ \cup {c.id}]
      /\ spent' = IF Sharing THEN spent \cup {c.id} ELSE spent
      /\ UNCHANGED <<state, local, head, history, trees, faults, edits>>
  BY <1>1 DEF LinkCard, git, IdsInv, CommandFits, Publishing
<1>3. /\ c.tree \in Worktree /\ c.id \in Id
      /\ Sharing => c.id \in state.reserved
  BY <1>1, <1>2, CommandTyped DEF IdsInv, CommandFits, Publishing
<1>4. /\ pc' \in [Process -> Steps] /\ pc'[p] = "idle"
      /\ cmd' \in [Process -> BoardCommand \cup Activation \cup {NoCommand}]
      /\ lock' \in [Place -> Process \cup {Free, Left}]
      /\ \A q \in Process : q # p => pc'[q] = pc[q]
  BY <1>2, LeavesTyped DEF Leave
<1>5. cards' \in [Worktree -> SUBSET Id] /\ spent' \subseteq Id
  BY <1>2, <1>3 DEF TypeOK
<1>6. TypeOK'
  BY <1>2, <1>4, <1>5 DEF TypeOK
<1>7. LedgersCovered'
  BY <1>2 DEF IdsInv, LedgersCovered, Covered, Sharing
<1>8. SpentKnown'
  BY <1>2, <1>3 DEF IdsInv, SpentKnown, Sharing
<1> QED BY <1>2, <1>4, <1>6, <1>7, <1>8, ItsFitsOnly DEF IdsInv

-----------------------------------------------------------------------------
(* enable-shared.                                                          *)

\* A step of the activation that goes on with the same locks.
LEMMA ActivationGoes ==
  ASSUME IdsInv, NEW p \in Process, pc[p] # "idle" \/ lock[Common] = Free,
         NEW step \in {"bind", "recheck", "activate"}, NEW c \in Activation,
         Goto(p, step, c), lock'[Common] = p,
         lock' \in [Place -> Process \cup {Free, Left}],
         state' \in State, state'.phase = "initializing",
         local' \in [Worktree -> Ledger],
         UNCHANGED <<cards, head, history, trees, spent, faults, edits>>,
         LedgersCovered', SpentKnown'
  PROVE  IdsInv'
<1>1. TypeOK
  BY DEF IdsInv
<1>2. /\ pc' \in [Process -> Steps] /\ pc'[p] = step /\ cmd'[p] = c
      /\ cmd' \in [Process -> BoardCommand \cup Activation \cup {NoCommand}]
      /\ \A q \in Process : q # p => pc'[q] = pc[q]
  BY <1>1, GoesTyped DEF Steps
<1>3. TypeOK'
  BY <1>1, <1>2 DEF TypeOK
<1>4. CommandFits(p)'
  BY <1>2 DEF CommandFits, Publishing
<1> QED BY <1>2, <1>3, <1>4, ItsFitsOnly DEF IdsInv

\* The first activation begins.
LEMMA EnableFirstStep == ASSUME IdsInv, NEW p \in Process, EnableFirst(p) PROVE IdsInv'
<1>1. PICK parts : parts = [w \in Worktree |-> IF w \in trees THEN Snapshot(w) ELSE NoPart]
  OBVIOUS
<1>2. PICK ids : ids = history \cup UNION {Observed(w) : w \in trees}
  OBVIOUS
<1>3. PICK c : c = [op |-> "enable", parts |-> parts, ids |-> ids, left |-> trees]
  OBVIOUS
<1>4. /\ pc[p] = "idle" /\ TypeOK /\ state.phase = "absent"
      /\ CanLock(trees \cup {Common}) /\ Lock(p, trees \cup {Common})
      /\ Goto(p, "initialize", c)
      /\ UNCHANGED <<state, local, cards, head, history, trees, spent, faults, edits>>
  BY <1>1, <1>2, <1>3 DEF EnableFirst, CanActivate, store, git, IdsInv
<1>5. \A w \in Worktree : Snapshot(w) \in Part
  BY <1>4 DEF Snapshot, Part, TypeOK
<1>6. parts \in Parts
  BY <1>1, <1>5 DEF Parts
<1>7. ids \subseteq Id /\ trees \subseteq Worktree
  <2>1. \A w \in trees : Observed(w) \subseteq Id
    BY <1>4 DEF TypeOK, Observed, Ledger
  <2> QED BY <1>2, <1>4, <2>1 DEF TypeOK
<1>8. c \in Activation /\ c.parts = parts /\ c.ids = ids
  BY <1>3, <1>6, <1>7 DEF Activation
<1>9. PartsKnown(parts, ids)
  <2> SUFFICES ASSUME NEW w \in Participants(parts)
               PROVE  parts[w].cards \cup parts[w].ledger.reserved \subseteq ids
    BY DEF PartsKnown
  <2>1. w \in trees /\ parts[w] = Snapshot(w)
    BY <1>1 DEF Participants
  <2> QED BY <1>2, <2>1 DEF Snapshot, Observed
<1>10. /\ lock[Common] = Free /\ lock'[Common] = p
       /\ lock' \in [Place -> Process \cup {Free, Left}]
  BY <1>4, <1>7, LocksCommon
<1>11. /\ pc' \in [Process -> Steps] /\ pc'[p] = "initialize" /\ cmd'[p] = c
       /\ cmd' \in [Process -> BoardCommand \cup Activation \cup {NoCommand}]
       /\ \A q \in Process : q # p => pc'[q] = pc[q]
  BY <1>4, <1>8, GoesTyped DEF Steps
<1>12. TypeOK'
  BY <1>4, <1>10, <1>11 DEF TypeOK
<1>13. CommandFits(p)'
  BY <1>4, <1>8, <1>9, <1>11 DEF CommandFits, Publishing, PartsKnown, Participants
<1> QED BY <1>4, <1>10, <1>11, <1>12, <1>13, StoreKept, ItsFitsOnly DEF IdsInv

\* The common state is announced as initializing.
LEMMA InitializeStep == ASSUME IdsInv, NEW p \in Process, Initialize(p) PROVE IdsInv'
<1>1. PICK c : c = cmd[p]
  OBVIOUS
<1>2. /\ pc[p] = "initialize" /\ Goto(p, "bind", c)
      /\ state' = [phase |-> "initializing", reserved |-> c.ids, parts |-> c.parts]
      /\ UNCHANGED <<local, cards, head, history, trees, lock, spent, faults, edits>>
  BY <1>1 DEF Initialize, git
<1>3. /\ c \in Activation /\ state.phase = "absent" /\ PartsKnown(c.parts, c.ids)
      /\ c.ids \subseteq Id /\ c.parts \in Parts
  BY <1>1, <1>2 DEF IdsInv, CommandFits, Activation
<1>4. state' \in State /\ state'.phase = "initializing"
        /\ state'.parts = c.parts /\ state'.reserved = c.ids
  BY <1>2, <1>3 DEF State
<1>5. LedgersCovered'
  BY <1>2, <1>3, <1>4 DEF IdsInv, LedgersCovered, Covered, Sharing
<1>6. SpentKnown'
  BY <1>2, <1>3, <1>4 DEF IdsInv, SpentKnown, Sharing, PartsKnown, Participants
<1>7. /\ local' \in [Worktree -> Ledger] /\ lock'[Common] = p
      /\ lock' \in [Place -> Process \cup {Free, Left}]
  BY <1>2 DEF IdsInv, TypeOK, OneAtWork
<1> QED BY <1>2, <1>3, <1>4, <1>5, <1>6, <1>7, ActivationGoes

\* An activation is resumed.
LEMMA EnableResumeStep == ASSUME IdsInv, NEW p \in Process, EnableResume(p) PROVE IdsInv'
<1>1. PICK c : c = [op |-> "enable", parts |-> state.parts, ids |-> state.reserved,
                   left |-> trees]
  OBVIOUS
<1>2. /\ pc[p] = "idle" /\ TypeOK /\ state.phase = "initializing"
      /\ CanLock(trees \cup {Common}) /\ Lock(p, trees \cup {Common})
      /\ Goto(p, "bind", c)
      /\ UNCHANGED <<state, local, cards, head, history, trees, spent, faults, edits>>
  BY <1>1 DEF EnableResume, CanActivate, store, git, IdsInv
<1>3. /\ state \in State /\ state.parts \in Parts /\ state.reserved \subseteq Id
      /\ trees \subseteq Worktree /\ local \in [Worktree -> Ledger]
  BY <1>2 DEF TypeOK, State
<1>4. c \in Activation
  BY <1>1, <1>3 DEF Activation
<1>5. /\ lock[Common] = Free /\ lock'[Common] = p
      /\ lock' \in [Place -> Process \cup {Free, Left}]
  BY <1>2, <1>3, LocksCommon
<1> QED BY <1>2, <1>3, <1>4, <1>5, StoreKept, ActivationGoes

\* A board's ledger is bound, or found bound.
LEMMA BindStep ==
  ASSUME IdsInv, NEW p \in Process, Bind(p) \/ Recheck(p) PROVE IdsInv'
<1>1. PICK c : c = cmd[p]
  OBVIOUS
<1>2. /\ pc[p] \in {"bind", "recheck"} /\ TypeOK
      /\ UNCHANGED <<state, cards, head, history, trees, spent, faults, edits>>
  BY DEF Bind, Recheck, store, git, IdsInv
<1>3. c \in Activation /\ state.phase = "initializing" /\ state \in State
  BY <1>1, <1>2 DEF IdsInv, CommandFits, TypeOK
<1>4. /\ local \in [Worktree -> Ledger] /\ lock[Common] = p
      /\ lock \in [Place -> Process \cup {Free, Left}]
  BY <1>2 DEF TypeOK, IdsInv, OneAtWork
\* Enough: the ledgers are as they were, or one of them is bound.
<1>5. ASSUME NEW step \in {"bind", "recheck", "activate"}, NEW d \in Activation,
             Goto(p, step, d), UNCHANGED <<local, lock>>
      PROVE  IdsInv'
  BY <1>2, <1>3, <1>4, <1>5, StoreKept, ActivationGoes
<1>6. CASE Recheck(p)
  <2>1. CASE Leave(p)
    <3>1. /\ pc' \in [Process -> Steps] /\ pc'[p] = "idle"
          /\ cmd' \in [Process -> BoardCommand \cup Activation \cup {NoCommand}]
          /\ lock' \in [Place -> Process \cup {Free, Left}]
          /\ \A q \in Process : q # p => pc'[q] = pc[q]
      BY <1>2, <2>1, LeavesTyped DEF Leave
    <3>2. local' = local
      BY <1>6 DEF Recheck, store
    <3>3. TypeOK'
      BY <1>2, <3>1, <3>2 DEF TypeOK
    <3> QED BY <1>2, <3>1, <3>2, <3>3, StoreKept, ItsFitsOnly DEF IdsInv
  <2>2. CASE ~Leave(p)
    BY <1>1, <1>3, <1>5, <1>6, <2>2 DEF Recheck, store
  <2> QED BY <2>1, <2>2
<1>7. CASE Bind(p)
  <2>1. CASE Goto(p, "recheck", c) /\ UNCHANGED local
    BY <1>3, <1>5, <1>7, <2>1 DEF Bind
  <2>2. ASSUME NEW w \in c.left, local' = [local EXCEPT ![w] = TargetLedger],
               Goto(p, "bind", [c EXCEPT !.left = @ \ {w}])
        PROVE  IdsInv'
    <3>1. w \in Worktree /\ [c EXCEPT !.left = @ \ {w}] \in Activation
      BY <1>3, <2>2 DEF Activation
    <3>2. TargetLedger \in Ledger /\ Covered(TargetLedger)
      BY <1>3 DEF TargetLedger, Ledger, State, Covered, Sharing
    <3>3. local' \in [Worktree -> Ledger] /\ LedgersCovered'
      BY <1>2, <1>4, <2>2, <3>1, <3>2 DEF IdsInv, LedgersCovered, Covered, Sharing
    <3>4. SpentKnown'
      BY <1>2 DEF IdsInv, SpentKnown, Sharing, PartsKnown, Participants
    <3>5. lock' = lock
      BY <1>7 DEF Bind
    <3> QED BY <1>2, <1>3, <1>4, <2>2, <3>1, <3>3, <3>4, <3>5, ActivationGoes
  <2> QED BY <1>1, <1>7, <2>1, <2>2 DEF Bind
<1> QED BY <1>6, <1>7

\* What the activation found is what must not be issued again.
LEMMA ActivateStep == ASSUME IdsInv, NEW p \in Process, Activate(p) PROVE IdsInv'
<1>1. /\ pc[p] = "activate" /\ TypeOK /\ Leave(p)
      /\ state' = [state EXCEPT !.phase = "active"]
      /\ spent' = UNION {state.parts[w].cards \cup state.parts[w].ledger.reserved :
                           w \in Participants(state.parts)}
      /\ UNCHANGED <<local, cards, head, history, trees, faults, edits>>
  BY DEF Activate, git, IdsInv
<1>2. state.phase = "initializing" /\ state \in State
  BY <1>1 DEF IdsInv, CommandFits, TypeOK
<1>3. /\ state' \in State /\ state'.phase = "active" /\ state'.reserved = state.reserved
      /\ state.reserved \subseteq Id
  BY <1>1, <1>2 DEF State
<1>4. spent' \subseteq state.reserved
  BY <1>1, <1>2 DEF IdsInv, SpentKnown, PartsKnown
<1>5. LedgersCovered'
  BY <1>1, <1>2, <1>3 DEF IdsInv, LedgersCovered, Covered, Sharing
<1>6. SpentKnown'
  BY <1>3, <1>4 DEF SpentKnown, Sharing
<1>7. /\ pc' \in [Process -> Steps] /\ pc'[p] = "idle"
      /\ cmd' \in [Process -> BoardCommand \cup Activation \cup {NoCommand}]
      /\ lock' \in [Place -> Process \cup {Free, Left}]
      /\ \A q \in Process : q # p => pc'[q] = pc[q]
  BY <1>1, LeavesTyped DEF Leave
<1>8. TypeOK'
  BY <1>1, <1>3, <1>4, <1>7 DEF TypeOK
<1> QED BY <1>1, <1>5, <1>6, <1>7, <1>8, ItsFitsOnly DEF IdsInv

-----------------------------------------------------------------------------
(* The invariant and what follows from it.                                 *)

\* The invariant holds at the start.
LEMMA IdsInvInit == Init => IdsInv
<1> SUFFICES ASSUME Init PROVE IdsInv
  OBVIOUS
<1>1. /\ state = [phase |-> "absent", reserved |-> {}, parts |-> NoParts]
      /\ trees \in Registered /\ cards = [w \in Worktree |-> {}]
      /\ local = [w \in Worktree |->
           IF w \in trees THEN [kind |-> "local", reserved |-> {}] ELSE NoBoard]
      /\ head = [w \in Worktree |-> [cards |-> {}, ledger |-> local[w]]]
      /\ history = {} /\ lock = [x \in Place |-> Free]
      /\ pc = [p \in Process |-> "idle"] /\ cmd = [p \in Process |-> NoCommand]
      /\ spent = {} /\ faults = 0 /\ edits = 0
  BY DEF Init
<1>2. state \in State /\ ~Sharing /\ state.phase = "absent"
  BY <1>1 DEF State, Parts, NoParts, Sharing
<1>3. local \in [Worktree -> Ledger] /\ \A w \in Worktree : local[w].kind # "bound"
  BY <1>1 DEF Ledger, NoBoard
<1>4. head \in [Worktree -> Head] /\ \A w \in Worktree : head[w].ledger = local[w]
  BY <1>1, <1>3 DEF Head
<1>5. pc \in [Process -> Steps] /\ lock \in [Place -> Process \cup {Free, Left}]
        /\ cmd \in [Process -> BoardCommand \cup Activation \cup {NoCommand}]
  BY <1>1 DEF Steps
<1>6. trees \subseteq Worktree /\ faults \in 0..MaxFaults /\ edits \in 0..MaxEdits
  BY <1>1, SharedIdsAssumption
<1>7. TypeOK
  BY <1>1, <1>2, <1>3, <1>4, <1>5, <1>6 DEF TypeOK
<1>8. LedgersCovered
  BY <1>3, <1>4 DEF LedgersCovered, Covered
<1>9. SpentKnown /\ OneAtWork /\ \A p \in Process : CommandFits(p)
  BY <1>1, <1>2 DEF SpentKnown, Sharing, OneAtWork, CommandFits, Publishing
<1> QED BY <1>7, <1>8, <1>9 DEF IdsInv

\* Every step keeps it.
LEMMA IdsInvStep == IdsInv /\ [Next]_vars => IdsInv'
<1> SUFFICES ASSUME IdsInv, [Next]_vars PROVE IdsInv'
  OBVIOUS
<1>1. ASSUME NEW p \in Process, Begin(p) PROVE IdsInv'
  BY <1>1, EnterStep, EnableFirstStep, EnableResumeStep DEF Begin
<1>2. ASSUME NEW p \in Process, Continue(p) PROVE IdsInv'
  BY <1>2, PlanStep, PublishCommonStep, PublishLocalStep, LinkCardStep,
     InitializeStep, BindStep, ActivateStep DEF Continue
<1>3. ASSUME NEW p \in Process, Fail(p) \/ Kill(p) PROVE IdsInv'
  BY <1>3, StopSteps
<1>4. CASE UNCHANGED vars
  <2>1. TypeOK'
    BY <1>4 DEF IdsInv, TypeOK, vars
  <2>2. OneAtWork' /\ \A p \in Process : CommandFits(p)'
    BY <1>4 DEF IdsInv, OneAtWork, CommandFits, Sharing, PartsKnown, Participants, vars
  <2> QED BY <1>4, <2>1, <2>2, StoreKept DEF IdsInv, vars
<1> QED BY <1>1, <1>2, <1>3, <1>4, ClearStep, OutsideStep DEF Next

\* So it holds always.
LEMMA IdsInvAlways == Spec => []IdsInv
<1> QED BY IdsInvInit, IdsInvStep, PTL DEF Spec

\* Types, and a bound ledger never knows of an identifier that the common state
\* does not, so that another worktree can always see it (store.go:281).
THEOREM IdsConsistentAlways == Spec => []IdsConsistent
<1>1. IdsInv => IdsConsistent
  BY DEF IdsInv, LedgersCovered, Covered, TypeOK, IdsConsistent, BoundWithinCommon
<1> QED BY <1>1, IdsInvAlways, PTL

\* Under sharing an identifier is given to a new card once: never one that a
\* participating board or ledger had at the activation, or that any command gave
\* out or reserved since, even from a worktree whose ledger is old (ids.go's
\* allocateID, shared_session.go's merge).
THEOREM IssuedOnceAlways == Spec => IssuedOnce
<1>1. IdsInv => \A p \in Process : pc[p] = "link" /\ Sharing => cmd[p].id \notin spent
  BY DEF IdsInv, CommandFits, Publishing
<1>2. IdsInv /\ [Next]_vars
        => [\A p \in Process : pc[p] = "link" /\ cards' # cards /\ Sharing
              => cmd[p].id \notin spent]_vars
  BY <1>1
<1> QED BY <1>2, IdsInvAlways, PTL DEF Spec, IssuedOnce

-----------------------------------------------------------------------------
(* A rejoin: the invariant.                                                *)

\* Identifiers are given out one after the other.
Segment(S) == \E n \in 0..MaxId : S = 1..n

\* Types, and what bounds the refs.
RejoinTyped ==
  /\ Rejoining!TypeOK
  /\ r_acts \in Nat /\ r_stops \in Nat /\ r_refs <= r_acts

\* What a plan knows was reserved at the source, and its ledger knows nothing
\* else; the ledger for a clone knows all of it.
PlanKnows(x) ==
  /\ Segment(x.ids) /\ Segment(x.ids \cup x.additional) /\ Segment(x.known)
  /\ x.ids \cup x.additional \subseteq x.known /\ x.known \subseteq r_home.reserved
  /\ r_same => x.additional = {}
  /\ ~r_same => x.ids \cup x.additional = x.known

\* What the common states and the ledgers know.
IdsKnown ==
  /\ \A p \in Rejoining!Rejoin : r_plan[p] # None => PlanKnows(r_plan[p])
  /\ Segment(r_home.reserved) /\ \A b \in Rejoining!Board : Segment(r_ledger[b])
  /\ r_ledger[Source] \subseteq r_home.reserved
  /\ r_same => \A b \in Rejoining!Board : r_ledger[b] \cup r_gave[b] \subseteq r_home.reserved
  /\ r_clone # None =>
       /\ Segment(r_clone.reserved)
       /\ \A p \in r_clone.joined :
            r_plan[p] # None /\ r_plan[p].known \subseteq r_clone.reserved

\* A completed receipt is that of a rejoin the common state knows, and until
\* then a target gives out nothing.
ReceiptFits(b) ==
  /\ r_receipt[b] # None =>
       /\ r_plan[r_receipt[b].of] # None /\ r_plan[r_receipt[b].of].target = b
       /\ r_receipt[b].phase = "completed" =>
            Rejoining!Common # None /\ r_receipt[b].of \in Rejoining!Common.joined
  /\ r_gave[b] # {} => r_receipt[b] # None /\ r_receipt[b].phase = "completed"

\* Steps before the announcement.
Unannounced == {"plan", "payload", "receipt", "announce"}

\* The rejoin at work is not done; before its announcement nothing else is
\* pending, and from then on it is.
SessionFits ==
  r_session # NoSession =>
    /\ r_plan[r_session.of] # None
    /\ Rejoining!Common # None =>
         /\ r_session.of \notin Rejoining!Common.done
         /\ Rejoining!Common.pending \in {None, r_session.of}
         /\ ~r_same => Rejoining!Common.pending = r_session.of
    /\ r_session.at \notin Unannounced =>
         Rejoining!Common # None /\ Rejoining!Common.pending = r_session.of

RejoinInv ==
  /\ RejoinTyped
  /\ IdsKnown
  /\ \A b \in Target : ReceiptFits(b)
  /\ SessionFits
  /\ Rejoining!NotReissued

-----------------------------------------------------------------------------
(* Identifiers given out, and the first state.                             *)

\* The greater of two segments is their union.
LEMMA SegmentUnion ==
  ASSUME RejoinParameters, NEW S, NEW T, Segment(S), Segment(T) PROVE Segment(S \cup T)
<1>1. PICK m \in 0..MaxId : S = 1..m
  BY DEF Segment
<1>2. PICK n \in 0..MaxId : T = 1..n
  BY DEF Segment
<1>3. CASE m <= n
  <2>1. S \cup T = 1..n
    BY <1>1, <1>2, <1>3 DEF RejoinParameters
  <2> QED BY <2>1 DEF Segment
<1>4. CASE n <= m
  <2>1. S \cup T = 1..m
    BY <1>1, <1>2, <1>4 DEF RejoinParameters
  <2> QED BY <2>1 DEF Segment
<1> QED BY <1>3, <1>4

\* The number after a segment is new, and makes a segment with it (allocateID).
LEMMA SegmentNext ==
  ASSUME RejoinParameters, NEW S, Segment(S)
  PROVE  /\ S \subseteq Rejoining!Id
         /\ Rejoining!Cardinality(S) + 1 \notin S
         /\ Rejoining!Cardinality(S) + 1 <= MaxId =>
              /\ Rejoining!Cardinality(S) + 1 \in Rejoining!Id
              /\ Segment(S \cup {Rejoining!Cardinality(S) + 1})
<1>1. PICK n \in 0..MaxId : S = 1..n
  BY DEF Segment
<1>2. Cardinality(1..n) = n
  BY FS_Interval DEF RejoinParameters
<1>3. Rejoining!Cardinality(S) = n
  <2>1. Rejoining!Cardinality(S) = Cardinality(S)
    BY DEF Rejoining!Cardinality, Cardinality
  <2> QED BY <1>1, <1>2, <2>1
<1>4. n + 1 <= MaxId => S \cup {n + 1} = 1..(n + 1)
  BY <1>1 DEF RejoinParameters
<1> QED BY <1>1, <1>3, <1>4 DEF RejoinParameters, Segment, Rejoining!Id

\* Nothing, and what the source may begin with.
LEMMA SegmentFirst ==
  ASSUME RejoinParameters PROVE Segment({}) /\ Segment({1})
<1>1. {} = 1..0 /\ {1} = 1..1
  OBVIOUS
<1> QED BY <1>1 DEF Segment, RejoinParameters

\* The first state.
LEMMA RejoinBegins ==
  ASSUME RejoinParameters, Rejoining!Init PROVE RejoinInv
<1> USE DEF Rejoining!Init
<1>1. r_home \in Rejoining!State /\ Rejoining!Decoded(r_home) /\ r_home.protocol = 5
      /\ r_home.reserved \in {{}, {1}} /\ r_home.pending = None /\ r_home.done = {}
  BY DEF Rejoining!State, Rejoining!Decoded, Rejoining!Id, RejoinParameters
<1>2. r_file \in [Rejoining!Board -> [Rejoining!File -> Rejoining!Content]]
  BY DEF Rejoining!Content, RejoinParameters
<1>3. /\ r_ledger = [b \in Rejoining!Board |-> {}] /\ r_gave = [b \in Rejoining!Board |-> {}]
      /\ r_receipt = [b \in Target |-> None] /\ r_stored = [b \in Target |-> {}]
      /\ r_plan = [p \in Rejoining!Rejoin |-> None]
      /\ r_session = NoSession /\ r_clone = None /\ r_same \in BOOLEAN
      /\ r_acts = 0 /\ r_stops = 0 /\ r_refs = 0
  OBVIOUS
<1>4. RejoinTyped
  BY <1>1, <1>2, <1>3 DEF RejoinTyped, Rejoining!TypeOK, RejoinParameters
<1>5. IdsKnown
  BY <1>1, <1>3, SegmentFirst DEF IdsKnown, Rejoining!Board
<1>6. \A b \in Target : ReceiptFits(b)
  BY <1>3 DEF ReceiptFits, Rejoining!Board
<1>7. SessionFits /\ Rejoining!NotReissued
  BY <1>3 DEF SessionFits, Rejoining!NotReissued
<1> QED BY <1>4, <1>5, <1>6, <1>7 DEF RejoinInv

-----------------------------------------------------------------------------
(* What the steps of a rejoin keep.                                        *)

\* The session goes on or ends.
LEMMA SessionTyped ==
  ASSUME RejoinParameters, RejoinTyped, r_session # NoSession, NEW step \in Rejoining!Steps,
         Rejoining!Go(step)
  PROVE  /\ r_session' \in [of : Rejoining!Rejoin, at : Rejoining!Steps, refs : 0..RejoinFaults]
         /\ r_session' # NoSession
         /\ r_session'.of = r_session.of /\ r_session'.at = step
<1>1. r_session \in [of : Rejoining!Rejoin, at : Rejoining!Steps, refs : 0..RejoinFaults]
  BY DEF RejoinTyped, Rejoining!TypeOK
<1>2. r_session' = [r_session EXCEPT !.at = step]
  BY DEF Rejoining!Go
<1> QED BY <1>1, <1>2 DEF RejoinParameters

\* The rejoin at work is one of a target.
LEMMA RejoinAtWork ==
  ASSUME RejoinParameters, RejoinInv, r_session # NoSession
  PROVE  /\ Rejoining!P \in Rejoining!Rejoin /\ r_plan[Rejoining!P] \in Rejoining!Plan
         /\ r_plan[Rejoining!P] # None
         /\ Rejoining!B \in Target /\ Rejoining!B \in Rejoining!Board
         /\ r_plan[Rejoining!P].target = Rejoining!B
<1>1. r_session \in [of : Rejoining!Rejoin, at : Rejoining!Steps, refs : 0..RejoinFaults]
      /\ r_plan \in [Rejoining!Rejoin -> Rejoining!Plan \cup {None}]
  BY DEF RejoinInv, RejoinTyped, Rejoining!TypeOK
<1>2. r_plan[r_session.of] # None
  BY DEF RejoinInv, SessionFits
<1> QED BY <1>1, <1>2 DEF Rejoining!P, Rejoining!B, Rejoining!Plan, Rejoining!Board

\* The common state of the targets is one, and well formed.
LEMMA CommonIs ==
  ASSUME RejoinParameters, RejoinTyped, Rejoining!Common # None
  PROVE  Rejoining!Common \in Rejoining!State /\ Rejoining!Decoded(Rejoining!Common)
  BY DEF RejoinTyped, Rejoining!TypeOK, Rejoining!Common

\* What other steps rely on, where the common states and the plans stay.
LEMMA KnownKept ==
  ASSUME RejoinInv, UNCHANGED <<r_same, r_home, r_clone, r_plan, r_gave>>,
         r_ledger' = r_ledger
  PROVE  IdsKnown' /\ Rejoining!Common' = Rejoining!Common
<1>1. IdsKnown
  BY DEF RejoinInv
<1>2. Rejoining!Common' = Rejoining!Common
  BY DEF Rejoining!Common
<1> QED BY <1>1, <1>2 DEF IdsKnown, PlanKnows

\* The receipts, where they and the common states stay.
LEMMA ReceiptsKept ==
  ASSUME RejoinInv, UNCHANGED <<r_plan, r_gave, r_receipt>>,
         Rejoining!Common' = Rejoining!Common, r_same' = r_same
  PROVE  (\A b \in Target : ReceiptFits(b)') /\ Rejoining!NotReissued'
<1>1. \A b \in Target : ReceiptFits(b)
  BY DEF RejoinInv
<1>2. Rejoining!NotReissued
  BY DEF RejoinInv
<1> QED BY <1>1, <1>2 DEF ReceiptFits, Rejoining!NotReissued

\* The session goes on, and the common states stay.
LEMMA SessionGoes ==
  ASSUME RejoinParameters, RejoinInv, r_session # NoSession, NEW step \in Rejoining!Steps,
         Rejoining!Go(step),
         step \in Unannounced \/ r_session.at \notin Unannounced,
         Rejoining!Common' = Rejoining!Common, UNCHANGED <<r_plan, r_same>>
  PROVE  SessionFits'
<1>1. SessionFits /\ RejoinTyped
  BY DEF RejoinInv
<1> QED BY <1>1, SessionTyped DEF SessionFits

\* A step that leaves common states, plans, receipts, ledgers and answers.
LEMMA StepAside ==
  ASSUME RejoinParameters, RejoinInv, RejoinTyped', SessionFits',
         UNCHANGED <<r_same, r_home, r_clone, r_plan, r_gave, r_ledger, r_receipt>>
  PROVE  RejoinInv'
<1>1. Rejoining!Common' = Rejoining!Common
  BY KnownKept
<1> QED BY <1>1, KnownKept, ReceiptsKept DEF RejoinInv

-----------------------------------------------------------------------------
(* The steps before a rejoin is announced, and its ends.                   *)

\* An artifact is stored.
LEMMA StoreStep ==
  ASSUME RejoinParameters, RejoinInv,
         NEW artifact \in Rejoining!Artifact, NEW at, NEW next \in Rejoining!Steps,
         Rejoining!Store(artifact, at, next), next \in Unannounced \/ at \notin Unannounced
  PROVE  RejoinInv'
<1>1. r_session # NoSession /\ r_session.at = at /\ Rejoining!Go(next)
  BY DEF Rejoining!Store, Rejoining!At
<1>2. UNCHANGED <<r_same, r_home, r_clone, r_plan, r_gave, r_ledger, r_receipt, r_file, r_refs,
                  r_acts, r_stops>>
  BY DEF Rejoining!Store
<1>3. RejoinTyped /\ Rejoining!P \in Rejoining!Rejoin
  BY <1>1, RejoinAtWork DEF RejoinInv
<1>4. RejoinTyped'
  <2>1. r_stored' \in [Target -> SUBSET (Rejoining!Artifact \X Rejoining!Rejoin)]
    <3>1. r_stored' = [r_stored EXCEPT ![Rejoining!B] = @ \cup {<<artifact, Rejoining!P>>}]
      BY DEF Rejoining!Store
    <3>2. <<artifact, Rejoining!P>> \in Rejoining!Artifact \X Rejoining!Rejoin
      BY <1>3
    <3>3. r_stored \in [Target -> SUBSET (Rejoining!Artifact \X Rejoining!Rejoin)]
      BY <1>3 DEF RejoinTyped, Rejoining!TypeOK
    <3> QED BY <3>1, <3>2, <3>3
  <2> QED BY <1>1, <1>2, <1>3, <2>1, SessionTyped DEF RejoinTyped, Rejoining!TypeOK
<1>5. SessionFits'
  <2>1. Rejoining!Common' = Rejoining!Common
    BY <1>2, KnownKept
  <2> QED BY <1>1, <1>2, <2>1, SessionGoes
<1> QED BY <1>2, <1>4, <1>5, StepAside

\* The plan, its payload and the capacity evidence are stored.
LEMMA StoreSteps ==
  ASSUME RejoinParameters, RejoinInv,
         Rejoining!StorePlan \/ Rejoining!StorePayload \/ Rejoining!StoreCapacity
  PROVE  RejoinInv'
<1>1. "payload" \in Rejoining!Steps /\ "receipt" \in Rejoining!Steps /\ "rest" \in Rejoining!Steps
  BY DEF Rejoining!Steps
<1>2. "plan" \in Rejoining!Artifact /\ "payload" \in Rejoining!Artifact
      /\ "capacity" \in Rejoining!Artifact
  BY DEF Rejoining!Artifact
<1>3. CASE Rejoining!StorePlan
  BY <1>1, <1>2, <1>3, StoreStep DEF Rejoining!StorePlan, Unannounced
<1>4. CASE Rejoining!StorePayload
  BY <1>1, <1>2, <1>4, StoreStep DEF Rejoining!StorePayload, Unannounced
<1>5. CASE Rejoining!StoreCapacity
  BY <1>1, <1>2, <1>5, StoreStep DEF Rejoining!StoreCapacity, Unannounced
<1> QED BY <1>3, <1>4, <1>5

\* Everything is looked at again.
LEMMA RevalidateStep ==
  ASSUME RejoinParameters, RejoinInv, Rejoining!Revalidate PROVE RejoinInv'
<1>1. r_session # NoSession /\ r_session.at = "revalidate" /\ Rejoining!Go("complete")
      /\ "complete" \in Rejoining!Steps /\ "revalidate" \notin Unannounced
  BY DEF Rejoining!Revalidate, Rejoining!At, Rejoining!Steps, Unannounced
<1>2. UNCHANGED <<r_same, r_home, r_clone, r_plan, r_gave, r_ledger, r_receipt, r_file, r_refs,
                  r_stored, r_acts, r_stops>>
  BY DEF Rejoining!Revalidate, Rejoining!boards
<1>3. RejoinTyped'
  BY <1>1, <1>2, SessionTyped DEF RejoinInv, RejoinTyped, Rejoining!TypeOK
<1>4. SessionFits'
  <2>1. Rejoining!Common' = Rejoining!Common
    BY <1>2, KnownKept
  <2> QED BY <1>1, <1>2, <2>1, SessionGoes
<1> QED BY <1>2, <1>3, <1>4, StepAside

\* A command ends before it is done.
LEMMA EndSteps ==
  ASSUME RejoinParameters, RejoinInv, Rejoining!Refuse \/ Rejoining!Stop PROVE RejoinInv'
<1>1. UNCHANGED <<r_same, r_home, r_clone, r_plan, r_gave, r_ledger, r_receipt, r_file, r_refs,
                  r_stored, r_acts>>
  BY DEF Rejoining!Refuse, Rejoining!Stop, Rejoining!boards
<1>2. /\ r_session' = NoSession
      /\ r_stops' = r_stops \/ (r_stops' = r_stops + 1 /\ r_acts + r_stops < RejoinFaults)
  BY DEF Rejoining!Refuse, Rejoining!Stop
<1>3. RejoinTyped
  BY DEF RejoinInv
<1>4. r_acts' + r_stops' \in 0..RejoinFaults /\ r_stops' \in Nat
  <2>1. r_acts + r_stops \in 0..RejoinFaults /\ r_acts \in Nat /\ r_stops \in Nat
    BY <1>3 DEF RejoinTyped, Rejoining!TypeOK
  <2>2. RejoinFaults \in Nat
    BY DEF RejoinParameters
  <2> QED BY <1>1, <1>2, <2>1, <2>2
<1>5. RejoinTyped'
  BY <1>1, <1>2, <1>3, <1>4 DEF RejoinTyped, Rejoining!TypeOK
<1> QED BY <1>1, <1>2, <1>5, StepAside DEF SessionFits

\* A command that opens a session finds its rejoin prepared and undone.
LEMMA OpenStep ==
  ASSUME RejoinParameters, RejoinInv, NEW p \in Rejoining!Rejoin,
         Rejoining!ApplySame(p) \/ Rejoining!ApplyClone(p)
  PROVE  RejoinInv'
<1>1. Rejoining!Open(p, Rejoining!Start(p)) /\ r_plan[p] # None
  BY DEF Rejoining!ApplySame, Rejoining!ApplyClone
<1>2. UNCHANGED <<r_same, r_home, r_clone, r_plan, r_gave, r_ledger, r_receipt, r_file, r_refs,
                  r_stored, r_acts, r_stops>>
      /\ r_session' = [of |-> p, at |-> Rejoining!Start(p), refs |-> r_refs]
      /\ ~Rejoining!DoneCommon(p)
  BY <1>1 DEF Rejoining!Open, Rejoining!boards
<1>3. RejoinTyped
  BY DEF RejoinInv
<1>4. Rejoining!Start(p) \in {"plan", "clear"}
  BY DEF Rejoining!Start
<1>5. r_session' \in [of : Rejoining!Rejoin, at : Rejoining!Steps, refs : 0..RejoinFaults]
  BY <1>2, <1>3, <1>4 DEF RejoinTyped, Rejoining!TypeOK, Rejoining!Steps
<1>6. RejoinTyped'
  BY <1>2, <1>3, <1>5 DEF RejoinTyped, Rejoining!TypeOK
<1>7. Rejoining!Common' = Rejoining!Common
  BY <1>2, KnownKept
<1>8. Rejoining!Common # None => Rejoining!Undisputed(p)
  BY <1>2 DEF Rejoining!ApplySame, Rejoining!ApplyClone, Rejoining!PreflightSame,
     Rejoining!PreflightClone
<1>9. Rejoining!Common # None =>
        /\ p \notin Rejoining!Common.done
        /\ Rejoining!Common.pending \in {None, p}
        /\ ~r_same \/ p \in Rejoining!Common.joined => Rejoining!Common.pending = p
  BY <1>2, <1>8 DEF Rejoining!Undisputed, Rejoining!DoneCommon, Rejoining!JoinedAsPending,
     Rejoining!ApplyClone, Rejoining!ApplySame, Rejoining!PreflightClone
<1>10. Rejoining!Start(p) = "clear" =>
         Rejoining!Common # None /\ p \in Rejoining!Common.joined
  <2>1. SUFFICES ASSUME Rejoining!Holds(p, "completed")
                 PROVE  Rejoining!Common # None /\ p \in Rejoining!Common.joined
    BY DEF Rejoining!Start
  <2>2. r_plan[p].target \in Target
    BY <1>1, <1>3 DEF RejoinTyped, Rejoining!TypeOK, Rejoining!Plan
  <2>3. r_receipt[r_plan[p].target] # None
    BY <2>1 DEF Rejoining!Holds, RejoinParameters, Rejoining!Receipt
  <2> QED BY <2>1, <2>2, <2>3 DEF Rejoining!Holds, RejoinInv, ReceiptFits
<1>11. SessionFits'
  BY <1>1, <1>2, <1>4, <1>7, <1>9, <1>10 DEF SessionFits, Unannounced
<1> QED BY <1>2, <1>6, <1>11, StepAside

-----------------------------------------------------------------------------
(* Publications of a rejoin, and what others do.                           *)

\* What a plan writes into a ledger is a segment the common state knows.
LEMMA PlannedLedger ==
  ASSUME RejoinParameters, RejoinInv, NEW p \in Rejoining!Rejoin, r_plan[p] # None
  PROVE  /\ Segment(Rejoining!TargetLedger(p))
         /\ Rejoining!TargetLedger(p) \subseteq r_plan[p].known
         /\ r_plan[p].known \subseteq r_home.reserved
         /\ Rejoining!TargetLedger(p) \subseteq Rejoining!Id
         /\ r_plan[p].additional \subseteq Rejoining!TargetLedger(p)
         /\ r_plan[p].additional \subseteq Rejoining!Id
         /\ ~r_same => Rejoining!TargetLedger(p) = r_plan[p].known
         /\ r_same => r_plan[p].additional = {}
<1>1. PlanKnows(r_plan[p])
  BY DEF RejoinInv, IdsKnown
<1>2. r_plan[p] \in Rejoining!Plan
  BY DEF RejoinInv, RejoinTyped, Rejoining!TypeOK
<1> QED BY <1>1, <1>2 DEF PlanKnows, Rejoining!TargetLedger, Rejoining!Plan

\* A file is written, and with ids.json the ledger.
LEMMA PublishStep ==
  ASSUME RejoinParameters, RejoinInv,
         NEW c \in Rejoining!Class, NEW next \in Rejoining!Steps \ Unannounced,
         Rejoining!Publish(c, next), c \notin Unannounced
  PROVE  RejoinInv'
<1>1. r_session # NoSession /\ r_session.at = c /\ Rejoining!Go(next)
  BY DEF Rejoining!Publish, Rejoining!At
<1>2. UNCHANGED <<r_same, r_home, r_clone, r_plan, r_gave, r_receipt, r_stored, r_refs,
                  r_acts, r_stops>>
  BY DEF Rejoining!Publish
<1>3. RejoinTyped /\ IdsKnown
  BY DEF RejoinInv
<1>4. r_file' \in [Rejoining!Board -> [Rejoining!File -> Rejoining!Content]]
  <2>1. Rejoining!Ours(Rejoining!P) \in Rejoining!Content
    BY <1>1, RejoinAtWork DEF Rejoining!Ours, Rejoining!Content, RejoinParameters
  <2> QED BY <1>3, <2>1 DEF Rejoining!Publish, RejoinTyped, Rejoining!TypeOK
<1>5. /\ r_ledger' \in [Rejoining!Board -> SUBSET Rejoining!Id]
      /\ \A b \in Rejoining!Board : b # Rejoining!B => r_ledger'[b] = r_ledger[b]
      /\ r_ledger'[Rejoining!B] \in {r_ledger[Rejoining!B], Rejoining!TargetLedger(Rejoining!P)}
  BY <1>1, <1>3, RejoinAtWork, PlannedLedger DEF Rejoining!Publish, RejoinTyped, Rejoining!TypeOK
<1>6. RejoinTyped'
  BY <1>1, <1>2, <1>3, <1>4, <1>5, SessionTyped DEF RejoinTyped, Rejoining!TypeOK
<1>7. Rejoining!Common' = Rejoining!Common
  BY <1>2 DEF Rejoining!Common
<1>8. SessionFits'
  BY <1>1, <1>2, <1>7, SessionGoes
<1>9. \A b \in Rejoining!Board : Segment(r_ledger'[b]) /\
        (r_ledger'[b] \subseteq r_ledger[b] \/ r_ledger'[b] \subseteq r_home.reserved)
  BY <1>1, <1>3, <1>5, RejoinAtWork, PlannedLedger DEF IdsKnown
<1>10. Source \in Rejoining!Board /\ Source # Rejoining!B
  BY <1>1, RejoinAtWork DEF RejoinParameters, Rejoining!Board
<1>11. IdsKnown'
  <2>1. \A p \in Rejoining!Rejoin : r_plan[p] # None => PlanKnows(r_plan[p])'
    BY <1>2, <1>3 DEF IdsKnown, PlanKnows
  <2>2. r_ledger'[Source] \subseteq r_home.reserved
    BY <1>3, <1>5, <1>10 DEF IdsKnown
  <2>3. r_same => \A b \in Rejoining!Board : r_ledger'[b] \cup r_gave[b] \subseteq r_home.reserved
    BY <1>3, <1>9 DEF IdsKnown
  <2> QED BY <1>2, <1>3, <1>9, <2>1, <2>2, <2>3 DEF IdsKnown
<1> QED BY <1>2, <1>6, <1>7, <1>8, <1>11, ReceiptsKept DEF RejoinInv

\* The three files.
LEMMA PublishSteps ==
  ASSUME RejoinParameters, RejoinInv,
         Rejoining!PublishTransitions \/ Rejoining!PublishIds \/ Rejoining!PublishRest
  PROVE  RejoinInv'
<1>1. {"ids", "capacity", "revalidate"} \subseteq Rejoining!Steps \ Unannounced
  BY DEF Rejoining!Steps, Unannounced
<1>2. {"transitions", "ids", "rest"} \subseteq Rejoining!Class \ Unannounced
  BY DEF Rejoining!Class, Unannounced
<1>3. CASE Rejoining!PublishTransitions
  BY <1>1, <1>2, <1>3, PublishStep DEF Rejoining!PublishTransitions
<1>4. CASE Rejoining!PublishIds
  BY <1>1, <1>2, <1>4, PublishStep DEF Rejoining!PublishIds
<1>5. CASE Rejoining!PublishRest
  BY <1>1, <1>2, <1>5, PublishStep DEF Rejoining!PublishRest
<1> QED BY <1>3, <1>4, <1>5

\* One more write of a file, within the bound.
LEMMA WrittenTyped ==
  ASSUME RejoinParameters, RejoinTyped, NEW b \in Rejoining!Board,
         NEW c \in {"ids", "transitions"}, Rejoining!Written(b, c)
  PROVE  r_file' \in [Rejoining!Board -> [Rejoining!File -> Rejoining!Content]]
<1>1. r_file \in [Rejoining!Board -> [Rejoining!File -> Rejoining!Content]]
  BY DEF RejoinTyped, Rejoining!TypeOK
<1>2. {"ids", "transitions"} \subseteq Rejoining!File
  BY DEF Rejoining!File, Rejoining!Class
<1>3. r_file[b]["ids"] \in Rejoining!Content /\ r_file[b]["transitions"] \in Rejoining!Content
  BY <1>1, <1>2
<1>4. r_file[b][c].writes + 1 \in 0..MaxWrites
  <2>1. r_file[b]["ids"].writes \in 0..MaxWrites /\ r_file[b]["transitions"].writes \in 0..MaxWrites
        /\ MaxWrites \in Nat
    BY <1>3 DEF Rejoining!Content, RejoinParameters
  <2>2. r_file[b]["ids"].writes + r_file[b]["transitions"].writes < MaxWrites
    BY DEF Rejoining!Written
  <2> QED BY <2>1, <2>2
<1>5. [r_file[b][c] EXCEPT !.writes = @ + 1] \in Rejoining!Content
  BY <1>3, <1>4 DEF Rejoining!Content
<1>6. r_file' = [r_file EXCEPT ![b][c].writes = @ + 1]
  BY DEF Rejoining!Written
<1>7. r_file' = [r_file EXCEPT
        ![b] = [r_file[b] EXCEPT ![c] = [r_file[b][c] EXCEPT !.writes = @ + 1]]]
  BY <1>6
<1>8. [r_file[b] EXCEPT ![c] = [r_file[b][c] EXCEPT !.writes = @ + 1]]
        \in [Rejoining!File -> Rejoining!Content]
  BY <1>1, <1>2, <1>5
<1> QED BY <1>1, <1>7, <1>8

\* An ordinary command writes the transition journal.
LEMMA TransitionStep ==
  ASSUME RejoinParameters, RejoinInv, NEW b \in Target, Rejoining!Transition(b)
  PROVE  RejoinInv'
<1>1. UNCHANGED <<r_same, r_home, r_clone, r_plan, r_gave, r_ledger, r_receipt, r_refs,
                  r_stored, r_acts, r_stops, r_session>>
  BY DEF Rejoining!Transition
<1>2. RejoinTyped
  BY DEF RejoinInv
<1>3. r_file' \in [Rejoining!Board -> [Rejoining!File -> Rejoining!Content]]
  <2>1. Rejoining!Written(b, "transitions")
    BY DEF Rejoining!Transition
  <2> QED BY <1>2, <2>1, WrittenTyped DEF Rejoining!Board
<1>4. RejoinTyped'
  BY <1>1, <1>2, <1>3 DEF RejoinTyped, Rejoining!TypeOK
<1>5. SessionFits'
  BY <1>1, KnownKept DEF SessionFits, RejoinInv
<1> QED BY <1>1, <1>4, <1>5, StepAside

\* Git moves a ref, a copy is brought to where the source is, or an editor
\* writes a file.
LEMMA OutsiderStep ==
  ASSUME RejoinParameters, RejoinInv, Rejoining!Outsider PROVE RejoinInv'
<1>1. UNCHANGED <<r_same, r_home, r_clone, r_plan, r_gave, r_receipt, r_stored, r_stops,
                  r_session>>
      /\ r_acts + r_stops < RejoinFaults /\ r_acts' = r_acts + 1
  BY DEF Rejoining!Outsider
<1>2. RejoinTyped /\ IdsKnown
  BY DEF RejoinInv
<1>3. /\ r_acts \in Nat /\ r_stops \in Nat /\ r_acts + r_stops \in 0..RejoinFaults
      /\ r_refs \in 0..RejoinFaults /\ r_refs <= r_acts /\ RejoinFaults \in Nat
  BY <1>2 DEF RejoinTyped, Rejoining!TypeOK, RejoinParameters
<1>4. r_refs' = r_refs \/ r_refs' = r_refs + 1
  BY DEF Rejoining!Outsider
<1>5. /\ r_acts' + r_stops' \in 0..RejoinFaults /\ r_acts' \in Nat /\ r_stops' \in Nat
      /\ r_refs' \in 0..RejoinFaults /\ r_refs' <= r_acts'
  BY <1>1, <1>3, <1>4
<1>6. Source \in Rejoining!Board /\ Target \subseteq Rejoining!Board /\ Source \notin Target
  BY DEF Rejoining!Board, RejoinParameters
<1>7. r_file' \in [Rejoining!Board -> [Rejoining!File -> Rejoining!Content]]
  <2>1. r_file \in [Rejoining!Board -> [Rejoining!File -> Rejoining!Content]]
    BY <1>2 DEF RejoinTyped, Rejoining!TypeOK
  <2>2. [by |-> Third, writes |-> 0] \in Rejoining!Content
    BY DEF Rejoining!Content, RejoinParameters
  <2>3. CASE r_file' = r_file
    BY <2>1, <2>3
  <2>4. ASSUME NEW b \in Target, NEW changed \in {Rejoining!File} \cup {{c} : c \in Rejoining!File},
               r_file' = [r_file EXCEPT ![b] = [c \in Rejoining!File |->
                            IF c \in changed THEN r_file[Source][c] ELSE @[c]]]
        PROVE  r_file' \in [Rejoining!Board -> [Rejoining!File -> Rejoining!Content]]
    BY <1>6, <2>1, <2>4
  <2>5. ASSUME NEW b \in Target, NEW c \in Rejoining!File,
               r_file' = [r_file EXCEPT ![b][c] = [by |-> Third, writes |-> 0]]
        PROVE  r_file' \in [Rejoining!Board -> [Rejoining!File -> Rejoining!Content]]
    BY <1>6, <2>1, <2>2, <2>5
  <2> QED BY <2>3, <2>4, <2>5 DEF Rejoining!Outsider
<1>8. r_ledger' = r_ledger \/ \E b \in Target :
        r_ledger' = [r_ledger EXCEPT ![b] = r_ledger[Source]]
  BY DEF Rejoining!Outsider
<1>9. r_ledger' \in [Rejoining!Board -> SUBSET Rejoining!Id]
      /\ r_ledger'[Source] = r_ledger[Source]
      /\ \A b \in Rejoining!Board : r_ledger'[b] \in {r_ledger[b], r_ledger[Source]}
  BY <1>2, <1>6, <1>8 DEF RejoinTyped, Rejoining!TypeOK
<1>10. RejoinTyped'
  BY <1>1, <1>2, <1>5, <1>7, <1>9 DEF RejoinTyped, Rejoining!TypeOK
<1>11. Rejoining!Common' = Rejoining!Common
  BY <1>1 DEF Rejoining!Common
<1>12. SessionFits'
  BY <1>1, <1>11 DEF SessionFits, RejoinInv
<1>13. IdsKnown'
  <2>1. \A p \in Rejoining!Rejoin : r_plan[p] # None => PlanKnows(r_plan[p])'
    BY <1>1, <1>2 DEF IdsKnown, PlanKnows
  <2>2. \A b \in Rejoining!Board : Segment(r_ledger'[b])
    BY <1>2, <1>6, <1>9 DEF IdsKnown
  <2>3. r_same => \A b \in Rejoining!Board : r_ledger'[b] \cup r_gave[b] \subseteq r_home.reserved
    BY <1>2, <1>6, <1>9 DEF IdsKnown
  <2> QED BY <1>1, <1>2, <1>9, <2>1, <2>2, <2>3 DEF IdsKnown
<1> QED BY <1>1, <1>10, <1>11, <1>12, <1>13, ReceiptsKept DEF RejoinInv

\* A rejoin is prepared.
LEMMA PrepareStep ==
  ASSUME RejoinParameters, RejoinInv, NEW p \in Rejoining!Rejoin, NEW b \in Target,
         Rejoining!Prepare(p, b)
  PROVE  RejoinInv'
<1>1. UNCHANGED <<r_same, r_home, r_clone, r_gave, r_ledger, r_receipt, r_stored, r_file,
                  r_refs, r_acts, r_stops, r_session>>
      /\ r_plan[p] = None /\ r_plan' = [r_plan EXCEPT ![p] = Rejoining!Header(b)]
  BY DEF Rejoining!Prepare, Rejoining!boards
<1>2. RejoinTyped /\ IdsKnown /\ SessionFits /\ Rejoining!NotReissued
      /\ \A c \in Target : ReceiptFits(c)
  BY DEF RejoinInv
<1>3. Source \in Rejoining!Board
  BY DEF Rejoining!Board
<1>4. Rejoining!Header(b) \in Rejoining!Plan
  <2>1. r_home.reserved \in SUBSET Rejoining!Id
    BY <1>2 DEF RejoinTyped, Rejoining!TypeOK, Rejoining!State
  <2>2. Rejoining!Exported \subseteq Rejoining!Id
    BY <2>1 DEF Rejoining!Exported
  <2> QED BY <1>2, <1>3, <2>1, <2>2
      DEF RejoinTyped, Rejoining!TypeOK, Rejoining!Header, Rejoining!Plan
<1>5. Rejoining!Header(b) # None
  BY <1>4 DEF RejoinParameters
<1>6. /\ r_plan' \in [Rejoining!Rejoin -> Rejoining!Plan \cup {None}]
      /\ \A q \in Rejoining!Rejoin : r_plan[q] # None => r_plan'[q] = r_plan[q] /\ r_plan'[q] # None
      /\ \A q \in Rejoining!Rejoin : r_plan'[q] # None =>
           r_plan'[q] = r_plan[q] \/ r_plan'[q] = Rejoining!Header(b)
  BY <1>1, <1>2, <1>4 DEF RejoinTyped, Rejoining!TypeOK
<1>7. RejoinTyped'
  BY <1>1, <1>2, <1>6 DEF RejoinTyped, Rejoining!TypeOK
<1>8. Rejoining!Common' = Rejoining!Common
  BY <1>1 DEF Rejoining!Common
<1>9. PlanKnows(Rejoining!Header(b))
  <2>1. Segment(r_home.reserved) /\ Segment(r_ledger[Source])
        /\ r_ledger[Source] \subseteq r_home.reserved
    BY <1>2, <1>3 DEF IdsKnown
  <2>2. r_home.reserved \cup r_ledger[Source] = r_home.reserved
    BY <2>1
  <2>3. r_ledger[Source] \cup Rejoining!Exported = r_home.reserved
    BY <2>1 DEF Rejoining!Exported
  <2>4. r_ledger[Source] \cup {} = r_ledger[Source]
    OBVIOUS
  <2>5. /\ Rejoining!Header(b).ids = r_ledger[Source]
        /\ Rejoining!Header(b).known = r_home.reserved
        /\ Rejoining!Header(b).additional = IF r_same THEN {} ELSE Rejoining!Exported
    BY <2>2 DEF Rejoining!Header
  <2> QED BY <2>1, <2>3, <2>4, <2>5 DEF PlanKnows
<1>10. IdsKnown'
  <2>1. \A q \in Rejoining!Rejoin : r_plan'[q] # None => PlanKnows(r_plan'[q])
    BY <1>2, <1>6, <1>9 DEF IdsKnown
  <2>2. \A q \in Rejoining!Rejoin : r_plan'[q] # None => PlanKnows(r_plan[q])'
    BY <1>1, <2>1 DEF PlanKnows
  <2>3. r_clone # None => \A q \in r_clone.joined :
          q \in Rejoining!Rejoin /\ r_plan'[q] # None /\ r_plan'[q] = r_plan[q]
    BY <1>2, <1>6 DEF IdsKnown, RejoinTyped, Rejoining!TypeOK, Rejoining!State
  <2> QED BY <1>1, <1>2, <2>2, <2>3 DEF IdsKnown
<1>11. \A c \in Target : r_receipt[c] # None => r_receipt[c].of \in Rejoining!Rejoin
  BY <1>2 DEF RejoinTyped, Rejoining!TypeOK, Rejoining!Receipt
<1>12. \A c \in Target : ReceiptFits(c)'
  BY <1>1, <1>2, <1>6, <1>8, <1>11 DEF ReceiptFits
<1>13. Rejoining!NotReissued'
  BY <1>1, <1>2, <1>6, <1>11 DEF Rejoining!NotReissued, ReceiptFits
<1>14. SessionFits'
  BY <1>1, <1>2, <1>6, <1>8 DEF SessionFits, RejoinTyped, Rejoining!TypeOK
<1> QED BY <1>7, <1>10, <1>12, <1>13, <1>14 DEF RejoinInv

-----------------------------------------------------------------------------
(* The receipt and the common state.                                       *)

\* A receipt is written, of the rejoin at work.
LEMMA ReceiptWritten ==
  ASSUME RejoinParameters, RejoinInv, r_session # NoSession,
         NEW phase \in {"pending", "completed"}, NEW step \in Rejoining!Steps,
         r_receipt' = [r_receipt EXCEPT ![Rejoining!B] = [of |-> Rejoining!P, phase |-> phase]],
         Rejoining!Go(step), step \in Unannounced \/ r_session.at \notin Unannounced,
         UNCHANGED <<r_same, r_home, r_clone, r_plan, r_gave, r_ledger, r_file, r_refs,
                     r_stored, r_acts, r_stops>>,
         r_receipt[Rejoining!B] = None \/ r_receipt[Rejoining!B].of = Rejoining!P,
         r_receipt[Rejoining!B] # None /\ r_receipt[Rejoining!B].phase = "completed" =>
           phase = "completed",
         phase = "completed" =>
           Rejoining!Common # None /\ Rejoining!P \in Rejoining!Common.joined
  PROVE  RejoinInv'
<1>1. RejoinTyped /\ Rejoining!NotReissued /\ \A b \in Target : ReceiptFits(b)
  BY DEF RejoinInv
<1>2. /\ Rejoining!P \in Rejoining!Rejoin /\ r_plan[Rejoining!P] # None
      /\ Rejoining!B \in Target /\ r_plan[Rejoining!P].target = Rejoining!B
  BY RejoinAtWork
<1>3. [of |-> Rejoining!P, phase |-> phase] \in Rejoining!Receipt
      /\ [of |-> Rejoining!P, phase |-> phase] # None
  BY <1>2 DEF Rejoining!Receipt, RejoinParameters
<1>4. /\ r_receipt' \in [Target -> Rejoining!Receipt \cup {None}]
      /\ r_receipt'[Rejoining!B] = [of |-> Rejoining!P, phase |-> phase]
      /\ \A b \in Target : b # Rejoining!B => r_receipt'[b] = r_receipt[b]
  BY <1>1, <1>2, <1>3 DEF RejoinTyped, Rejoining!TypeOK
<1>5. RejoinTyped'
  BY <1>1, <1>4, SessionTyped DEF RejoinTyped, Rejoining!TypeOK
<1>6. IdsKnown' /\ Rejoining!Common' = Rejoining!Common
  BY KnownKept
<1>7. SessionFits'
  BY <1>6, SessionGoes
<1>8. \A b \in Target : ReceiptFits(b)'
  <2>1. ASSUME NEW b \in Target, b = Rejoining!B PROVE ReceiptFits(b)'
    <3>1. /\ r_receipt'[b].of = Rejoining!P /\ r_receipt'[b].phase = phase
          /\ r_receipt'[b] # None
      BY <1>3, <1>4, <2>1
    <3>2. r_gave[b] # {} => phase = "completed"
      BY <1>1, <2>1 DEF ReceiptFits
    <3> QED BY <1>2, <1>6, <2>1, <3>1, <3>2 DEF ReceiptFits
  <2>2. ASSUME NEW b \in Target, b # Rejoining!B PROVE ReceiptFits(b)'
    BY <1>1, <1>4, <1>6, <2>2 DEF ReceiptFits
  <2> QED BY <2>1, <2>2
<1>9. Rejoining!NotReissued'
  <2>1. r_receipt[Rejoining!B] = None => r_gave[Rejoining!B] = {}
    BY <1>1, <1>2 DEF ReceiptFits
  <2>2. \A b \in Target : r_receipt'[b] # None =>
          r_gave[b] \cap r_plan[r_receipt'[b].of].known = {}
    BY <1>1, <1>2, <1>4, <2>1 DEF Rejoining!NotReissued
  <2> QED BY <1>1, <2>2 DEF Rejoining!NotReissued
<1> QED BY <1>5, <1>6, <1>7, <1>8, <1>9 DEF RejoinInv

\* The pending receipt.
LEMMA SaveRejoinStep ==
  ASSUME RejoinParameters, RejoinInv, Rejoining!SavePending PROVE RejoinInv'
<1>1. r_session # NoSession /\ Rejoining!Go("announce") /\ "announce" \in Rejoining!Steps
      /\ "announce" \in Unannounced
  BY DEF Rejoining!SavePending, Rejoining!At, Rejoining!Steps, Unannounced
<1>2. UNCHANGED <<r_same, r_home, r_clone, r_plan, r_gave, r_ledger, r_file, r_refs,
                  r_stored, r_acts, r_stops>>
      /\ r_receipt' = [r_receipt EXCEPT ![Rejoining!B] = [of |-> Rejoining!P, phase |-> "pending"]]
  BY DEF Rejoining!SavePending
<1>3. r_receipt[Rejoining!B] = None
      \/ r_receipt[Rejoining!B] = [of |-> Rejoining!P, phase |-> "pending"]
  BY DEF Rejoining!SavePending, Rejoining!ReceiptFree, Rejoining!Holds, Rejoining!B, Rejoining!P
<1>4. /\ r_receipt[Rejoining!B] = None \/ r_receipt[Rejoining!B].of = Rejoining!P
      /\ ~(r_receipt[Rejoining!B] # None /\ r_receipt[Rejoining!B].phase = "completed")
  BY <1>3
<1>5. "pending" \in {"pending", "completed"} /\ "pending" # "completed"
  OBVIOUS
<1> HIDE DEF Rejoining!B, Rejoining!P
<1> QED BY <1>1, <1>2, <1>4, <1>5, ReceiptWritten

\* The receipt is completed.
LEMMA CompleteRejoinStep ==
  ASSUME RejoinParameters, RejoinInv, Rejoining!Complete PROVE RejoinInv'
<1>1. r_session # NoSession /\ Rejoining!Go("clear") /\ "clear" \in Rejoining!Steps
      /\ r_session.at \notin Unannounced
  BY DEF Rejoining!Complete, Rejoining!At, Rejoining!Steps, Unannounced
<1>2. UNCHANGED <<r_same, r_home, r_clone, r_plan, r_gave, r_ledger, r_file, r_refs,
                  r_stored, r_acts, r_stops>>
  BY DEF Rejoining!Complete
<1>3. r_receipt[Rejoining!B] = [of |-> Rejoining!P, phase |-> "pending"]
  BY DEF Rejoining!Complete, Rejoining!Holds, Rejoining!B, Rejoining!P
<1>4. r_receipt' = [r_receipt EXCEPT ![Rejoining!B] = [of |-> Rejoining!P, phase |-> "completed"]]
  <2>1. r_receipt' = [r_receipt EXCEPT
          ![Rejoining!B] = [r_receipt[Rejoining!B] EXCEPT !.phase = "completed"]]
    BY DEF Rejoining!Complete
  <2>2. [r_receipt[Rejoining!B] EXCEPT !.phase = "completed"]
          = [of |-> Rejoining!P, phase |-> "completed"]
    BY <1>3
  <2> QED BY <2>1, <2>2
<1>5. Rejoining!Common # None /\ Rejoining!P \in Rejoining!Common.joined
  <2>1. Rejoining!Common # None /\ Rejoining!Common.pending = Rejoining!P
    BY <1>1 DEF RejoinInv, SessionFits, Rejoining!P
  <2>2. Rejoining!P # None
    BY <1>1, RejoinAtWork DEF RejoinParameters
  <2> QED BY <2>1, <2>2, CommonIs DEF Rejoining!Decoded, RejoinInv
<1>6. "completed" \in {"pending", "completed"}
  OBVIOUS
<1> QED BY <1>1, <1>2, <1>3, <1>4, <1>5, <1>6, ReceiptWritten

\* The common state of the targets changes, and loses neither identifiers nor
\* rejoins.
LEMMA CommonWritten ==
  ASSUME RejoinParameters, RejoinInv, NEW s \in Rejoining!State, Rejoining!Decoded(s),
         Rejoining!SetCommon(s), Segment(s.reserved),
         Rejoining!Common # None =>
           /\ Rejoining!Common.reserved \subseteq s.reserved
           /\ Rejoining!Common.joined \subseteq s.joined,
         ~r_same => \A p \in s.joined :
           r_plan[p] # None /\ r_plan[p].known \subseteq s.reserved,
         UNCHANGED <<r_same, r_plan, r_gave, r_ledger, r_receipt>>
  PROVE  /\ IdsKnown' /\ (\A b \in Target : ReceiptFits(b)') /\ Rejoining!NotReissued'
         /\ Rejoining!Common' = s
         /\ r_home' \in Rejoining!State /\ Rejoining!Decoded(r_home')
         /\ r_clone' = None
            \/ (~r_same /\ r_clone' \in Rejoining!State /\ Rejoining!Decoded(r_clone'))
         /\ ~r_same => r_home'.protocol = 5
<1>1. RejoinTyped /\ IdsKnown /\ Rejoining!NotReissued /\ \A b \in Target : ReceiptFits(b)
  BY DEF RejoinInv
<1>2. s # None
  BY DEF RejoinParameters
<1>3. CASE r_same
  <2>1. r_home' = s /\ r_clone' = r_clone /\ r_clone = None /\ Rejoining!Common = r_home
        /\ Rejoining!Common' = s
    BY <1>1, <1>3 DEF Rejoining!SetCommon, Rejoining!Common, RejoinTyped, Rejoining!TypeOK
  <2>2. r_home # None /\ r_home.reserved \subseteq s.reserved
    BY <1>1, <2>1 DEF RejoinTyped, Rejoining!TypeOK, RejoinParameters
  <2>3. IdsKnown'
    <3>1. \A p \in Rejoining!Rejoin : r_plan[p] # None => PlanKnows(r_plan[p])'
      BY <1>1, <2>1, <2>2 DEF IdsKnown, PlanKnows
    <3>2. \A b \in Rejoining!Board : r_ledger[b] \cup r_gave[b] \subseteq s.reserved
      BY <1>1, <1>3, <2>2 DEF IdsKnown
    <3> QED BY <1>1, <2>1, <2>2, <3>1, <3>2 DEF IdsKnown, Rejoining!Board
  <2>4. \A b \in Target : ReceiptFits(b)'
    BY <1>1, <1>2, <2>1, <2>2 DEF ReceiptFits
  <2>5. Rejoining!NotReissued'
    BY <1>1 DEF Rejoining!NotReissued
  <2> QED BY <1>3, <2>1, <2>3, <2>4, <2>5
<1>4. CASE ~r_same
  <2>1. r_clone' = s /\ r_home' = r_home /\ Rejoining!Common = r_clone /\ Rejoining!Common' = s
    BY <1>4 DEF Rejoining!SetCommon, Rejoining!Common
  <2>2. IdsKnown'
    <3>1. \A p \in Rejoining!Rejoin : r_plan[p] # None => PlanKnows(r_plan[p])'
      BY <1>1, <2>1 DEF IdsKnown, PlanKnows
    <3> QED BY <1>1, <1>4, <2>1, <3>1 DEF IdsKnown
  <2>3. \A b \in Target : ReceiptFits(b)'
    BY <1>1, <1>2, <2>1 DEF ReceiptFits
  <2>4. Rejoining!NotReissued'
    BY <1>1 DEF Rejoining!NotReissued
  <2>5. r_home \in Rejoining!State /\ Rejoining!Decoded(r_home) /\ r_home.protocol = 5
    BY <1>1, <1>4 DEF RejoinTyped, Rejoining!TypeOK
  <2> QED BY <1>4, <2>1, <2>2, <2>3, <2>4, <2>5
<1> QED BY <1>3, <1>4

-----------------------------------------------------------------------------
(* The announcement, the end, and new cards.                               *)

\* A rejoin announces itself, or finds that it has.
LEMMA AnnounceStep ==
  ASSUME RejoinParameters, RejoinInv, Rejoining!Announce PROVE RejoinInv'
<1>1. r_session # NoSession /\ Rejoining!Go("transitions") /\ "transitions" \in Rejoining!Steps
      /\ r_session.at \in Unannounced
  BY DEF Rejoining!Announce, Rejoining!At, Rejoining!Steps, Unannounced
<1>2. UNCHANGED <<r_same, r_plan, r_gave, r_ledger, r_receipt, r_file, r_refs,
                  r_stored, r_acts, r_stops>>
  BY DEF Rejoining!Announce, Rejoining!boards
<1>3. RejoinTyped /\ IdsKnown
  BY DEF RejoinInv
<1>4. /\ Rejoining!P \in Rejoining!Rejoin /\ r_plan[Rejoining!P] # None /\ Rejoining!P # None
      /\ Rejoining!P = r_session.of
  BY <1>1, RejoinAtWork DEF Rejoining!P, RejoinParameters
<1>5. r_session' # NoSession /\ r_session'.of = Rejoining!P /\ r_session'.at = "transitions"
      /\ r_session' \in [of : Rejoining!Rejoin, at : Rejoining!Steps, refs : 0..RejoinFaults]
  BY <1>1, <1>3, <1>4, SessionTyped
<1>6. CASE Rejoining!Common # None /\ Rejoining!Common.pending = Rejoining!P
  <2>1. UNCHANGED <<r_home, r_clone>>
    BY <1>6 DEF Rejoining!Announce
  <2>2. IdsKnown' /\ Rejoining!Common' = Rejoining!Common
    BY <1>2, <2>1, KnownKept
  <2>3. RejoinTyped'
    BY <1>2, <1>3, <1>5, <2>1 DEF RejoinTyped, Rejoining!TypeOK
  <2>4. SessionFits'
    BY <1>1, <1>2, <1>4, <1>5, <1>6, <2>2 DEF SessionFits, RejoinInv
  <2> QED BY <1>2, <2>1, <2>3, <2>4, StepAside
<1>7. CASE ~(Rejoining!Common # None /\ Rejoining!Common.pending = Rejoining!P)
  <2> DEFINE s == IF r_same THEN Rejoining!AnnouncedSame ELSE Rejoining!AnnouncedClone
  <2>1. Rejoining!SetCommon(s)
    BY <1>7 DEF Rejoining!Announce
  <2>2. s \in Rejoining!State /\ Rejoining!Decoded(s) /\ s.pending = Rejoining!P
        /\ s.done = (IF r_same THEN r_home.done ELSE {}) /\ Rejoining!P \notin s.done
    <3>1. CASE r_same
      <4>1. r_home \in Rejoining!State /\ Rejoining!Decoded(r_home) /\ Rejoining!Common = r_home
        BY <1>3, <3>1 DEF RejoinTyped, Rejoining!TypeOK, Rejoining!Common
      <4>2. r_home # None
        BY <4>1 DEF RejoinParameters
      <4>3. r_home.pending = None /\ Rejoining!P \notin r_home.done
        BY <1>1, <1>4, <1>7, <4>1, <4>2 DEF SessionFits, RejoinInv
      <4>4. r_plan[Rejoining!P].additional = {}
        BY <1>4, <3>1, PlannedLedger
      <4>5. /\ s.protocol = 6 /\ s.pending = Rejoining!P /\ s.done = r_home.done
            /\ s.joined = r_home.joined \cup {Rejoining!P} /\ s.reserved = r_home.reserved
            /\ s \in Rejoining!State
        BY <1>4, <3>1, <4>1, <4>4 DEF Rejoining!AnnouncedSame, Rejoining!State
      <4> QED BY <1>4, <3>1, <4>1, <4>3, <4>5 DEF Rejoining!Decoded
    <3>2. CASE ~r_same
      <4>1. Rejoining!TargetLedger(Rejoining!P) \cup r_plan[Rejoining!P].additional
              \in SUBSET Rejoining!Id
        BY <1>4, PlannedLedger
      <4>2. s = [protocol |-> 6, pending |-> Rejoining!P, joined |-> {Rejoining!P}, done |-> {},
                 reserved |-> Rejoining!TargetLedger(Rejoining!P)
                                \cup r_plan[Rejoining!P].additional]
        BY <3>2 DEF Rejoining!AnnouncedClone
      <4> QED BY <1>4, <3>2, <4>1, <4>2 DEF Rejoining!State, Rejoining!Decoded
    <3> QED BY <3>1, <3>2
  <2>3. /\ Segment(s.reserved)
        /\ Rejoining!Common # None =>
             /\ Rejoining!Common.reserved \subseteq s.reserved
             /\ Rejoining!Common.joined \subseteq s.joined
        /\ ~r_same => \A p \in s.joined : r_plan[p] # None /\ r_plan[p].known \subseteq s.reserved
    <3>1. CASE r_same
      <4>1. r_plan[Rejoining!P].additional = {} /\ Rejoining!Common = r_home
            /\ r_home \in Rejoining!State /\ Rejoining!Decoded(r_home)
        BY <1>3, <1>4, <3>1, PlannedLedger DEF Rejoining!Common, RejoinTyped, Rejoining!TypeOK
      <4>2. s.joined = r_home.joined \cup {Rejoining!P} /\ s.reserved = r_home.reserved
        BY <3>1, <4>1 DEF Rejoining!AnnouncedSame, Rejoining!State
      <4> QED BY <1>3, <3>1, <4>1, <4>2 DEF IdsKnown
    <3>2. CASE ~r_same
      <4>1. s = Rejoining!AnnouncedClone
        BY <3>2
      <4>2. r_plan[Rejoining!P].additional \subseteq Rejoining!TargetLedger(Rejoining!P)
        BY <1>4, PlannedLedger
      <4>3. s.reserved = Rejoining!TargetLedger(Rejoining!P) /\ s.joined = {Rejoining!P}
        BY <4>1, <4>2 DEF Rejoining!AnnouncedClone
      <4>4. Rejoining!Common = None
        BY <1>1, <1>4, <1>7, <3>2 DEF SessionFits, RejoinInv
      <4> QED BY <1>4, <3>2, <4>3, <4>4, PlannedLedger
    <3> QED BY <3>1, <3>2
  <2> HIDE DEF s
  <2>4. /\ IdsKnown' /\ (\A b \in Target : ReceiptFits(b)') /\ Rejoining!NotReissued'
        /\ Rejoining!Common' = s
        /\ r_home' \in Rejoining!State /\ Rejoining!Decoded(r_home')
        /\ r_clone' = None
           \/ (~r_same /\ r_clone' \in Rejoining!State /\ Rejoining!Decoded(r_clone'))
        /\ ~r_same => r_home'.protocol = 5
    BY <1>2, <2>1, <2>2, <2>3, CommonWritten
  <2>5. RejoinTyped'
    BY <1>2, <1>3, <1>5, <2>4 DEF RejoinTyped, Rejoining!TypeOK
  <2>6. SessionFits'
    <3>1. s # None
      BY <2>2 DEF RejoinParameters
    <3> QED BY <1>2, <1>4, <1>5, <2>2, <2>4, <3>1 DEF SessionFits
  <2> QED BY <2>4, <2>5, <2>6 DEF RejoinInv
<1> QED BY <1>6, <1>7

\* The rejoin is recorded as done, after a last look at the target.
LEMMA ClearRejoinStep ==
  ASSUME RejoinParameters, RejoinInv, Rejoining!Clear PROVE RejoinInv'
<1>1. r_session # NoSession /\ r_session' = NoSession
  BY DEF Rejoining!Clear, Rejoining!At
<1>2. UNCHANGED <<r_same, r_plan, r_gave, r_ledger, r_receipt, r_file, r_refs,
                  r_stored, r_acts, r_stops>>
  BY DEF Rejoining!Clear, Rejoining!boards
<1>3. RejoinTyped /\ IdsKnown
  BY DEF RejoinInv
<1>4. Rejoining!P \in Rejoining!Rejoin /\ Rejoining!P # None
  BY <1>1, RejoinAtWork DEF RejoinParameters
<1>5. Rejoining!Common # None /\ Rejoining!Common.pending = Rejoining!P
  BY DEF Rejoining!Clear, Rejoining!Clearable
<1>6. Rejoining!Common \in Rejoining!State /\ Rejoining!Decoded(Rejoining!Common)
  BY <1>3, <1>5, CommonIs
<1> DEFINE s == [Rejoining!Common EXCEPT !.pending = None, !.done = @ \cup {Rejoining!P}]
<1>7. Rejoining!SetCommon(s)
  BY DEF Rejoining!Clear
<1>8. /\ s \in Rejoining!State /\ s.pending = None /\ s.joined = Rejoining!Common.joined
      /\ s.protocol = Rejoining!Common.protocol /\ s.reserved = Rejoining!Common.reserved
      /\ s.done = Rejoining!Common.done \cup {Rejoining!P}
  BY <1>4, <1>6 DEF Rejoining!State
<1>9. Rejoining!Decoded(s)
  <2>1. None \notin s.done
    BY <1>8 DEF Rejoining!State, RejoinParameters
  <2> HIDE DEF s
  <2> QED BY <1>4, <1>5, <1>6, <1>8, <2>1 DEF Rejoining!Decoded
<1>10. /\ Segment(s.reserved)
       /\ ~r_same => \A p \in s.joined : r_plan[p] # None /\ r_plan[p].known \subseteq s.reserved
  BY <1>3, <1>5, <1>8 DEF IdsKnown, Rejoining!Common
<1> HIDE DEF s
<1>11. /\ IdsKnown' /\ (\A b \in Target : ReceiptFits(b)') /\ Rejoining!NotReissued'
       /\ r_home' \in Rejoining!State /\ Rejoining!Decoded(r_home')
       /\ r_clone' = None
          \/ (~r_same /\ r_clone' \in Rejoining!State /\ Rejoining!Decoded(r_clone'))
       /\ ~r_same => r_home'.protocol = 5
  BY <1>2, <1>7, <1>8, <1>9, <1>10, CommonWritten
<1>12. RejoinTyped'
  BY <1>1, <1>2, <1>3, <1>11 DEF RejoinTyped, Rejoining!TypeOK
<1> QED BY <1>1, <1>11, <1>12 DEF RejoinInv, SessionFits

\* A board gives out the next identifier, and both its ledger and its common
\* state know it.
LEMMA CreateStep ==
  ASSUME RejoinParameters, RejoinInv, NEW b \in Rejoining!Board, Rejoining!Create(b)
  PROVE  RejoinInv'
<1> DEFINE s == IF b = Source THEN r_home ELSE Rejoining!Common
           known == r_ledger[b] \cup s.reserved
           i == Rejoining!Cardinality(known) + 1
<1>1. /\ r_session = NoSession /\ Rejoining!Works(b) /\ Rejoining!Written(b, "ids")
      /\ i <= MaxId
      /\ r_ledger' = [r_ledger EXCEPT ![b] = known \cup {i}]
      /\ r_gave' = [r_gave EXCEPT ![b] = @ \cup {i}]
      /\ IF b = Source
         THEN r_home' = [r_home EXCEPT !.reserved = known \cup {i}] /\ r_clone' = r_clone
         ELSE Rejoining!SetCommon([Rejoining!Common EXCEPT !.reserved = known \cup {i}])
      /\ UNCHANGED <<r_same, r_receipt, r_stored, r_plan, r_refs, r_session, r_acts, r_stops>>
  BY DEF Rejoining!Create
<1>2. RejoinTyped /\ IdsKnown /\ Rejoining!NotReissued /\ \A c \in Target : ReceiptFits(c)
  BY DEF RejoinInv
<1>3. b # Source => b \in Target /\ Rejoining!Common # None
  BY <1>1 DEF Rejoining!Works, Rejoining!Board
<1>4. /\ s \in Rejoining!State /\ Rejoining!Decoded(s) /\ Segment(s.reserved)
      /\ s = r_home \/ (s = r_clone /\ r_clone # None /\ ~r_same /\ b # Source)
      /\ r_same => s = r_home
  BY <1>2, <1>3 DEF RejoinTyped, Rejoining!TypeOK, Rejoining!Common, IdsKnown
<1>5. Segment(known) /\ s.reserved \subseteq known
  BY <1>2, <1>4, SegmentUnion DEF IdsKnown
<1> HIDE DEF known
<1>6. i \in Rejoining!Id /\ i \notin known /\ Segment(known \cup {i})
  BY <1>1, <1>5, SegmentNext
<1>7. known \subseteq Rejoining!Id
  BY <1>5, SegmentNext
<1> HIDE DEF i
<1> DEFINE new == [s EXCEPT !.reserved = known \cup {i}]
<1>8. /\ new \in Rejoining!State /\ Rejoining!Decoded(new) /\ new.protocol = s.protocol
      /\ new.reserved = known \cup {i} /\ new.joined = s.joined /\ new.pending = s.pending
      /\ new.done = s.done
  BY <1>4, <1>6, <1>7 DEF Rejoining!State, Rejoining!Decoded
<1>9. IF s = r_home /\ (b = Source \/ r_same) THEN r_home' = new /\ r_clone' = r_clone
      ELSE r_clone' = new /\ r_home' = r_home /\ ~r_same /\ b # Source /\ s = r_clone
  BY <1>1, <1>4 DEF Rejoining!SetCommon, Rejoining!Common
<1> HIDE DEF new
<1>10. /\ r_ledger' \in [Rejoining!Board -> SUBSET Rejoining!Id]
       /\ r_gave' \in [Rejoining!Board -> SUBSET Rejoining!Id]
       /\ r_ledger'[b] = known \cup {i} /\ r_gave'[b] = r_gave[b] \cup {i}
       /\ \A c \in Rejoining!Board : c # b => r_ledger'[c] = r_ledger[c] /\ r_gave'[c] = r_gave[c]
  BY <1>1, <1>2, <1>6, <1>7 DEF RejoinTyped, Rejoining!TypeOK
<1>11. r_file' \in [Rejoining!Board -> [Rejoining!File -> Rejoining!Content]]
  BY <1>1, <1>2, WrittenTyped
<1>12. RejoinTyped'
  <2>1. r_home' \in Rejoining!State /\ Rejoining!Decoded(r_home')
        /\ (~r_same => r_home'.protocol = 5)
    BY <1>2, <1>8, <1>9 DEF RejoinTyped, Rejoining!TypeOK
  <2>2. r_clone' = None \/ (~r_same /\ r_clone' \in Rejoining!State /\ Rejoining!Decoded(r_clone'))
    BY <1>2, <1>8, <1>9 DEF RejoinTyped, Rejoining!TypeOK
  <2> QED BY <1>1, <1>2, <1>10, <1>11, <2>1, <2>2 DEF RejoinTyped, Rejoining!TypeOK
<1>13. /\ (Rejoining!Common # None) = (Rejoining!Common' # None)
       /\ Rejoining!Common # None => Rejoining!Common'.joined = Rejoining!Common.joined
  <2>1. new # None /\ r_home # None
    BY <1>2, <1>8 DEF RejoinParameters, RejoinTyped, Rejoining!TypeOK
  <2> QED BY <1>1, <1>2, <1>4, <1>8, <1>9, <2>1 DEF Rejoining!Common, RejoinTyped, Rejoining!TypeOK
<1>14. r_home.reserved \subseteq r_home'.reserved
  BY <1>5, <1>8, <1>9
<1>15. IdsKnown'
  <2>1. \A p \in Rejoining!Rejoin : r_plan[p] # None => PlanKnows(r_plan[p])'
    BY <1>1, <1>2, <1>14 DEF IdsKnown, PlanKnows
  <2>2. Segment(r_home'.reserved) /\ \A c \in Rejoining!Board : Segment(r_ledger'[c])
    BY <1>2, <1>6, <1>8, <1>9, <1>10 DEF IdsKnown
  <2>3. r_ledger'[Source] \subseteq r_home'.reserved
    <3>1. Source \in Rejoining!Board
      BY DEF Rejoining!Board
    <3>2. CASE b = Source
      BY <1>8, <1>9, <1>10, <3>2, <1>4
    <3>3. CASE b # Source
      BY <1>2, <1>10, <1>14, <3>1, <3>3 DEF IdsKnown
    <3> QED BY <3>2, <3>3
  <2>4. r_same => \A c \in Rejoining!Board : r_ledger'[c] \cup r_gave'[c] \subseteq r_home'.reserved
    <3> SUFFICES ASSUME r_same, NEW c \in Rejoining!Board
                 PROVE  r_ledger'[c] \cup r_gave'[c] \subseteq r_home'.reserved
      OBVIOUS
    <3>1. r_ledger[c] \cup r_gave[c] \subseteq r_home.reserved
      BY <1>2 DEF IdsKnown
    <3>2. r_home'.reserved = known \cup {i}
      BY <1>4, <1>8, <1>9
    <3> QED BY <1>10, <1>14, <3>1, <3>2
  <2>5. r_clone' # None =>
          /\ Segment(r_clone'.reserved)
          /\ \A p \in r_clone'.joined :
               r_plan[p] # None /\ r_plan[p].known \subseteq r_clone'.reserved
    <3>1. CASE r_clone' = r_clone
      BY <1>2, <3>1 DEF IdsKnown
    <3>2. CASE r_clone' = new /\ s = r_clone
      <4>1. r_clone # None
        BY <1>4, <3>2, <1>9, <1>2 DEF RejoinTyped, Rejoining!TypeOK, RejoinParameters
      <4> QED BY <1>2, <1>5, <1>6, <1>8, <3>2, <4>1 DEF IdsKnown
    <3> QED BY <1>9, <3>1, <3>2
  <2> QED BY <1>1, <2>1, <2>2, <2>3, <2>4, <2>5 DEF IdsKnown
<1>16. b # Source => /\ r_receipt[b] # None /\ r_receipt[b].phase = "completed"
                     /\ r_plan[r_receipt[b].of].known \subseteq known
  <2> SUFFICES ASSUME b # Source
               PROVE  /\ r_receipt[b] # None /\ r_receipt[b].phase = "completed"
                      /\ r_plan[r_receipt[b].of].known \subseteq known
    OBVIOUS
  <2>1. r_receipt[b] # None /\ r_receipt[b].phase = "completed"
    BY <1>1 DEF Rejoining!Works, Rejoining!AdmitsProtocol6
  <2>2. r_receipt[b].of \in Rejoining!Common.joined /\ r_plan[r_receipt[b].of] # None
    BY <1>2, <1>3, <2>1 DEF ReceiptFits
  <2>3. CASE r_same
    <3>1. r_receipt[b].of \in Rejoining!Rejoin
      BY <1>2, <1>3, <2>1 DEF RejoinTyped, Rejoining!TypeOK, Rejoining!Receipt
    <3>2. r_plan[r_receipt[b].of].known \subseteq r_home.reserved
      BY <2>2, <3>1, PlannedLedger
    <3> QED BY <1>4, <1>5, <2>1, <2>3, <3>2
  <2>4. CASE ~r_same
    BY <1>2, <1>3, <1>5, <2>1, <2>2, <2>4 DEF IdsKnown, Rejoining!Common
  <2> QED BY <2>3, <2>4
<1>17. \A c \in Target : ReceiptFits(c)'
  <2>1. ASSUME NEW c \in Target PROVE ReceiptFits(c)'
    <3>1. r_gave'[c] # {} => r_receipt[c] # None /\ r_receipt[c].phase = "completed"
      BY <1>2, <1>10, <1>16 DEF ReceiptFits, Rejoining!Board, RejoinParameters
    <3> QED BY <1>1, <1>2, <1>13, <3>1 DEF ReceiptFits
  <2> QED BY <2>1
<1>18. Rejoining!NotReissued'
  <2>1. ASSUME NEW c \in Target, r_receipt[c] # None
        PROVE  r_gave'[c] \cap r_plan[r_receipt[c].of].known = {}
    <3>1. r_gave[c] \cap r_plan[r_receipt[c].of].known = {} /\ c # Source /\ c \in Rejoining!Board
      BY <1>2, <2>1 DEF Rejoining!NotReissued, RejoinParameters, Rejoining!Board
    <3> QED BY <1>6, <1>10, <1>16, <3>1
  <2>2. ASSUME r_same, NEW c \in Rejoining!Board, NEW d \in Rejoining!Board, c # d
        PROVE  r_gave'[c] \cap r_gave'[d] = {}
    <3>1. r_gave[c] \cap r_gave[d] = {}
          /\ r_gave[c] \subseteq r_home.reserved /\ r_gave[d] \subseteq r_home.reserved
      BY <1>2, <2>2 DEF Rejoining!NotReissued, IdsKnown
    <3>2. i \notin r_home.reserved
      BY <1>4, <1>5, <1>6, <2>2
    <3> QED BY <1>10, <2>2, <3>1, <3>2
  <2> QED BY <1>1, <2>1, <2>2 DEF Rejoining!NotReissued
<1>19. SessionFits'
  BY <1>1 DEF SessionFits
<1> QED BY <1>12, <1>15, <1>17, <1>18, <1>19 DEF RejoinInv

\* Every step keeps the invariant.
LEMMA RejoinSteps ==
  ASSUME RejoinParameters, RejoinInv, [Rejoining!Next]_(Rejoining!vars) PROVE RejoinInv'
<1>1. CASE Rejoining!Work
  BY <1>1, StoreSteps, SaveRejoinStep, AnnounceStep, PublishSteps, RevalidateStep,
     CompleteRejoinStep, ClearRejoinStep, EndSteps DEF Rejoining!Work
<1>2. CASE Rejoining!Stop \/ Rejoining!Outsider
  BY <1>2, EndSteps, OutsiderStep
<1>3. CASE \E p \in Rejoining!Rejoin : Rejoining!ApplySame(p) \/ Rejoining!ApplyClone(p)
             \/ \E b \in Target : Rejoining!Prepare(p, b)
  BY <1>3, OpenStep, PrepareStep
<1>4. CASE \E b \in Target : Rejoining!Transition(b)
  BY <1>4, TransitionStep
<1>5. CASE \E b \in Rejoining!Board : Rejoining!Create(b)
  BY <1>5, CreateStep
<1>6. CASE UNCHANGED Rejoining!vars
  <2>1. UNCHANGED <<r_same, r_home, r_clone, r_plan, r_gave, r_ledger, r_receipt, r_file, r_refs,
                    r_stored, r_acts, r_stops, r_session>>
    BY <1>6 DEF Rejoining!vars, Rejoining!boards
  <2>2. RejoinTyped' /\ Rejoining!Common' = Rejoining!Common
    BY <2>1 DEF RejoinInv, RejoinTyped, Rejoining!TypeOK, Rejoining!Common
  <2>3. SessionFits'
    BY <2>1, <2>2 DEF RejoinInv, SessionFits
  <2> QED BY <2>1, <2>2, <2>3, StepAside
<1> QED BY <1>1, <1>2, <1>3, <1>4, <1>5, <1>6 DEF Rejoining!Next

-----------------------------------------------------------------------------
(* What follows for rejoined boards.                                       *)

\* Only the last step of a rejoin records it as done.
LEMMA OnlyClearRecords ==
  ASSUME RejoinParameters, RejoinInv, [Rejoining!Next]_(Rejoining!vars), NEW p \in Rejoining!Rejoin,
         ~Rejoining!DoneCommon(p), Rejoining!DoneCommon(p)'
  PROVE  Rejoining!Clear /\ Rejoining!P = p
<1>1. ASSUME UNCHANGED <<r_same, r_home, r_clone>> PROVE FALSE
  BY <1>1 DEF Rejoining!DoneCommon, Rejoining!Common
<1>2. ASSUME NEW s, Rejoining!SetCommon(s), r_same' = r_same,
             s.done = {} \/ (Rejoining!Common # None /\ s.done = Rejoining!Common.done)
      PROVE  FALSE
  <2>1. Rejoining!Common' = s
    BY <1>2 DEF Rejoining!SetCommon, Rejoining!Common
  <2> QED BY <1>2, <2>1 DEF Rejoining!DoneCommon
<1>3. CASE Rejoining!Clear
  <2>1. Rejoining!Common # None
        /\ Rejoining!SetCommon([Rejoining!Common EXCEPT !.pending = None,
                                                       !.done = @ \cup {Rejoining!P}])
        /\ r_same' = r_same
    BY <1>3 DEF Rejoining!Clear, Rejoining!Clearable
  <2>2. Rejoining!Common \in Rejoining!State
    BY <2>1, CommonIs DEF RejoinInv
  <2>3. Rejoining!Common'.done = Rejoining!Common.done \cup {Rejoining!P}
    <3> DEFINE s == [Rejoining!Common EXCEPT !.pending = None, !.done = @ \cup {Rejoining!P}]
    <3>1. s.done = Rejoining!Common.done \cup {Rejoining!P}
      BY <2>2 DEF Rejoining!State
    <3> HIDE DEF s
    <3>2. Rejoining!SetCommon(s)
      BY <2>1 DEF s
    <3>3. Rejoining!Common' = s
      BY <2>1, <3>2 DEF Rejoining!SetCommon, Rejoining!Common
    <3> QED BY <3>1, <3>3
  <2> QED BY <1>3, <2>1, <2>3 DEF Rejoining!DoneCommon
<1>4. CASE Rejoining!Announce
  <2>1. CASE Rejoining!Common # None /\ Rejoining!Common.pending = Rejoining!P
    BY <1>1, <1>4, <2>1 DEF Rejoining!Announce
  <2>2. CASE ~(Rejoining!Common # None /\ Rejoining!Common.pending = Rejoining!P) /\ r_same
    <3>1. Rejoining!SetCommon(Rejoining!AnnouncedSame) /\ r_same' = r_same
      BY <1>4, <2>2 DEF Rejoining!Announce
    <3>2. r_home \in Rejoining!State /\ Rejoining!Common = r_home
      BY <2>2 DEF RejoinInv, RejoinTyped, Rejoining!TypeOK, Rejoining!Common
    <3>3. r_home # None /\ Rejoining!AnnouncedSame.done = r_home.done
      BY <3>2 DEF Rejoining!AnnouncedSame, Rejoining!State, RejoinParameters
    <3> QED BY <1>2, <3>1, <3>2, <3>3
  <2>3. CASE ~(Rejoining!Common # None /\ Rejoining!Common.pending = Rejoining!P) /\ ~r_same
    <3>1. Rejoining!SetCommon(Rejoining!AnnouncedClone) /\ r_same' = r_same
      BY <1>4, <2>3 DEF Rejoining!Announce
    <3>2. Rejoining!AnnouncedClone.done = {}
      BY DEF Rejoining!AnnouncedClone
    <3> QED BY <1>2, <3>1, <3>2
  <2> QED BY <2>1, <2>2, <2>3
<1>5. ASSUME NEW b \in Rejoining!Board, Rejoining!Create(b) PROVE FALSE
  <2>1. ASSUME NEW ids, b # Source,
               Rejoining!SetCommon([Rejoining!Common EXCEPT !.reserved = ids])
        PROVE  FALSE
    <3>1. r_same' = r_same /\ Rejoining!Common # None
      BY <1>5, <2>1 DEF Rejoining!Create, Rejoining!Works
    <3>2. Rejoining!Common \in Rejoining!State
      BY <3>1, CommonIs DEF RejoinInv
    <3>3. [Rejoining!Common EXCEPT !.reserved = ids].done = Rejoining!Common.done
      BY <3>2 DEF Rejoining!State
    <3> QED BY <1>2, <2>1, <3>1, <3>3
  <2>2. ASSUME NEW ids, b = Source, r_home' = [r_home EXCEPT !.reserved = ids], r_clone' = r_clone
        PROVE  FALSE
    <3>1. r_same' = r_same /\ r_home \in Rejoining!State
      BY <1>5 DEF Rejoining!Create, RejoinInv, RejoinTyped, Rejoining!TypeOK
    <3>2. r_home'.done = r_home.done /\ r_home # None
      BY <2>2, <3>1 DEF Rejoining!State, RejoinParameters
    <3>3. CASE r_same
      BY <3>1, <3>2, <3>3 DEF Rejoining!DoneCommon, Rejoining!Common
    <3>4. CASE ~r_same
      BY <2>2, <3>1, <3>4 DEF Rejoining!DoneCommon, Rejoining!Common
    <3> QED BY <3>3, <3>4
  <2> QED BY <1>5, <2>1, <2>2 DEF Rejoining!Create
<1>6. CASE Rejoining!StorePlan \/ Rejoining!StorePayload \/ Rejoining!StoreCapacity
           \/ Rejoining!SavePending \/ Rejoining!PublishTransitions \/ Rejoining!PublishIds
           \/ Rejoining!PublishRest \/ Rejoining!Revalidate \/ Rejoining!Complete
           \/ Rejoining!Refuse \/ Rejoining!Stop \/ Rejoining!Outsider
  BY <1>1, <1>6 DEF Rejoining!StorePlan, Rejoining!StorePayload, Rejoining!StoreCapacity,
     Rejoining!Store, Rejoining!SavePending, Rejoining!PublishTransitions, Rejoining!PublishIds,
     Rejoining!PublishRest, Rejoining!Publish, Rejoining!Revalidate, Rejoining!Complete,
     Rejoining!Refuse, Rejoining!Stop, Rejoining!Outsider
<1>7. ASSUME NEW q \in Rejoining!Rejoin,
             Rejoining!ApplySame(q) \/ Rejoining!ApplyClone(q)
             \/ \E b \in Target : Rejoining!Prepare(q, b)
      PROVE  FALSE
  BY <1>1, <1>7 DEF Rejoining!ApplySame, Rejoining!ApplyClone, Rejoining!Open, Rejoining!Prepare
<1>8. ASSUME NEW b \in Target, Rejoining!Transition(b) PROVE FALSE
  BY <1>1, <1>8 DEF Rejoining!Transition
<1>9. CASE UNCHANGED Rejoining!vars
  BY <1>1, <1>9 DEF Rejoining!vars
<1> QED BY <1>3, <1>4, <1>5, <1>6, <1>7, <1>8, <1>9 DEF Rejoining!Next, Rejoining!Work

\* A rejoined board is let in only when it is whole (acquireShared,
\* ownerRejoinCompletedLocal, fullRevalidateOwnerRejoin).
LEMMA LetInStep ==
  ASSUME RejoinParameters, RejoinInv, RejoinInv', [Rejoining!Next]_(Rejoining!vars),
         NEW b \in Target, NEW p \in Rejoining!Rejoin,
         Rejoining!Works(b)', r_receipt'[b].of = p, ~Rejoining!DoneCommon(p)
  PROVE  /\ Rejoining!DoneCommon(p)'
         /\ \A c \in Rejoining!Class : r_file'[b][c] = Rejoining!Ours(p)
<1>1. Rejoining!DoneCommon(p)' /\ r_plan'[p].target = b
  <2>1. /\ r_receipt'[b] # None /\ r_receipt'[b].phase = "completed"
        /\ Rejoining!Common' # None /\ Rejoining!Common'.pending = None
    BY DEF Rejoining!Works, Rejoining!AdmitsProtocol6, RejoinParameters
  <2>2. p \in Rejoining!Common'.joined /\ r_plan'[p].target = b
    BY <2>1 DEF RejoinInv, ReceiptFits
  <2>3. Rejoining!Decoded(Rejoining!Common')
    BY <2>1 DEF RejoinInv, RejoinTyped, Rejoining!TypeOK, Rejoining!Common
  <2> QED BY <2>1, <2>2, <2>3 DEF Rejoining!Decoded, Rejoining!DoneCommon
<1>2. Rejoining!Clear /\ Rejoining!P = p
  BY <1>1, OnlyClearRecords
<1>3. r_plan' = r_plan /\ r_file' = r_file /\ Rejoining!AllPublished(p)
  BY <1>2 DEF Rejoining!Clear, Rejoining!boards, Rejoining!Clearable, Rejoining!LocalComplete
<1> QED BY <1>1, <1>3 DEF Rejoining!AllPublished

\* A rejoined board is let in only when it is whole (ownerRejoinCompletedLocal).
THEOREM RejoinedWhole == Behaviour => LetInWhole
<1> DEFINE Whole == r_acts' = r_acts => \A b \in Target, p \in Rejoining!Rejoin :
             Rejoining!Works(b)' /\ r_receipt'[b].of = p /\ ~Rejoining!DoneCommon(p) =>
               /\ Rejoining!DoneCommon(p)'
                  /\ \A c \in Rejoining!Class : r_file'[b][c] = Rejoining!Ours(p)
<1>1. Begins => RejoinInv
  BY RejoinBegins, RejoinAssumption DEF Begins
<1>2. [Continues]_all => [Rejoining!Next]_(Rejoining!vars)
  <2>1. rejoins' = rejoins => Rejoining!vars' = Rejoining!vars
    BY DEF rejoins, Rejoining!vars
  <2> QED BY <2>1 DEF Continues, all, ForPolicy, ForRejoin
<1>3. RejoinInv /\ [Continues]_all => RejoinInv'
  BY <1>2, RejoinSteps, RejoinAssumption
<1>4. RejoinInv /\ RejoinInv' /\ [Continues]_all => [Whole]_(Rejoining!vars)
  BY <1>2, LetInStep, RejoinAssumption
<1>5. LetInWhole <=> [][Whole]_(Rejoining!vars)
  BY DEF LetInWhole, Rejoining!LetInWhole
<1> QED BY <1>1, <1>3, <1>4, <1>5, PTL DEF Behaviour

\* No identifier known when a board's rejoin was prepared is given out again by
\* it, and types (OwnerRejoinCloneReservationEvidence).
THEOREM RejoinedNotReissued == Behaviour => []NotReissued
<1>1. Begins => RejoinInv
  BY RejoinBegins, RejoinAssumption DEF Begins
<1>2. [Continues]_all => [Rejoining!Next]_(Rejoining!vars)
  <2>1. rejoins' = rejoins => Rejoining!vars' = Rejoining!vars
    BY DEF rejoins, Rejoining!vars
  <2> QED BY <2>1 DEF Continues, all, ForPolicy, ForRejoin
<1>3. RejoinInv /\ [Continues]_all => RejoinInv'
  BY <1>2, RejoinSteps, RejoinAssumption
<1>4. RejoinInv => NotReissued
  BY DEF RejoinInv, RejoinTyped, NotReissued
<1> QED BY <1>1, <1>3, <1>4, PTL DEF Behaviour

-----------------------------------------------------------------------------
(* A change of policy: the invariant.                                      *)

\* Types, and what bounds the commits.
PolicyTyped ==
  /\ Policies!TypeOK
  /\ p_common = [on |-> p_common.on, barrier |-> p_common.barrier, policy |-> p_common.policy]
  /\ p_gits \in Nat /\ p_edits \in Nat /\ p_tree # {}
  /\ \A b \in Policies!Board : p_head[b] <= p_gits

\* A plan departs from what its journal names: it revises it, or keeps its
\* policy, and its authority if that is shared.
Chained(x) ==
  x.journal0 # None =>
    \/ x.previous = x.journal0.id
    \/ x.journal0.policy = x.policy /\ (x.journal0.shared => x.shared /\ x.journal0.id = x.id)

SoundPlan(x) == x \in Policies!Plan /\ Policies!LedgerPlanned(x) /\ Chained(x)

\* No two plans for one board.
Apart(plans) == \A x, y \in plans : x.root = y.root => x = y

\* The plans of receipts and of the common state; the latter are for what it
\* announces, and the history they keep has raised the barrier.
PlansSound ==
  /\ \A b \in Policies!Board : p_receipt[b] # None => SoundPlan(p_receipt[b].plan)
  /\ p_common.policy # None =>
       /\ p_common.on
       /\ \A x \in p_common.policy.pending :
            /\ SoundPlan(x) /\ x.shared
            /\ x.id = p_common.policy.id /\ x.policy = p_common.policy.policy
            /\ Policies!TargetJournal(x).revised => p_common.barrier

\* A session is that of one local plan or of what the common state announces.
SessionSound ==
  p_session # NoSession =>
    /\ p_session \in [plans : SUBSET Policies!Plan, todo : SUBSET Policies!Board,
                      at : Policies!Steps]
    /\ p_session.todo \subseteq {x.root : x \in p_session.plans}
    /\ Apart(p_session.plans) /\ \A x \in p_session.plans : SoundPlan(x)
    /\ (p_session.at = "finish") = (p_session.todo = {})
    /\ \/ /\ ~p_common.on /\ p_session.at # "finish"
          /\ \E x \in p_session.plans : p_session.plans = {x} /\ ~x.shared
       \/ /\ p_common.policy # None /\ p_common.policy.phase # "active"
          /\ p_session.plans = p_common.policy.pending

\* The board at work is the first that is left.
First(todo, b) == b \in todo /\ \A c \in todo : b <= c

\* What the plan at work has published by then.
StageFits(x, at) ==
  LET b == x.root IN
  /\ at \in {"policy", "ids", "mark", "journal", "complete"} =>
       p_receipt[b] # None /\ p_receipt[b].plan = x /\ p_receipt[b].phase # "completed"
  /\ at \in {"ids", "mark", "journal", "complete"} => p_policy[b] = x.policy
  /\ at \in {"mark", "journal", "complete"} => p_ids[b] = x.ids1
  /\ at = "complete" => p_journal[b] = Policies!TargetJournal(x)

\* What holds while neither git nor an editor meddled: no board joins later, the
\* files of a completed receipt agree, and an active policy is in force.
Undisturbed ==
  /\ p_common.policy # None => p_common.policy.phase # "joining"
  /\ p_session # NoSession =>
       \A x \in p_session.plans : First(p_session.todo, x.root) => StageFits(x, p_session.at)
  /\ \A b \in Policies!Board :
       p_receipt[b] # None /\ p_receipt[b].phase = "completed" => Policies!PolicyRead(b)
  /\ p_common.policy # None /\ p_common.policy.phase = "active" =>
       \A b \in p_tree : Policies!Works(b)

PolicyInv ==
  /\ PolicyTyped
  /\ PlansSound
  /\ SessionSound
  /\ Policies!Untouched => Undisturbed

-----------------------------------------------------------------------------
(* The plan at work, and what is planned.                                  *)

\* The CHOOSE of Current finds the first board that is left.
LEMMA FirstIsFirst ==
  ASSUME PolicyParameters, NEW todo \in SUBSET Policies!Board, todo # {}
  PROVE  First(todo, CHOOSE b \in todo : \A c \in todo : b <= c)
<1>1. todo \subseteq Nat
  BY DEF Policies!Board, PolicyParameters
<1>2. PICK b \in todo : \A c \in todo : ~(<<c, b>> \in OpToRel(<, Nat))
  BY <1>1, NatLessThanWellFounded, WFMin
<1>3. \A c \in todo : ~(c < b)
  BY <1>1, <1>2 DEF OpToRel
<1>4. \A c \in todo : b <= c
  BY <1>1, <1>3
<1> QED BY <1>4 DEF First

\* There is only one.
LEMMA FirstIsOne ==
  ASSUME PolicyParameters, NEW todo \in SUBSET Policies!Board, NEW b, NEW c,
         First(todo, b), First(todo, c)
  PROVE  b = c
<1>1. b \in Nat /\ c \in Nat
  BY DEF First, Policies!Board, PolicyParameters
<1> QED BY <1>1 DEF First

\* The plan at work, and that it is the only one for the first board.
LEMMA PlanAtWork ==
  ASSUME PolicyParameters, PolicyInv, p_session # NoSession, p_session.at # "finish"
  PROVE  /\ Policies!CurrentPlan \in p_session.plans /\ SoundPlan(Policies!CurrentPlan)
         /\ Policies!CurrentPlan.root = Policies!Current
         /\ Policies!Current \in Policies!Board
         /\ First(p_session.todo, Policies!Current)
         /\ \A x \in p_session.plans :
              First(p_session.todo, x.root) => x = Policies!CurrentPlan
<1>1. SessionSound
  BY DEF PolicyInv
<1>2. p_session.todo \in SUBSET Policies!Board /\ p_session.todo # {}
  BY <1>1 DEF SessionSound
<1>3. First(p_session.todo, Policies!Current)
  BY <1>2, FirstIsFirst DEF Policies!Current
<1>4. \E x \in p_session.plans : x.root = Policies!Current
  BY <1>1, <1>3 DEF SessionSound, First
<1>5. Policies!CurrentPlan \in p_session.plans /\ Policies!CurrentPlan.root = Policies!Current
  BY <1>4 DEF Policies!CurrentPlan
<1>6. ASSUME NEW x \in p_session.plans, First(p_session.todo, x.root)
      PROVE  x = Policies!CurrentPlan
  <2>1. x.root = Policies!Current
    BY <1>2, <1>3, <1>6, FirstIsOne
  <2> QED BY <1>1, <1>5, <2>1 DEF SessionSound, Apart
<1> QED BY <1>1, <1>2, <1>3, <1>5, <1>6 DEF SessionSound, First

\* A receipt's imprint.
LEMMA HashTyped ==
  ASSUME PolicyParameters, NEW r \in Policies!Receipt \cup {None}
  PROVE  Policies!Hash(r) \in Policies!Imprint \cup {None}
<1>1. CASE r = None
  BY <1>1 DEF Policies!Hash
<1>2. CASE r # None
  <2>1. r \in Policies!Receipt /\ r.plan \in Policies!Plan
    BY <1>2 DEF Policies!Receipt
  <2>2. r.phase \in {"pending", "ids-published", "completed"}
        /\ r.plan.id \in Policies!Authority /\ r.plan.root \in Policies!Board
    BY <2>1 DEF Policies!Receipt, Policies!Plan
  <2> QED BY <1>2, <2>2 DEF Policies!Hash, Policies!Imprint
<1> QED BY <1>1, <1>2

\* What is planned for a board is a plan, and the ledger's part of it sound.
LEMMA PlannedTyped ==
  ASSUME PolicyParameters, PolicyTyped, NEW b \in Policies!Board, NEW id \in Policies!Authority,
         NEW shared \in BOOLEAN, NEW p \in Policy,
         NEW previous \in Policies!Authority \cup {Policies!Initial}, NEW adopt \in BOOLEAN,
         Policies!Plannable(b, shared, adopt),
         NEW x, x = Policies!Planned(b, id, shared, p, previous, adopt)
  PROVE  /\ x \in Policies!Plan /\ Policies!LedgerPlanned(x)
         /\ x.root = b /\ x.id = id /\ x.shared = shared /\ x.policy = p /\ x.previous = previous
         /\ x.journal0 = p_journal[b]
<1>1. p_head[b] \in 0..PolicyActs /\ p_work[b] \in {Calm, Other}
      /\ p_journal[b] \in Policies!Binding \cup {None} /\ p_policy[b] \in Policy \cup {None}
      /\ p_ids[b] \in {None, "plain", "bound"} /\ p_receipt[b] \in Policies!Receipt \cup {None}
  BY DEF PolicyTyped, Policies!TypeOK, Policies!Plannable
<1>2. Policies!Hash(p_receipt[b]) \in Policies!Imprint \cup {None}
  BY <1>1, HashTyped
<1>3. x = [id |-> id, shared |-> shared, policy |-> p, previous |-> previous, adopt |-> adopt,
           root |-> b, head |-> p_head[b], snapshot |-> p_work[b],
           journal0 |-> p_journal[b], policy0 |-> p_policy[b],
           receipt0 |-> Policies!Hash(p_receipt[b]), ids0 |-> p_ids[b],
           ids1 |-> IF shared THEN "bound" ELSE "plain"]
  BY DEF Policies!Planned
<1>4. x \in Policies!Plan
  BY <1>1, <1>2, <1>3 DEF Policies!Plan
<1>5. Policies!LedgerPlanned(x)
  BY <1>3 DEF Policies!LedgerPlanned, Policies!Plannable, Policies!IdsPlannable
<1> QED BY <1>3, <1>4, <1>5

\* A plan for a board alone, and when there may be one.
LocalPlan(b, id, p, previous, adopt) == Policies!Planned(b, id, FALSE, p, previous, adopt)
MayPlanAlone(b, adopt) == Policies!Plannable(b, FALSE, adopt)

\* What is planned for a board alone.
LEMMA LocalPlanned ==
  ASSUME PolicyParameters, PolicyTyped, NEW b \in Policies!Board, NEW id \in Policies!Authority,
         NEW p \in Policy,
         NEW previous \in Policies!Authority \cup {Policies!Initial}, NEW adopt \in BOOLEAN,
         MayPlanAlone(b, adopt), NEW x, x = LocalPlan(b, id, p, previous, adopt)
  PROVE  /\ x \in Policies!Plan /\ Policies!LedgerPlanned(x)
         /\ x.root = b /\ x.id = id /\ ~x.shared /\ x.policy = p /\ x.previous = previous
         /\ x.journal0 = p_journal[b]
<1>1. PICK shared \in BOOLEAN : ~shared
  OBVIOUS
<1>2. shared = FALSE
  BY <1>1
<1>3. Policies!Plannable(b, shared, adopt)
  BY <1>2, Zenon DEF MayPlanAlone
<1>4. x = Policies!Planned(b, id, shared, p, previous, adopt)
  BY <1>2, Zenon DEF LocalPlan
<1>5. /\ x \in Policies!Plan /\ Policies!LedgerPlanned(x)
      /\ x.root = b /\ x.id = id /\ x.shared = shared /\ x.policy = p /\ x.previous = previous
      /\ x.journal0 = p_journal[b]
  BY <1>3, <1>4, PlannedTyped
<1> QED BY <1>1, <1>5

\* A plan under shared identifiers, and when there may be one.
SharedPlan(b, id, p, previous, adopt) == Policies!Planned(b, id, TRUE, p, previous, adopt)
MayPlanShared(b, adopt) == Policies!Plannable(b, TRUE, adopt)

\* The same where identifiers are shared.
LEMMA SharedPlanned ==
  ASSUME PolicyParameters, PolicyTyped, NEW b \in Policies!Board, NEW id \in Policies!Authority,
         NEW p \in Policy,
         NEW previous \in Policies!Authority \cup {Policies!Initial}, NEW adopt \in BOOLEAN,
         MayPlanShared(b, adopt), NEW x, x = SharedPlan(b, id, p, previous, adopt)
  PROVE  /\ x \in Policies!Plan /\ Policies!LedgerPlanned(x)
         /\ x.root = b /\ x.id = id /\ x.shared /\ x.policy = p /\ x.previous = previous
         /\ x.journal0 = p_journal[b]
<1>1. PICK shared \in BOOLEAN : shared
  OBVIOUS
<1>2. shared = TRUE
  BY <1>1
<1>3. Policies!Plannable(b, shared, adopt)
  BY <1>2, Zenon DEF MayPlanShared
<1>4. x = Policies!Planned(b, id, shared, p, previous, adopt)
  BY <1>2, Zenon DEF SharedPlan
<1>5. /\ x \in Policies!Plan /\ Policies!LedgerPlanned(x)
      /\ x.root = b /\ x.id = id /\ x.shared = shared /\ x.policy = p /\ x.previous = previous
      /\ x.journal0 = p_journal[b]
  BY <1>3, <1>4, PlannedTyped
<1> QED BY <1>1, <1>5

\* The first state.
LEMMA PolicyBegins ==
  ASSUME PolicyParameters, Policies!Init PROVE PolicyInv
<1>1. /\ p_common \in [on : BOOLEAN, barrier : {FALSE}, policy : {None}]
      /\ p_receipt = [b \in Policies!Board |-> None] /\ p_policy = [b \in Policies!Board |-> None]
      /\ p_journal = [b \in Policies!Board |-> None]
      /\ p_work = [b \in Policies!Board |-> Calm]
      /\ p_tree \in {Policies!Board, {1}} /\ p_head = [b \in Policies!Board |-> 0]
      /\ p_minted = 0 /\ p_session = NoSession /\ p_stops = 0 /\ p_gits = 0 /\ p_edits = 0
  BY DEF Policies!Init
<1>2. p_ids \in [Policies!Board -> {None, "plain", "bound"}]
  BY DEF Policies!Init
<1>3. 1 \in Policies!Board
  BY DEF Policies!Board, PolicyParameters
<1>4. PolicyTyped
  <2>1. Policies!TypeOK
    <3>1. p_common.on \in BOOLEAN /\ p_common.barrier \in BOOLEAN /\ p_common.policy = None
      BY <1>1
    <3>2. p_stops \in 0..PolicyStops /\ p_gits + p_edits \in 0..PolicyActs
          /\ p_minted \in 0..MaxAuthority /\ p_head \in [Policies!Board -> 0..PolicyActs]
      BY <1>1 DEF PolicyParameters
    <3>3. p_tree \subseteq Policies!Board
      BY <1>1, <1>3
    <3>4. /\ p_receipt \in [Policies!Board -> Policies!Receipt \cup {None}]
          /\ \A b \in Policies!Board : p_receipt[b] = None
          /\ p_policy \in [Policies!Board -> Policy \cup {None}]
          /\ p_journal \in [Policies!Board -> Policies!Binding \cup {None}]
          /\ p_work \in [Policies!Board -> {Calm, Held, Other}]
      BY <1>1
    <3> QED BY <1>1, <1>2, <3>1, <3>2, <3>3, <3>4 DEF Policies!TypeOK
  <2> QED BY <1>1, <1>3, <2>1 DEF PolicyTyped
<1>5. PlansSound /\ SessionSound
  BY <1>1 DEF PlansSound, SessionSound
<1>6. Undisturbed
  BY <1>1 DEF Undisturbed
<1> QED BY <1>4, <1>5, <1>6 DEF PolicyInv

-----------------------------------------------------------------------------
(* A change begins, or is resumed.                                         *)

\* A session's record, and what it says of the plans.
LEMMA SessionBegins ==
  ASSUME PolicyParameters, NEW plans, plans # {}, Apart(plans),
         \A x \in plans : SoundPlan(x), Policies!Begin(plans),
         \/ /\ ~p_common'.on /\ \E x \in plans : plans = {x} /\ ~x.shared
         \/ /\ p_common'.policy # None /\ p_common'.policy.phase # "active"
            /\ plans = p_common'.policy.pending
  PROVE  /\ SessionSound' /\ p_session' # NoSession /\ p_session'.at \in Policies!Steps
         /\ p_session'.plans \subseteq Policies!Plan
         /\ p_session'.todo \subseteq {x.root : x \in p_session'.plans}
         /\ \A x : StageFits(x, p_session.at)'
<1>1. p_session' = [plans |-> plans, todo |-> {x.root : x \in plans}, at |-> "receipt"]
  BY DEF Policies!Begin
<1>2. plans \in SUBSET Policies!Plan /\ {x.root : x \in plans} \in SUBSET Policies!Board
      /\ {x.root : x \in plans} # {} /\ "receipt" \in Policies!Steps
  BY DEF SoundPlan, Policies!Plan, Policies!Steps
<1>3. p_session' \in [plans : SUBSET Policies!Plan, todo : SUBSET Policies!Board,
                      at : Policies!Steps]
      /\ p_session'.plans = plans /\ p_session'.todo = {x.root : x \in plans}
      /\ p_session'.at = "receipt"
  BY <1>1, <1>2
<1>4. p_session' # NoSession
  BY <1>3 DEF PolicyParameters
<1>5. SessionSound'
  BY <1>2, <1>3 DEF SessionSound
<1>6. \A x : StageFits(x, p_session.at)'
  BY <1>3 DEF StageFits
<1> QED BY <1>2, <1>3, <1>4, <1>5, <1>6

\* Where files and common state stay, boards are read as before.
LEMMA ReadAsBefore ==
  ASSUME NEW b,
         p_receipt'[b] = p_receipt[b], p_policy'[b] = p_policy[b],
         (p_ids[b] = None) = (p_ids'[b] = None), p_journal'[b] = p_journal[b]
  PROVE  Policies!PolicyRead(b)' <=> Policies!PolicyRead(b)
<1>1. Policies!ActivationVerified(b)' <=> Policies!ActivationVerified(b)
  BY DEF Policies!ActivationVerified
<1> QED BY <1>1 DEF Policies!PolicyRead

\* The same of the verdict on a board.
LEMMA WorksAsBefore ==
  ASSUME NEW b, p_common' = p_common,
         p_receipt'[b] = p_receipt[b], p_policy'[b] = p_policy[b],
         p_ids'[b] = p_ids[b], p_journal'[b] = p_journal[b]
  PROVE  Policies!Works(b)' <=> Policies!Works(b)
  BY ReadAsBefore DEF Policies!Works

\* A local change begins, or is resumed.
LEMMA LocalBegins ==
  ASSUME PolicyParameters, PolicyInv, NEW x, SoundPlan(x), ~x.shared, ~p_common.on,
         Policies!Begin({x}), p_minted' \in 0..MaxAuthority,
         UNCHANGED <<p_common, Policies!files, p_work, Policies!git, Policies!bounds>>
  PROVE  PolicyInv'
<1>1. UNCHANGED <<p_common, p_receipt, p_policy, p_ids, p_journal, p_work, p_tree, p_head,
                  p_stops, p_gits, p_edits>>
  BY DEF Policies!files, Policies!git, Policies!bounds
<1>2. /\ SessionSound' /\ p_session' # NoSession /\ p_session'.at \in Policies!Steps
      /\ p_session'.plans \subseteq Policies!Plan
      /\ p_session'.todo \subseteq {y.root : y \in p_session'.plans}
      /\ \A y : StageFits(y, p_session.at)'
  BY <1>1, SessionBegins DEF Apart
<1>3. PolicyTyped'
  BY <1>1, <1>2 DEF PolicyInv, PolicyTyped, Policies!TypeOK
<1>4. PlansSound'
  BY <1>1 DEF PolicyInv, PlansSound
<1>5. (Policies!Untouched => Undisturbed)'
  <2> SUFFICES ASSUME Policies!Untouched' PROVE Undisturbed'
    OBVIOUS
  <2>1. Policies!Untouched /\ Undisturbed
    BY <1>1 DEF Policies!Untouched, PolicyInv
  <2>2. \A b : Policies!PolicyRead(b)' <=> Policies!PolicyRead(b)
    BY <1>1, ReadAsBefore
  <2>3. \A b : Policies!Works(b)' <=> Policies!Works(b)
    BY <1>1, WorksAsBefore
  <2> QED BY <1>1, <1>2, <2>1, <2>2, <2>3 DEF Undisturbed
<1> QED BY <1>2, <1>3, <1>4, <1>5 DEF PolicyInv

\* The next authority is one.
LEMMA NextAuthority ==
  ASSUME PolicyParameters, PolicyInv, Policies!Unclaimed
  PROVE  p_minted + 1 \in Policies!Authority /\ p_minted + 1 \in 0..MaxAuthority
         /\ p_session = NoSession
<1>1. p_minted \in 0..MaxAuthority /\ p_minted < MaxAuthority /\ MaxAuthority \in Nat
  BY DEF PolicyInv, PolicyTyped, Policies!TypeOK, Policies!Unclaimed, PolicyParameters
<1> QED BY <1>1 DEF Policies!Authority, Policies!Unclaimed

\* A first local activation (activateLocalPolicyWithOptions).
LEMMA ActivateLocalStep ==
  ASSUME PolicyParameters, PolicyInv, NEW b \in Policies!Board, NEW p \in Policy,
         NEW adopt \in BOOLEAN, Policies!ActivateLocal(b, p, adopt)
  PROVE  PolicyInv'
<1> DEFINE x == LocalPlan(b, p_minted + 1, p, Policies!Initial, adopt)
<1>1. /\ Policies!Unclaimed /\ ~p_common.on
      /\ p_receipt[b] = None /\ Policies!PolicyRead(b) /\ MayPlanAlone(b, adopt)
      /\ Policies!Begin({x}) /\ p_minted' = p_minted + 1
      /\ UNCHANGED <<p_common, Policies!files, p_work, Policies!git, Policies!bounds>>
  BY DEF Policies!ActivateLocal, LocalPlan, MayPlanAlone
<1>2. /\ x \in Policies!Plan /\ Policies!LedgerPlanned(x)
      /\ ~x.shared /\ x.journal0 = p_journal[b]
  <2>1. p_minted + 1 \in Policies!Authority /\ PolicyTyped
    BY <1>1, NextAuthority DEF PolicyInv
  <2>2. Policies!Initial \in Policies!Authority \cup {Policies!Initial}
    OBVIOUS
  <2> QED BY <1>1, <2>1, <2>2, LocalPlanned
<1>3. p_journal[b] = None
  BY <1>1 DEF Policies!PolicyRead, Policies!ActivationVerified
<1> HIDE DEF x
<1>4. SoundPlan(x)
  BY <1>2, <1>3 DEF SoundPlan, Chained
<1> QED BY <1>1, <1>2, <1>4, LocalBegins, NextAuthority

\* A local revision (reviseLocalPolicy).
LEMMA ReviseLocalStep ==
  ASSUME PolicyParameters, PolicyInv, NEW b \in Policies!Board, NEW p \in Policy,
         NEW adopt \in BOOLEAN, Policies!ReviseLocal(b, p, adopt)
  PROVE  PolicyInv'
<1> DEFINE x == LocalPlan(b, p_minted + 1, p, p_receipt[b].plan.id, adopt)
<1>1. /\ Policies!Unclaimed /\ ~p_common.on
      /\ p_receipt[b] # None /\ Policies!PolicyRead(b) /\ MayPlanAlone(b, adopt)
      /\ Policies!Begin({x}) /\ p_minted' = p_minted + 1
      /\ UNCHANGED <<p_common, Policies!files, p_work, Policies!git, Policies!bounds>>
  BY DEF Policies!ReviseLocal, LocalPlan, MayPlanAlone
<1>2. p_receipt[b].plan.id \in Policies!Authority
  BY <1>1 DEF PolicyInv, PlansSound, SoundPlan, Policies!Plan
<1>3. /\ x \in Policies!Plan /\ Policies!LedgerPlanned(x) /\ x.previous = p_receipt[b].plan.id
      /\ ~x.shared /\ x.journal0 = p_journal[b]
  <2>1. p_minted + 1 \in Policies!Authority /\ PolicyTyped
    BY <1>1, NextAuthority DEF PolicyInv
  <2>2. p_receipt[b].plan.id \in Policies!Authority \cup {Policies!Initial}
    BY <1>2
  <2> QED BY <1>1, <2>1, <2>2, LocalPlanned
<1>4. p_journal[b] # None => p_journal[b].id = p_receipt[b].plan.id
  BY <1>1 DEF Policies!PolicyRead, Policies!ActivationVerified
<1> HIDE DEF x
<1>5. SoundPlan(x)
  BY <1>3, <1>4 DEF SoundPlan, Chained
<1> QED BY <1>1, <1>3, <1>5, LocalBegins, NextAuthority

\* What a receipt says is resumed (activateLocalPolicyWithOptions).
LEMMA ResumeLocalStep ==
  ASSUME PolicyParameters, PolicyInv, NEW b \in Policies!Board, Policies!ResumeLocal(b)
  PROVE  PolicyInv'
<1>1. /\ ~p_common.on /\ p_receipt[b] # None /\ ~p_receipt[b].plan.shared
      /\ Policies!Begin({p_receipt[b].plan})
      /\ UNCHANGED <<p_common, Policies!files, p_work, Policies!git, p_minted, Policies!bounds>>
  BY DEF Policies!ResumeLocal
<1>2. SoundPlan(p_receipt[b].plan)
  BY <1>1 DEF PolicyInv, PlansSound
<1>3. p_minted' \in 0..MaxAuthority
  BY <1>1 DEF PolicyInv, PolicyTyped, Policies!TypeOK
<1> QED BY <1>1, <1>2, <1>3, LocalBegins

\* An announced change is resumed (resumeSharedPolicy).
LEMMA ResumeSharedStep ==
  ASSUME PolicyParameters, PolicyInv, NEW b \in Policies!Board, Policies!ResumeShared(b)
  PROVE  PolicyInv'
<1>1. /\ p_common.policy # None /\ p_common.policy.phase # "active"
      /\ Policies!Begin(p_common.policy.pending)
      /\ UNCHANGED <<p_common, p_receipt, p_policy, p_ids, p_journal, p_work, p_tree, p_head,
                     p_minted, p_stops, p_gits, p_edits>>
  BY DEF Policies!ResumeShared, Policies!files, Policies!git, Policies!bounds
<1>2. /\ Apart(p_common.policy.pending) /\ p_common.policy.pending # {}
      /\ \A x \in p_common.policy.pending : SoundPlan(x)
  BY <1>1 DEF PolicyInv, PlansSound, PolicyTyped, Policies!TypeOK, Apart
<1>3. /\ SessionSound' /\ p_session' # NoSession /\ p_session'.at \in Policies!Steps
      /\ p_session'.plans \subseteq Policies!Plan
      /\ p_session'.todo \subseteq {x.root : x \in p_session'.plans}
      /\ \A x : StageFits(x, p_session.at)'
  BY <1>1, <1>2, SessionBegins
<1>4. PolicyTyped'
  BY <1>1, <1>3 DEF PolicyInv, PolicyTyped, Policies!TypeOK
<1>5. PlansSound'
  BY <1>1 DEF PolicyInv, PlansSound
<1>6. (Policies!Untouched => Undisturbed)'
  <2> SUFFICES ASSUME Policies!Untouched' PROVE Undisturbed'
    OBVIOUS
  <2>1. Policies!Untouched /\ Undisturbed
    BY <1>1 DEF Policies!Untouched, PolicyInv
  <2>2. \A c : Policies!PolicyRead(c)' <=> Policies!PolicyRead(c)
    BY <1>1, ReadAsBefore
  <2> QED BY <1>1, <1>3, <2>1, <2>2 DEF Undisturbed
<1> QED BY <1>3, <1>4, <1>5, <1>6 DEF PolicyInv

\* A change is announced: its plans are sound and for what it announces.
LEMMA Announces ==
  ASSUME PolicyParameters, PolicyInv, NEW phase \in {"initializing", "joining", "revising"},
         NEW p \in Policy, NEW id \in Policies!Authority,
         NEW previous \in Policies!Authority \cup {Policies!Initial}, NEW plans,
         p_common'.on = p_common.on, p_common.on, p_common'.barrier \in BOOLEAN,
         p_common'.policy = [id |-> id, policy |-> p, previous |-> previous, phase |-> phase,
                             pending |-> plans],
         p_common' = [on |-> p_common'.on, barrier |-> p_common'.barrier,
                      policy |-> p_common'.policy],
         Policies!Begin(plans),
         UNCHANGED <<Policies!files, p_work, Policies!git, Policies!bounds>>,
         p_minted' \in 0..MaxAuthority,
         plans # {}, Apart(plans), phase = "joining" => \E x : plans = {x},
         \A x \in plans : /\ SoundPlan(x) /\ x.shared /\ x.id = id /\ x.policy = p
                          /\ Policies!TargetJournal(x).revised => p_common'.barrier,
         Policies!Untouched => phase # "joining"
  PROVE  PolicyInv'
<1> DEFINE s == [id |-> id, policy |-> p, previous |-> previous, phase |-> phase, pending |-> plans]
<1>1. UNCHANGED <<p_receipt, p_policy, p_ids, p_journal, p_work, p_tree, p_head,
                  p_stops, p_gits, p_edits>>
  BY DEF Policies!files, Policies!git, Policies!bounds
<1>2. PolicyTyped
  BY DEF PolicyInv
<1>3. plans \in SUBSET Policies!Plan
  BY DEF SoundPlan
<1>4. /\ s \in Policies!Common /\ s.id = id /\ s.policy = p /\ s.phase = phase /\ s.pending = plans
      /\ phase # "active"
  BY <1>3 DEF Policies!Common
<1>5. s # None
  BY <1>4 DEF PolicyParameters
<1>6. p_common'.policy = s
  OBVIOUS
<1> HIDE DEF s
<1>7. /\ SessionSound' /\ p_session' # NoSession /\ p_session'.at \in Policies!Steps
      /\ p_session'.plans \subseteq Policies!Plan
      /\ p_session'.todo \subseteq {x.root : x \in p_session'.plans}
      /\ \A x : StageFits(x, p_session.at)'
  BY <1>1, <1>4, <1>5, <1>6, SessionBegins
<1>8. phase = "joining" => Policies!Cardinality(plans) = 1
  <2> SUFFICES ASSUME NEW x, plans = {x} PROVE Policies!Cardinality(plans) = 1
    OBVIOUS
  <2>1. Cardinality({x}) = 1
    BY FS_Singleton
  <2> QED BY <2>1 DEF Policies!Cardinality, Cardinality
<1>9. PolicyTyped'
  <2>1. p_common'.on \in BOOLEAN
    BY <1>2 DEF PolicyTyped, Policies!TypeOK
  <2>2. /\ \A x, y \in p_common'.policy.pending : x.root = y.root => x = y
        /\ (p_common'.policy.phase = "active") = (p_common'.policy.pending = {})
        /\ p_common'.policy.phase = "joining" => Policies!Cardinality(p_common'.policy.pending) = 1
    BY <1>4, <1>6, <1>8 DEF Apart
  <2>3. p_common'.policy \in Policies!Common
    BY <1>4, <1>6
  <2>4. Policies!TypeOK'
    BY <1>1, <1>2, <1>7, <2>1, <2>2, <2>3 DEF PolicyTyped, Policies!TypeOK
  <2> QED BY <1>1, <1>2, <1>6, <2>4 DEF PolicyTyped
<1>10. PlansSound'
  BY <1>1, <1>4, <1>6 DEF PolicyInv, PlansSound, Policies!TargetJournal
<1>11. (Policies!Untouched => Undisturbed)'
  <2> SUFFICES ASSUME Policies!Untouched' PROVE Undisturbed'
    OBVIOUS
  <2>1. Policies!Untouched /\ Undisturbed
    BY <1>1 DEF Policies!Untouched, PolicyInv
  <2>2. \A c : Policies!PolicyRead(c)' <=> Policies!PolicyRead(c)
    BY <1>1, ReadAsBefore
  <2> QED BY <1>1, <1>4, <1>5, <1>6, <1>7, <2>1, <2>2 DEF Undisturbed
<1> QED BY <1>7, <1>9, <1>10, <1>11 DEF PolicyInv

-----------------------------------------------------------------------------
(* A shared change is announced.                                           *)

\* What an announcement writes into the common state (publishSharedState).
LEMMA AnnouncementIs ==
  ASSUME PolicyTyped, NEW s, NEW barrier, barrier \in BOOLEAN,
         p_common' = [p_common EXCEPT !.barrier = @ \/ barrier, !.policy = s]
  PROVE  /\ p_common'.on = p_common.on /\ p_common'.policy = s
         /\ p_common'.barrier \in BOOLEAN /\ (barrier => p_common'.barrier)
         /\ p_common' = [on |-> p_common'.on, barrier |-> p_common'.barrier,
                         policy |-> p_common'.policy]
<1>1. p_common = [on |-> p_common.on, barrier |-> p_common.barrier, policy |-> p_common.policy]
      /\ p_common.barrier \in BOOLEAN
  BY DEF PolicyTyped, Policies!TypeOK
<1> QED BY <1>1

\* A board that may be adopted has no other shared authority (Adoptable).
LEMMA AdoptableChains ==
  ASSUME PolicyParameters, NEW b, NEW p, Policies!Adoptable(b, p), p_journal[b] # None
  PROVE  /\ p_journal[b].policy = p
         /\ p_journal[b].shared => p_common.policy # None /\ p_common.policy.id = p_journal[b].id
  BY DEF Policies!Adoptable

\* The first activation, in every worktree (activateSharedPolicy).
LEMMA ActivateSharedStep ==
  ASSUME PolicyParameters, PolicyInv, NEW p \in Policy, NEW adopt \in BOOLEAN,
         Policies!ActivateShared(p, adopt)
  PROVE  PolicyInv'
<1> DEFINE plans == {SharedPlan(b, p_minted + 1, p, Policies!Initial, adopt) : b \in p_tree}
           kept == \E b \in p_tree : p_journal[b] # None /\ p_journal[b].revised
           s == [id |-> p_minted + 1, policy |-> p, previous |-> Policies!Initial,
                 phase |-> "initializing", pending |-> plans]
<1>1. /\ Policies!Unclaimed /\ p_common.on /\ p_common.policy = None
      /\ \A b \in p_tree : Policies!Adoptable(b, p) /\ MayPlanShared(b, adopt)
      /\ p_minted' = p_minted + 1 /\ Policies!Begin(plans)
      /\ UNCHANGED <<Policies!files, p_work, Policies!git, Policies!bounds>>
  BY DEF Policies!ActivateShared, Policies!Announce, SharedPlan, MayPlanShared
<1>2. p_common' = [p_common EXCEPT !.barrier = @ \/ kept, !.policy = s]
  BY DEF Policies!ActivateShared, Policies!Announce, SharedPlan
<1>3. PolicyTyped /\ p_tree # {} /\ p_tree \subseteq Policies!Board
  BY DEF PolicyInv, PolicyTyped, Policies!TypeOK
<1>4. p_minted + 1 \in Policies!Authority /\ p_minted' \in 0..MaxAuthority
  BY <1>1, NextAuthority
<1>5. ASSUME NEW b \in p_tree, NEW x, x = SharedPlan(b, p_minted + 1, p, Policies!Initial, adopt)
      PROVE  /\ SoundPlan(x) /\ x.root = b /\ x.shared /\ x.id = p_minted + 1 /\ x.policy = p
             /\ Policies!TargetJournal(x).revised => p_journal[b] # None /\ p_journal[b].revised
  <2>1. /\ x \in Policies!Plan /\ Policies!LedgerPlanned(x)
        /\ x.root = b /\ x.id = p_minted + 1 /\ x.shared /\ x.policy = p
        /\ x.previous = Policies!Initial /\ x.journal0 = p_journal[b]
    BY <1>1, <1>3, <1>4, <1>5, SharedPlanned
  <2>2. p_journal[b] # None => p_journal[b].policy = p /\ ~p_journal[b].shared
    BY <1>1, AdoptableChains
  <2>3. SoundPlan(x)
    BY <2>1, <2>2 DEF SoundPlan, Chained
  <2>4. Policies!TargetJournal(x).revised => p_journal[b] # None /\ p_journal[b].revised
    BY <2>1 DEF Policies!TargetJournal
  <2> QED BY <2>1, <2>3, <2>4
<1>6. /\ p_common'.on = p_common.on /\ p_common'.policy = s
      /\ p_common'.barrier \in BOOLEAN /\ (kept => p_common'.barrier)
      /\ p_common' = [on |-> p_common'.on, barrier |-> p_common'.barrier,
                      policy |-> p_common'.policy]
  <2>1. PICK barrier \in BOOLEAN : barrier = kept
    OBVIOUS
  <2>2. p_common' = [p_common EXCEPT !.barrier = @ \/ barrier, !.policy = s]
    BY <1>2, <2>1
  <2> HIDE DEF s, kept
  <2> QED BY <1>3, <2>1, <2>2, AnnouncementIs
<1>7. plans # {} /\ Apart(plans)
      /\ \A x \in plans : /\ SoundPlan(x) /\ x.shared /\ x.id = p_minted + 1 /\ x.policy = p
                          /\ Policies!TargetJournal(x).revised => p_common'.barrier
  BY <1>3, <1>5, <1>6 DEF Apart
<1>8. Policies!Initial \in Policies!Authority \cup {Policies!Initial}
  OBVIOUS
<1> HIDE DEF plans, kept
<1> QED BY <1>1, <1>4, <1>6, <1>7, <1>8, Announces

\* A revision in every worktree (reviseSharedPolicy).
LEMMA ReviseSharedStep ==
  ASSUME PolicyParameters, PolicyInv, NEW expected \in Policies!Authority, NEW p \in Policy,
         NEW adopt \in BOOLEAN, Policies!ReviseShared(expected, p, adopt)
  PROVE  PolicyInv'
<1> DEFINE plans == {SharedPlan(b, p_minted + 1, p, expected, adopt) : b \in p_tree}
           s == [id |-> p_minted + 1, policy |-> p, previous |-> expected,
                 phase |-> "revising", pending |-> plans]
<1>1. /\ Policies!Unclaimed /\ p_common.policy # None /\ expected = p_common.policy.id
      /\ \A b \in p_tree : Policies!Works(b) /\ MayPlanShared(b, adopt)
      /\ p_minted' = p_minted + 1 /\ Policies!Begin(plans)
      /\ UNCHANGED <<Policies!files, p_work, Policies!git, Policies!bounds>>
  BY DEF Policies!ReviseShared, Policies!Announce, SharedPlan, MayPlanShared
<1>2. p_common' = [p_common EXCEPT !.barrier = @ \/ TRUE, !.policy = s]
  BY DEF Policies!ReviseShared, Policies!Announce, SharedPlan
<1>3. PolicyTyped /\ p_tree # {} /\ p_tree \subseteq Policies!Board
  BY DEF PolicyInv, PolicyTyped, Policies!TypeOK
<1>4. p_minted + 1 \in Policies!Authority /\ p_minted' \in 0..MaxAuthority /\ p_common.on
  BY <1>1, NextAuthority DEF PolicyInv, PlansSound
<1>5. ASSUME NEW b \in p_tree, NEW x, x = SharedPlan(b, p_minted + 1, p, expected, adopt)
      PROVE  SoundPlan(x) /\ x.root = b /\ x.shared /\ x.id = p_minted + 1 /\ x.policy = p
  <2>1. /\ x \in Policies!Plan /\ Policies!LedgerPlanned(x)
        /\ x.root = b /\ x.id = p_minted + 1 /\ x.shared /\ x.policy = p
        /\ x.previous = expected /\ x.journal0 = p_journal[b]
    BY <1>1, <1>3, <1>4, <1>5, SharedPlanned
  <2>2. p_journal[b].id = expected
    BY <1>1 DEF Policies!Works
  <2> QED BY <2>1, <2>2 DEF SoundPlan, Chained
<1>6. /\ p_common'.on = p_common.on /\ p_common'.policy = s
      /\ p_common'.barrier \in BOOLEAN /\ p_common'.barrier
      /\ p_common' = [on |-> p_common'.on, barrier |-> p_common'.barrier,
                      policy |-> p_common'.policy]
  <2>1. PICK barrier \in BOOLEAN : barrier = TRUE
    OBVIOUS
  <2>2. p_common' = [p_common EXCEPT !.barrier = @ \/ barrier, !.policy = s]
    BY <1>2, <2>1
  <2> HIDE DEF s
  <2> QED BY <1>3, <2>1, <2>2, AnnouncementIs
<1>7. plans # {} /\ Apart(plans)
      /\ \A x \in plans : /\ SoundPlan(x) /\ x.shared /\ x.id = p_minted + 1 /\ x.policy = p
                          /\ Policies!TargetJournal(x).revised => p_common'.barrier
  BY <1>3, <1>5, <1>6 DEF Apart
<1> HIDE DEF plans
<1> QED BY <1>1, <1>4, <1>6, <1>7, Announces

\* A worktree joins (joinSharedPolicy), which it only has to after an act of git.
LEMMA JoinStep ==
  ASSUME PolicyParameters, PolicyInv, NEW b \in Policies!Board, NEW adopt \in BOOLEAN,
         Policies!Join(b, adopt)
  PROVE  PolicyInv'
<1> DEFINE old == p_common.policy
           p == old.policy
           x == SharedPlan(b, old.id, p, Policies!Initial, adopt)
           kept == p_journal[b] # None /\ p_journal[b].revised
           s == [id |-> old.id, policy |-> p, previous |-> old.previous,
                 phase |-> "joining", pending |-> {x}]
<1>1. /\ p_session = NoSession /\ b \in p_tree /\ old # None /\ old.phase = "active"
      /\ ~(p_receipt[b] # None /\ p_receipt[b].plan.root = b /\ p_receipt[b].plan.shared)
      /\ Policies!Adoptable(b, p) /\ MayPlanShared(b, adopt)
      /\ p_minted' = p_minted /\ Policies!Begin({x})
      /\ UNCHANGED <<Policies!files, p_work, Policies!git, Policies!bounds>>
  BY DEF Policies!Join, Policies!Announce, SharedPlan, MayPlanShared
<1>2. p_common' = [p_common EXCEPT !.barrier = @ \/ kept, !.policy = s]
  BY DEF Policies!Join, Policies!Announce, SharedPlan
<1>3. PolicyTyped /\ p_minted' \in 0..MaxAuthority /\ p_common.on
      /\ p_common.policy \in Policies!Common
  BY <1>1 DEF PolicyInv, PolicyTyped, Policies!TypeOK, PlansSound
<1>4. old.id \in Policies!Authority /\ p \in Policy
      /\ old.previous \in Policies!Authority \cup {Policies!Initial}
  BY <1>3 DEF Policies!Common
<1>5. Policies!Initial \in Policies!Authority \cup {Policies!Initial}
  OBVIOUS
<1>6. p_journal[b] # None =>
        p_journal[b].policy = p /\ (p_journal[b].shared => p_journal[b].id = old.id)
  BY <1>1, AdoptableChains
<1>7. ~Policies!Untouched
  <2> SUFFICES ASSUME Policies!Untouched PROVE FALSE
    OBVIOUS
  <2>1. Policies!Works(b)
    BY <1>1 DEF PolicyInv, Undisturbed
  <2> QED BY <1>1, <2>1 DEF Policies!Works, Policies!PolicyRead, Policies!ActivationVerified
<1>8. /\ x \in Policies!Plan /\ Policies!LedgerPlanned(x)
      /\ x.root = b /\ x.id = old.id /\ x.shared /\ x.policy = p
      /\ x.previous = Policies!Initial /\ x.journal0 = p_journal[b]
  <2>1. PICK id : id = old.id
    OBVIOUS
  <2>2. PICK q : q = p
    OBVIOUS
  <2>3. x = SharedPlan(b, id, q, Policies!Initial, adopt)
    BY <2>1, <2>2
  <2>4. MayPlanShared(b, adopt) /\ b \in Policies!Board /\ id \in Policies!Authority /\ q \in Policy
    BY <1>1, <1>4, <2>1, <2>2
  <2> HIDE DEF x
  <2>5. /\ x \in Policies!Plan /\ Policies!LedgerPlanned(x)
        /\ x.root = b /\ x.id = id /\ x.shared /\ x.policy = q
        /\ x.previous = Policies!Initial /\ x.journal0 = p_journal[b]
    BY <1>3, <1>5, <2>3, <2>4, SharedPlanned
  <2> QED BY <2>1, <2>2, <2>5
<1> HIDE DEF old, p
<1> HIDE DEF x
<1>9. SoundPlan(x) /\ (Policies!TargetJournal(x).revised => kept)
  <2>1. SoundPlan(x)
    BY <1>6, <1>8 DEF SoundPlan, Chained
  <2>2. Policies!TargetJournal(x).revised => kept
    BY <1>8 DEF Policies!TargetJournal
  <2> QED BY <2>1, <2>2
<1>10. /\ p_common'.on = p_common.on /\ p_common'.policy = s
       /\ p_common'.barrier \in BOOLEAN /\ (kept => p_common'.barrier)
       /\ p_common' = [on |-> p_common'.on, barrier |-> p_common'.barrier,
                       policy |-> p_common'.policy]
  <2>1. PICK barrier \in BOOLEAN : barrier = kept
    OBVIOUS
  <2>2. p_common' = [p_common EXCEPT !.barrier = @ \/ barrier, !.policy = s]
    BY <1>2, <2>1
  <2> HIDE DEF s, kept
  <2> QED BY <1>3, <2>1, <2>2, AnnouncementIs
<1> HIDE DEF kept
<1>11. {x} # {} /\ Apart({x}) /\ "joining" \in {"initializing", "joining", "revising"}
  BY DEF Apart
<1> QED BY <1>1, <1>3, <1>4, <1>7, <1>8, <1>9, <1>10, <1>11, Announces

-----------------------------------------------------------------------------
(* The steps of a plan.                                                    *)

\* The journal a plan leads to is one.
LEMMA TargetTyped ==
  ASSUME PolicyParameters, NEW x \in Policies!Plan
  PROVE  /\ Policies!TargetJournal(x) \in Policies!Binding /\ Policies!TargetJournal(x) # None
         /\ Policies!TargetJournal(x).id = x.id /\ Policies!TargetJournal(x).shared = x.shared
         /\ Policies!TargetJournal(x).policy = x.policy
         /\ x.previous # Policies!Initial => Policies!TargetJournal(x).revised
<1>1. x.id \in Policies!Authority /\ x.shared \in BOOLEAN /\ x.policy \in Policy
  BY DEF Policies!Plan
<1>2. PICK revised \in BOOLEAN :
        revised = (x.previous # Policies!Initial \/ (x.journal0 # None /\ x.journal0.revised))
  OBVIOUS
<1>3. Policies!TargetJournal(x) =
        [id |-> x.id, shared |-> x.shared, policy |-> x.policy, revised |-> revised]
  BY <1>2 DEF Policies!TargetJournal
<1>4. Policies!TargetJournal(x) \in Policies!Binding
  BY <1>1, <1>3 DEF Policies!Binding
<1>5. x.previous # Policies!Initial => revised
  BY <1>2
<1>6. Policies!TargetJournal(x) # None
  BY <1>4 DEF PolicyParameters
<1>7. /\ Policies!TargetJournal(x).id = x.id /\ Policies!TargetJournal(x).shared = x.shared
      /\ Policies!TargetJournal(x).policy = x.policy /\ Policies!TargetJournal(x).revised = revised
  BY <1>3
<1> QED BY <1>4, <1>5, <1>6, <1>7

\* While a change is at work none is declared active.
LEMMA NoneActive ==
  ASSUME PolicyInv, p_session # NoSession
  PROVE  p_common.policy # None => p_common.policy.phase # "active"
  BY DEF PolicyInv, SessionSound, PlansSound

\* One step of applyPolicyActivationPlan on the board at work.
LEMMA WorkStep ==
  ASSUME PolicyParameters, PolicyInv, p_session # NoSession, NEW b \in Policies!Board,
         UNCHANGED <<p_common, p_work, p_tree, p_head, p_minted, p_stops, p_gits, p_edits>>,
         p_receipt' \in [Policies!Board -> Policies!Receipt \cup {None}],
         p_policy' \in [Policies!Board -> Policy \cup {None}],
         p_ids' \in [Policies!Board -> {None, "plain", "bound"}],
         p_journal' \in [Policies!Board -> Policies!Binding \cup {None}],
         \A c \in Policies!Board \ {b} :
           /\ p_receipt'[c] = p_receipt[c] /\ p_policy'[c] = p_policy[c]
           /\ p_ids'[c] = p_ids[c] /\ p_journal'[c] = p_journal[c],
         p_receipt'[b] # None => SoundPlan(p_receipt'[b].plan),
         Policies!Untouched =>
           (p_receipt'[b] # None /\ p_receipt'[b].phase = "completed" => Policies!PolicyRead(b)'),
         SessionSound',
         Policies!Untouched /\ p_session' # NoSession =>
           \A y \in p_session'.plans :
             First(p_session'.todo, y.root) => StageFits(y, p_session.at)'
  PROVE  PolicyInv'
<1>1. PlansSound'
  <2>1. \A c \in Policies!Board : p_receipt'[c] # None => SoundPlan(p_receipt'[c].plan)
    BY DEF PolicyInv, PlansSound
  <2>2. p_common' = p_common
    OBVIOUS
  <2> QED BY <2>1, <2>2 DEF PolicyInv, PlansSound
<1>2. PolicyTyped'
  <2>1. p_session' # NoSession =>
          /\ p_session'.plans \subseteq Policies!Plan /\ p_session'.at \in Policies!Steps
          /\ p_session'.todo \subseteq {x.root : x \in p_session'.plans}
    BY DEF SessionSound
  <2>2. \A c \in Policies!Board : p_receipt'[c] # None => Policies!LedgerPlanned(p_receipt'[c].plan)
    BY <1>1 DEF PlansSound, SoundPlan
  <2>3. Policies!TypeOK'
    BY <2>1, <2>2 DEF PolicyInv, PolicyTyped, Policies!TypeOK
  <2> QED BY <2>3 DEF PolicyInv, PolicyTyped
<1>3. (Policies!Untouched => Undisturbed)'
  <2> SUFFICES ASSUME Policies!Untouched' PROVE Undisturbed'
    OBVIOUS
  <2>1. Policies!Untouched /\ Undisturbed
    BY DEF Policies!Untouched, PolicyInv
  <2>2. ASSUME NEW c \in Policies!Board, p_receipt'[c] # None, p_receipt'[c].phase = "completed"
        PROVE  Policies!PolicyRead(c)'
    <3>1. CASE c = b
      BY <2>1, <2>2, <3>1
    <3>2. CASE c # b
      <4>1. Policies!PolicyRead(c)
        BY <2>1, <2>2, <3>2 DEF Undisturbed
      <4> QED BY <3>2, <4>1, ReadAsBefore
    <3> QED BY <3>1, <3>2
  <2>3. p_common'.policy # None =>
          p_common'.policy.phase # "joining" /\ p_common'.policy.phase # "active"
    BY <2>1, NoneActive DEF Undisturbed
  <2> QED BY <2>1, <2>2, <2>3 DEF Undisturbed
<1> QED BY <1>1, <1>2, <1>3 DEF PolicyInv

\* The session goes on with the same plan.
LEMMA GoesOn ==
  ASSUME PolicyParameters, PolicyInv, p_session # NoSession, p_session.at # "finish",
         NEW at \in Policies!Steps \ {"finish"}, Policies!Go(at), p_common' = p_common,
         NEW x, x = Policies!CurrentPlan, Policies!Untouched => StageFits(x, at)'
  PROVE  /\ SessionSound'
         /\ Policies!Untouched /\ p_session' # NoSession =>
              \A y \in p_session'.plans :
                First(p_session'.todo, y.root) => StageFits(y, p_session.at)'
<1>1. p_session \in [plans : SUBSET Policies!Plan, todo : SUBSET Policies!Board,
                      at : Policies!Steps]
  BY DEF PolicyInv, SessionSound
<1>2. p_session' = [p_session EXCEPT !.at = at]
  BY DEF Policies!Go
<1>3. /\ p_session' \in [plans : SUBSET Policies!Plan, todo : SUBSET Policies!Board,
                         at : Policies!Steps]
      /\ p_session'.plans = p_session.plans /\ p_session'.todo = p_session.todo
      /\ p_session'.at = at
  BY <1>1, <1>2
<1>4. SessionSound'
  BY <1>3 DEF PolicyInv, SessionSound
<1>5. \A y \in p_session.plans : First(p_session.todo, y.root) => y = x
  BY PlanAtWork
<1>6. Policies!Untouched => StageFits(x, p_session.at)'
  BY <1>3 DEF StageFits
<1> QED BY <1>3, <1>4, <1>5, <1>6

\* The session leaves the board at work.
LEMMA GoesOff ==
  ASSUME PolicyParameters, PolicyInv, p_session # NoSession, p_session.at # "finish",
         Policies!Leave, p_common' = p_common
  PROVE  /\ SessionSound'
         /\ p_session' # NoSession =>
              \A y \in p_session'.plans :
                First(p_session'.todo, y.root) => StageFits(y, p_session.at)'
<1> DEFINE rest == p_session.todo \ {Policies!Current}
<1>1. /\ p_session \in [plans : SUBSET Policies!Plan, todo : SUBSET Policies!Board,
                        at : Policies!Steps]
      /\ p_session.todo \subseteq {x.root : x \in p_session.plans}
      /\ Apart(p_session.plans) /\ \A x \in p_session.plans : SoundPlan(x)
  BY DEF PolicyInv, SessionSound
<1>2. /\ Policies!CurrentPlan \in p_session.plans
      /\ Policies!CurrentPlan.root = Policies!Current
  BY PlanAtWork
<1>3. (rest = {} /\ ~Policies!CurrentPlan.shared)
      \/ (p_common.policy # None /\ p_common.policy.phase # "active"
          /\ p_session.plans = p_common.policy.pending)
  <2>1. CASE ~p_common.on /\ \E x \in p_session.plans : p_session.plans = {x} /\ ~x.shared
    BY <1>1, <1>2, <2>1
  <2>2. CASE p_common.policy # None /\ p_common.policy.phase # "active"
             /\ p_session.plans = p_common.policy.pending
    BY <2>2
  <2> QED BY <2>1, <2>2 DEF PolicyInv, SessionSound
<1>4. CASE rest # {}
  <2>1. p_session' = [p_session EXCEPT !.todo = rest, !.at = "receipt"]
    BY <1>4 DEF Policies!Leave
  <2>2. /\ p_session' \in [plans : SUBSET Policies!Plan, todo : SUBSET Policies!Board,
                           at : Policies!Steps]
        /\ p_session'.plans = p_session.plans /\ p_session'.todo = rest
        /\ p_session'.at = "receipt"
    BY <1>1, <2>1 DEF Policies!Steps
  <2> HIDE DEF rest
  <2>3. rest \subseteq p_session.todo
    BY DEF rest
  <2>4. SessionSound'
    BY <1>1, <1>3, <1>4, <2>2, <2>3 DEF SessionSound
  <2> QED BY <2>2, <2>4 DEF StageFits
<1>5. CASE rest = {} /\ Policies!CurrentPlan.shared
  <2>1. p_session' = [p_session EXCEPT !.todo = {}, !.at = "finish"]
    BY <1>5 DEF Policies!Leave
  <2>2. /\ p_session' \in [plans : SUBSET Policies!Plan, todo : SUBSET Policies!Board,
                           at : Policies!Steps]
        /\ p_session'.plans = p_session.plans /\ p_session'.todo = {}
        /\ p_session'.at = "finish"
    BY <1>1, <2>1 DEF Policies!Steps
  <2>3. SessionSound'
    BY <1>1, <1>3, <1>5, <2>2 DEF SessionSound
  <2> QED BY <2>2, <2>3 DEF First
<1>6. CASE rest = {} /\ ~Policies!CurrentPlan.shared
  <2>1. p_session' = NoSession
    BY <1>6 DEF Policies!Leave
  <2> QED BY <2>1 DEF SessionSound
<1> QED BY <1>4, <1>5, <1>6

\* The files' types, and the plan at work.
LEMMA PlanIsAtWork ==
  ASSUME PolicyParameters, PolicyInv, NEW at, Policies!At(at), at # "finish",
         NEW x, x = Policies!CurrentPlan, NEW b, b = Policies!Current
  PROVE  /\ p_session # NoSession /\ p_session.at = at /\ b \in Policies!Board
         /\ SoundPlan(x) /\ x \in Policies!Plan /\ x.root = b
         /\ p_receipt \in [Policies!Board -> Policies!Receipt \cup {None}]
         /\ p_policy \in [Policies!Board -> Policy \cup {None}]
         /\ p_ids \in [Policies!Board -> {None, "plain", "bound"}]
         /\ p_journal \in [Policies!Board -> Policies!Binding \cup {None}]
         /\ p_receipt[b] # None => SoundPlan(p_receipt[b].plan)
         /\ Policies!Untouched => StageFits(x, at)
         /\ Policies!Untouched /\ p_receipt[b] # None /\ p_receipt[b].phase = "completed" =>
              Policies!PolicyRead(b)
<1>1. p_session # NoSession /\ p_session.at = at
  BY DEF Policies!At
<1>2. /\ x \in p_session.plans /\ SoundPlan(x) /\ x.root = b /\ b \in Policies!Board
      /\ First(p_session.todo, x.root)
  BY <1>1, PlanAtWork
<1>3. Policies!Untouched => StageFits(x, at)
  BY <1>1, <1>2 DEF PolicyInv, Undisturbed
<1>4. Policies!Untouched /\ p_receipt[b] # None /\ p_receipt[b].phase = "completed" =>
        Policies!PolicyRead(b)
  BY <1>2 DEF PolicyInv, Undisturbed
<1>5. /\ p_receipt \in [Policies!Board -> Policies!Receipt \cup {None}]
      /\ p_policy \in [Policies!Board -> Policy \cup {None}]
      /\ p_ids \in [Policies!Board -> {None, "plain", "bound"}]
      /\ p_journal \in [Policies!Board -> Policies!Binding \cup {None}]
  BY DEF PolicyInv, PolicyTyped, Policies!TypeOK
<1>6. p_receipt[b] # None => SoundPlan(p_receipt[b].plan)
  BY <1>2 DEF PolicyInv, PlansSound
<1> QED BY <1>1, <1>2, <1>3, <1>4, <1>5, <1>6 DEF SoundPlan

\* A receipt is saved for the plan at work.
LEMMA Saved ==
  ASSUME PolicyParameters, NEW x \in Policies!Plan, x = Policies!CurrentPlan,
         NEW b \in Policies!Board, b = Policies!Current,
         NEW phase \in {"pending", "ids-published", "completed"}, Policies!Save(phase),
         p_receipt \in [Policies!Board -> Policies!Receipt \cup {None}]
  PROVE  /\ p_receipt' \in [Policies!Board -> Policies!Receipt \cup {None}]
         /\ p_receipt'[b] # None /\ p_receipt'[b].plan = x /\ p_receipt'[b].phase = phase
         /\ \A c \in Policies!Board \ {b} : p_receipt'[c] = p_receipt[c]
<1> DEFINE r == [phase |-> phase, plan |-> x]
<1>1. p_receipt' = [p_receipt EXCEPT ![b] = r]
  BY DEF Policies!Save
<1>2. r \in Policies!Receipt /\ r.plan = x /\ r.phase = phase
  BY DEF Policies!Receipt
<1> HIDE DEF r
<1>3. r # None
  BY <1>2 DEF PolicyParameters
<1> QED BY <1>1, <1>2, <1>3

\* A board that is completed is skipped.
LEMMA SkipCompletedStep ==
  ASSUME PolicyParameters, PolicyInv, Policies!SkipCompleted PROVE PolicyInv'
<1>1. PICK x : x = Policies!CurrentPlan
  OBVIOUS
<1>2. PICK b : b = Policies!Current
  OBVIOUS
<1>3. /\ Policies!At("receipt") /\ Policies!Leave
      /\ UNCHANGED <<p_common, p_receipt, p_policy, p_ids, p_journal, p_work, p_tree, p_head,
                     p_minted, p_stops, p_gits, p_edits>>
  BY DEF Policies!SkipCompleted, Policies!files, Policies!git, Policies!bounds
<1>4. /\ p_session # NoSession /\ p_session.at = "receipt" /\ b \in Policies!Board
      /\ p_receipt \in [Policies!Board -> Policies!Receipt \cup {None}]
      /\ p_policy \in [Policies!Board -> Policy \cup {None}]
      /\ p_ids \in [Policies!Board -> {None, "plain", "bound"}]
      /\ p_journal \in [Policies!Board -> Policies!Binding \cup {None}]
      /\ p_receipt[b] # None => SoundPlan(p_receipt[b].plan)
      /\ Policies!Untouched /\ p_receipt[b] # None /\ p_receipt[b].phase = "completed" =>
           Policies!PolicyRead(b)
  BY <1>1, <1>2, <1>3, PlanIsAtWork
<1>5. Policies!PolicyRead(b)' <=> Policies!PolicyRead(b)
  BY <1>3, ReadAsBefore
<1>6. /\ SessionSound'
      /\ p_session' # NoSession =>
           \A y \in p_session'.plans :
             First(p_session'.todo, y.root) => StageFits(y, p_session.at)'
  BY <1>3, <1>4, GoesOff
<1> QED BY <1>3, <1>4, <1>5, <1>6, WorkStep

\* The receipt is saved as pending.
LEMMA SavePlanStep ==
  ASSUME PolicyParameters, PolicyInv, Policies!SavePending PROVE PolicyInv'
<1>1. PICK x : x = Policies!CurrentPlan
  OBVIOUS
<1>2. PICK b : b = Policies!Current
  OBVIOUS
<1>3. /\ Policies!At("receipt") /\ Policies!Go("policy")
      /\ IF Policies!Published(b, x) THEN UNCHANGED p_receipt ELSE Policies!Save("pending")
      /\ UNCHANGED <<p_common, p_policy, p_ids, p_journal, p_work, p_tree, p_head,
                     p_minted, p_stops, p_gits, p_edits>>
  BY <1>1, <1>2 DEF Policies!SavePending, Policies!git, Policies!bounds
<1>4. /\ p_session # NoSession /\ p_session.at = "receipt" /\ b \in Policies!Board
      /\ SoundPlan(x) /\ x \in Policies!Plan /\ x.root = b
      /\ p_receipt \in [Policies!Board -> Policies!Receipt \cup {None}]
      /\ p_policy \in [Policies!Board -> Policy \cup {None}]
      /\ p_ids \in [Policies!Board -> {None, "plain", "bound"}]
      /\ p_journal \in [Policies!Board -> Policies!Binding \cup {None}]
  BY <1>1, <1>2, <1>3, PlanIsAtWork
<1>5. /\ p_receipt' \in [Policies!Board -> Policies!Receipt \cup {None}]
      /\ p_receipt'[b] # None /\ p_receipt'[b].plan = x /\ p_receipt'[b].phase # "completed"
      /\ \A c \in Policies!Board \ {b} : p_receipt'[c] = p_receipt[c]
  <2>1. CASE Policies!Published(b, x)
    BY <1>3, <1>4, <2>1 DEF Policies!Published, Policies!Started
  <2>2. CASE ~Policies!Published(b, x)
    BY <1>1, <1>2, <1>3, <1>4, <2>2, Saved
  <2> QED BY <2>1, <2>2
<1>6. StageFits(x, "policy")'
  BY <1>4, <1>5 DEF StageFits
<1>7. /\ SessionSound'
      /\ Policies!Untouched /\ p_session' # NoSession =>
           \A y \in p_session'.plans :
             First(p_session'.todo, y.root) => StageFits(y, p_session.at)'
  BY <1>1, <1>3, <1>4, <1>6, GoesOn DEF Policies!Steps
<1> QED BY <1>3, <1>4, <1>5, <1>7, WorkStep

\* The policy is published.
LEMMA PublishPolicyStep ==
  ASSUME PolicyParameters, PolicyInv, Policies!PublishPolicy PROVE PolicyInv'
<1>1. PICK x : x = Policies!CurrentPlan
  OBVIOUS
<1>2. PICK b : b = Policies!Current
  OBVIOUS
<1>3. /\ Policies!At("policy") /\ Policies!Go("ids")
      /\ p_policy' = [p_policy EXCEPT ![b] = x.policy]
      /\ UNCHANGED <<p_common, p_receipt, p_ids, p_journal, p_work, p_tree, p_head,
                     p_minted, p_stops, p_gits, p_edits>>
  BY <1>1, <1>2 DEF Policies!PublishPolicy, Policies!git, Policies!bounds
<1>4. /\ p_session # NoSession /\ p_session.at = "policy" /\ b \in Policies!Board
      /\ SoundPlan(x) /\ x \in Policies!Plan /\ x.root = b
      /\ p_receipt \in [Policies!Board -> Policies!Receipt \cup {None}]
      /\ p_policy \in [Policies!Board -> Policy \cup {None}]
      /\ p_ids \in [Policies!Board -> {None, "plain", "bound"}]
      /\ p_journal \in [Policies!Board -> Policies!Binding \cup {None}]
      /\ p_receipt[b] # None => SoundPlan(p_receipt[b].plan)
      /\ Policies!Untouched => StageFits(x, "policy")
  BY <1>1, <1>2, <1>3, PlanIsAtWork
<1>5. x.policy \in Policy
  BY <1>4 DEF Policies!Plan
<1>6. Policies!Untouched =>
        /\ StageFits(x, "ids")'
        /\ p_receipt'[b] # None /\ p_receipt'[b].phase # "completed"
  BY <1>3, <1>4, <1>5 DEF StageFits
<1>7. /\ SessionSound'
      /\ Policies!Untouched /\ p_session' # NoSession =>
           \A y \in p_session'.plans :
             First(p_session'.todo, y.root) => StageFits(y, p_session.at)'
  BY <1>1, <1>3, <1>4, <1>6, GoesOn DEF Policies!Steps
<1> QED BY <1>3, <1>4, <1>5, <1>6, <1>7, WorkStep

\* The ledger is published.
LEMMA PublishIdsStep ==
  ASSUME PolicyParameters, PolicyInv, Policies!PublishIds PROVE PolicyInv'
<1>1. PICK x : x = Policies!CurrentPlan
  OBVIOUS
<1>2. PICK b : b = Policies!Current
  OBVIOUS
<1>3. /\ Policies!At("ids") /\ Policies!Go("mark")
      /\ p_ids' = [p_ids EXCEPT ![b] = x.ids1]
      /\ UNCHANGED <<p_common, p_receipt, p_policy, p_journal, p_work, p_tree, p_head,
                     p_minted, p_stops, p_gits, p_edits>>
  BY <1>1, <1>2 DEF Policies!PublishIds, Policies!git, Policies!bounds
<1>4. /\ p_session # NoSession /\ p_session.at = "ids" /\ b \in Policies!Board
      /\ SoundPlan(x) /\ x \in Policies!Plan /\ x.root = b
      /\ p_receipt \in [Policies!Board -> Policies!Receipt \cup {None}]
      /\ p_policy \in [Policies!Board -> Policy \cup {None}]
      /\ p_ids \in [Policies!Board -> {None, "plain", "bound"}]
      /\ p_journal \in [Policies!Board -> Policies!Binding \cup {None}]
      /\ p_receipt[b] # None => SoundPlan(p_receipt[b].plan)
      /\ Policies!Untouched => StageFits(x, "ids")
  BY <1>1, <1>2, <1>3, PlanIsAtWork
<1>5. x.ids1 \in {"plain", "bound"}
  BY <1>4 DEF Policies!Plan
<1>6. Policies!Untouched =>
        /\ StageFits(x, "mark")'
        /\ p_receipt'[b] # None /\ p_receipt'[b].phase # "completed"
  BY <1>3, <1>4, <1>5 DEF StageFits
<1>7. /\ SessionSound'
      /\ Policies!Untouched /\ p_session' # NoSession =>
           \A y \in p_session'.plans :
             First(p_session'.todo, y.root) => StageFits(y, p_session.at)'
  BY <1>1, <1>3, <1>4, <1>6, GoesOn DEF Policies!Steps
<1> QED BY <1>3, <1>4, <1>5, <1>6, <1>7, WorkStep

\* The receipt notes the published ledger.
LEMMA MarkIdsStep ==
  ASSUME PolicyParameters, PolicyInv, Policies!MarkIds PROVE PolicyInv'
<1>1. PICK x : x = Policies!CurrentPlan
  OBVIOUS
<1>2. PICK b : b = Policies!Current
  OBVIOUS
<1>3. /\ Policies!At("mark") /\ Policies!Go("journal")
      /\ IF x.adopt THEN Policies!Save("ids-published") ELSE UNCHANGED p_receipt
      /\ UNCHANGED <<p_common, p_policy, p_ids, p_journal, p_work, p_tree, p_head,
                     p_minted, p_stops, p_gits, p_edits>>
  BY <1>1, <1>2 DEF Policies!MarkIds, Policies!git, Policies!bounds
<1>4. /\ p_session # NoSession /\ p_session.at = "mark" /\ b \in Policies!Board
      /\ SoundPlan(x) /\ x \in Policies!Plan /\ x.root = b
      /\ p_receipt \in [Policies!Board -> Policies!Receipt \cup {None}]
      /\ p_policy \in [Policies!Board -> Policy \cup {None}]
      /\ p_ids \in [Policies!Board -> {None, "plain", "bound"}]
      /\ p_journal \in [Policies!Board -> Policies!Binding \cup {None}]
      /\ p_receipt[b] # None => SoundPlan(p_receipt[b].plan)
      /\ Policies!Untouched => StageFits(x, "mark")
  BY <1>1, <1>2, <1>3, PlanIsAtWork
<1>5. /\ p_receipt' \in [Policies!Board -> Policies!Receipt \cup {None}]
      /\ \A c \in Policies!Board \ {b} : p_receipt'[c] = p_receipt[c]
      /\ p_receipt'[b] # None => SoundPlan(p_receipt'[b].plan)
      /\ Policies!Untouched =>
           p_receipt'[b] # None /\ p_receipt'[b].plan = x /\ p_receipt'[b].phase # "completed"
  <2>1. CASE x.adopt
    BY <1>1, <1>2, <1>3, <1>4, <2>1, Saved
  <2>2. CASE ~x.adopt
    BY <1>3, <1>4, <2>2 DEF StageFits
  <2> QED BY <2>1, <2>2
<1>6. Policies!Untouched => StageFits(x, "journal")'
  BY <1>3, <1>4, <1>5 DEF StageFits
<1>7. /\ SessionSound'
      /\ Policies!Untouched /\ p_session' # NoSession =>
           \A y \in p_session'.plans :
             First(p_session'.todo, y.root) => StageFits(y, p_session.at)'
  BY <1>1, <1>3, <1>4, <1>6, GoesOn DEF Policies!Steps
<1> QED BY <1>3, <1>4, <1>5, <1>7, WorkStep

\* The journal is published.
LEMMA PublishJournalStep ==
  ASSUME PolicyParameters, PolicyInv, Policies!PublishJournal PROVE PolicyInv'
<1>1. PICK x : x = Policies!CurrentPlan
  OBVIOUS
<1>2. PICK b : b = Policies!Current
  OBVIOUS
<1>3. /\ Policies!At("journal") /\ Policies!Go("complete")
      /\ p_journal' = [p_journal EXCEPT ![b] = Policies!TargetJournal(x)]
      /\ UNCHANGED <<p_common, p_receipt, p_policy, p_ids, p_work, p_tree, p_head,
                     p_minted, p_stops, p_gits, p_edits>>
  BY <1>1, <1>2 DEF Policies!PublishJournal, Policies!git, Policies!bounds
<1>4. /\ p_session # NoSession /\ p_session.at = "journal" /\ b \in Policies!Board
      /\ SoundPlan(x) /\ x \in Policies!Plan /\ x.root = b
      /\ p_receipt \in [Policies!Board -> Policies!Receipt \cup {None}]
      /\ p_policy \in [Policies!Board -> Policy \cup {None}]
      /\ p_ids \in [Policies!Board -> {None, "plain", "bound"}]
      /\ p_journal \in [Policies!Board -> Policies!Binding \cup {None}]
      /\ p_receipt[b] # None => SoundPlan(p_receipt[b].plan)
      /\ Policies!Untouched => StageFits(x, "journal")
  BY <1>1, <1>2, <1>3, PlanIsAtWork
<1>5. Policies!TargetJournal(x) \in Policies!Binding
  BY <1>4, TargetTyped
<1>6. Policies!Untouched =>
        /\ StageFits(x, "complete")'
        /\ p_receipt'[b] # None /\ p_receipt'[b].phase # "completed"
  BY <1>3, <1>4, <1>5 DEF StageFits
<1>7. /\ SessionSound'
      /\ Policies!Untouched /\ p_session' # NoSession =>
           \A y \in p_session'.plans :
             First(p_session'.todo, y.root) => StageFits(y, p_session.at)'
  BY <1>1, <1>3, <1>4, <1>6, GoesOn DEF Policies!Steps
<1> QED BY <1>3, <1>4, <1>5, <1>6, <1>7, WorkStep

\* The receipt is completed, and the board is read as the plan says.
LEMMA CompletePlanStep ==
  ASSUME PolicyParameters, PolicyInv, Policies!Complete PROVE PolicyInv'
<1>1. PICK x : x = Policies!CurrentPlan
  OBVIOUS
<1>2. PICK b : b = Policies!Current
  OBVIOUS
<1>3. /\ Policies!At("complete") /\ Policies!Leave /\ Policies!Save("completed")
      /\ UNCHANGED <<p_common, p_policy, p_ids, p_journal, p_work, p_tree, p_head,
                     p_minted, p_stops, p_gits, p_edits>>
  BY <1>1, <1>2 DEF Policies!Complete, Policies!git, Policies!bounds
<1>4. /\ p_session # NoSession /\ p_session.at = "complete" /\ b \in Policies!Board
      /\ SoundPlan(x) /\ x \in Policies!Plan /\ x.root = b
      /\ p_receipt \in [Policies!Board -> Policies!Receipt \cup {None}]
      /\ p_policy \in [Policies!Board -> Policy \cup {None}]
      /\ p_ids \in [Policies!Board -> {None, "plain", "bound"}]
      /\ p_journal \in [Policies!Board -> Policies!Binding \cup {None}]
      /\ Policies!Untouched => StageFits(x, "complete")
  BY <1>1, <1>2, <1>3, PlanIsAtWork
<1>5. /\ p_receipt' \in [Policies!Board -> Policies!Receipt \cup {None}]
      /\ p_receipt'[b] # None /\ p_receipt'[b].plan = x /\ p_receipt'[b].phase = "completed"
      /\ \A c \in Policies!Board \ {b} : p_receipt'[c] = p_receipt[c]
  BY <1>1, <1>2, <1>3, <1>4, Saved
<1>6. Policies!Untouched => Policies!PolicyRead(b)'
  <2> SUFFICES ASSUME Policies!Untouched PROVE Policies!PolicyRead(b)'
    OBVIOUS
  <2>1. p_policy'[b] = x.policy /\ p_ids'[b] = x.ids1 /\ p_journal'[b] = Policies!TargetJournal(x)
    BY <1>3, <1>4 DEF StageFits
  <2>2. x.ids1 # None
    BY <1>4 DEF Policies!Plan, PolicyParameters
  <2>3. /\ Policies!TargetJournal(x) # None
        /\ Policies!TargetJournal(x).id = x.id /\ Policies!TargetJournal(x).shared = x.shared
        /\ Policies!TargetJournal(x).policy = x.policy
        /\ x.previous # Policies!Initial => Policies!TargetJournal(x).revised
    BY <1>4, TargetTyped
  <2> QED BY <1>4, <1>5, <2>1, <2>2, <2>3 DEF Policies!PolicyRead, Policies!ActivationVerified
<1>7. /\ SessionSound'
      /\ p_session' # NoSession =>
           \A y \in p_session'.plans :
             First(p_session'.todo, y.root) => StageFits(y, p_session.at)'
  BY <1>3, <1>4, GoesOff
<1> QED BY <1>3, <1>4, <1>5, <1>6, <1>7, WorkStep

\* A command gives up.
LEMMA LeavesOff ==
  ASSUME PolicyParameters, PolicyInv, p_session' = NoSession, p_stops' \in 0..PolicyStops,
         UNCHANGED <<p_common, Policies!files, p_work, Policies!git, p_minted, p_gits, p_edits>>
  PROVE  PolicyInv'
<1>1. UNCHANGED <<p_common, p_receipt, p_policy, p_ids, p_journal, p_work, p_tree, p_head,
                  p_minted, p_gits, p_edits>>
  BY DEF Policies!files, Policies!git
<1>2. SessionSound' /\ PlansSound'
  BY <1>1 DEF PolicyInv, SessionSound, PlansSound
<1>3. PolicyTyped'
  BY <1>1 DEF PolicyInv, PolicyTyped, Policies!TypeOK
<1>4. (Policies!Untouched => Undisturbed)'
  <2> SUFFICES ASSUME Policies!Untouched' PROVE Undisturbed'
    OBVIOUS
  <2>1. Policies!Untouched /\ Undisturbed
    BY <1>1 DEF Policies!Untouched, PolicyInv
  <2>2. \A c : Policies!PolicyRead(c)' <=> Policies!PolicyRead(c)
    BY <1>1, ReadAsBefore
  <2>3. \A c : Policies!Works(c)' <=> Policies!Works(c)
    BY <1>1, WorksAsBefore
  <2> QED BY <1>1, <2>1, <2>2, <2>3 DEF Undisturbed
<1> QED BY <1>2, <1>3, <1>4 DEF PolicyInv

\* A command refuses.
LEMMA RefuseStep ==
  ASSUME PolicyParameters, PolicyInv, Policies!Refuse PROVE PolicyInv'
<1>1. p_stops' \in 0..PolicyStops
  BY DEF Policies!Refuse, Policies!bounds, PolicyInv, PolicyTyped, Policies!TypeOK
<1> QED BY <1>1, LeavesOff DEF Policies!Refuse, Policies!bounds

\* A command is killed or a write fails.
LEMMA StopStep ==
  ASSUME PolicyParameters, PolicyInv, Policies!Stop PROVE PolicyInv'
<1>1. p_stops' \in 0..PolicyStops
  BY DEF Policies!Stop, PolicyInv, PolicyTyped, Policies!TypeOK, PolicyParameters
<1> QED BY <1>1, LeavesOff DEF Policies!Stop

-----------------------------------------------------------------------------
(* The end of a change, and what others do.                                *)

\* The end of a shared change: every worktree took it (finishSharedPolicyChange).
LEMMA FinishStep ==
  ASSUME PolicyParameters, PolicyInv, Policies!Finish PROVE PolicyInv'
<1> DEFINE old == p_common.policy
<1>1. /\ p_session # NoSession /\ p_session.at = "finish" /\ Policies!AllDone
      /\ p_common' = [p_common EXCEPT !.policy.phase = "active", !.policy.pending = {}]
      /\ p_session' = NoSession
      /\ UNCHANGED <<p_receipt, p_policy, p_ids, p_journal, p_work, p_tree, p_head,
                     p_minted, p_stops, p_gits, p_edits>>
  BY DEF Policies!Finish, Policies!At, Policies!files, Policies!git, Policies!bounds
<1>2. /\ old # None /\ old \in Policies!Common /\ p_common.on
      /\ p_session.plans = old.pending /\ old.pending \subseteq Policies!Plan
  BY <1>1 DEF PolicyInv, PolicyTyped, Policies!TypeOK, SessionSound, PlansSound, Policies!Common
<1>3. /\ p_common = [on |-> p_common.on, barrier |-> p_common.barrier, policy |-> p_common.policy]
      /\ old = [id |-> old.id, policy |-> old.policy, previous |-> old.previous,
                phase |-> old.phase, pending |-> old.pending]
  BY <1>2 DEF PolicyInv, PolicyTyped, Policies!Common
<1>4. /\ p_common'.on = p_common.on /\ p_common'.barrier = p_common.barrier
      /\ p_common' = [on |-> p_common'.on, barrier |-> p_common'.barrier,
                      policy |-> p_common'.policy]
      /\ p_common'.policy = [id |-> old.id, policy |-> old.policy, previous |-> old.previous,
                             phase |-> "active", pending |-> {}]
  BY <1>1, <1>3
<1>5. /\ p_common'.policy \in Policies!Common
      /\ p_common'.policy.phase = "active" /\ p_common'.policy.pending = {}
      /\ p_common'.policy.id = old.id /\ p_common'.policy.policy = old.policy
  BY <1>2, <1>4 DEF Policies!Common
<1> HIDE DEF old
<1>6. PolicyTyped'
  <2>1. Policies!TypeOK'
    BY <1>1, <1>4, <1>5 DEF PolicyInv, PolicyTyped, Policies!TypeOK
  <2> QED BY <1>1, <1>4, <2>1 DEF PolicyInv, PolicyTyped
<1>7. PlansSound'
  BY <1>1, <1>2, <1>4, <1>5 DEF PolicyInv, PlansSound
<1>8. SessionSound'
  BY <1>1 DEF SessionSound
<1>9. (Policies!Untouched => Undisturbed)'
  <2> SUFFICES ASSUME Policies!Untouched' PROVE Undisturbed'
    OBVIOUS
  <2>1. Policies!Untouched /\ Undisturbed
    BY <1>1 DEF Policies!Untouched, PolicyInv
  <2>2. \A c : Policies!PolicyRead(c)' <=> Policies!PolicyRead(c)
    BY <1>1, ReadAsBefore
  <2>3. ASSUME NEW b \in p_tree PROVE Policies!Works(b)'
    <3>1. PICK x \in old.pending : x.root = b
      BY <1>1, <1>2, <2>1 DEF Policies!AllDone, Policies!Inventoried, Undisturbed, old
    <3>2. /\ SoundPlan(x) /\ x.shared /\ x.id = old.id /\ x.policy = old.policy
          /\ Policies!TargetJournal(x).revised => p_common.barrier
      BY <1>2, <3>1 DEF PolicyInv, PlansSound, old
    <3>3. /\ Policies!Completed(b, x) /\ p_journal[b] = Policies!TargetJournal(x)
          /\ p_ids[b] = x.ids1
      BY <1>1, <1>2, <3>1 DEF Policies!AllDone, Policies!Inspected
    <3>4. p_receipt[b] # None /\ p_receipt[b].phase = "completed"
      BY <3>3 DEF Policies!Completed, Policies!Started
    <3>5. Policies!PolicyRead(b)'
      <4>1. b \in Policies!Board
        BY DEF PolicyInv, PolicyTyped, Policies!TypeOK
      <4> QED BY <2>1, <2>2, <3>4, <4>1 DEF Undisturbed
    <3>6. p_ids'[b] = "bound"
      BY <1>1, <3>2, <3>3 DEF SoundPlan, Policies!LedgerPlanned
    <3>7. /\ p_journal'[b] # None /\ p_journal'[b].shared /\ p_journal'[b].id = old.id
          /\ p_journal'[b].policy = old.policy /\ (p_journal'[b].revised => p_common'.barrier)
      <4>1. x \in Policies!Plan
        BY <3>2 DEF SoundPlan
      <4>2. /\ Policies!TargetJournal(x) # None
            /\ Policies!TargetJournal(x).id = x.id /\ Policies!TargetJournal(x).shared = x.shared
            /\ Policies!TargetJournal(x).policy = x.policy
        BY <4>1, TargetTyped
      <4> QED BY <1>1, <1>4, <3>2, <3>3, <4>2
    <3>8. p_common'.policy # None
      BY <1>5 DEF PolicyParameters
    <3> QED BY <1>5, <3>5, <3>6, <3>7, <3>8 DEF Policies!Works
  <2>4. p_common'.policy.phase # "joining"
    BY <1>5
  <2> QED BY <1>1, <2>1, <2>2, <2>3, <2>4 DEF Undisturbed
<1> QED BY <1>6, <1>7, <1>8, <1>9 DEF PolicyInv

\* A ledger that is bound later does not change what is read.
LEMMA WorksStill ==
  ASSUME NEW b, p_common' = p_common, Policies!Works(b),
         p_receipt'[b] = p_receipt[b], p_policy'[b] = p_policy[b], p_journal'[b] = p_journal[b],
         (p_ids[b] = None) = (p_ids'[b] = None), p_ids[b] = "bound" => p_ids'[b] = "bound"
  PROVE  Policies!Works(b)'
  BY ReadAsBefore DEF Policies!Works

\* A card command, or a claim (the ledger is bound by the first of them).
LEMMA OrdinaryStep ==
  ASSUME PolicyParameters, PolicyInv, NEW b \in Policies!Board, Policies!Ordinary(b)
  PROVE  PolicyInv'
<1>1. PICK w \in {Calm, Held, Other} : p_work' = [p_work EXCEPT ![b] = w]
  BY DEF Policies!Ordinary
<1>2. /\ p_session = NoSession /\ p_ids[b] # None
      /\ p_ids' = [p_ids EXCEPT ![b] = IF p_common.on THEN "bound" ELSE @]
      /\ UNCHANGED <<p_common, p_receipt, p_policy, p_journal, p_tree, p_head, p_minted,
                     p_session, p_stops, p_gits, p_edits>>
  BY DEF Policies!Ordinary, Policies!git, Policies!bounds
<1>3. p_ids \in [Policies!Board -> {None, "plain", "bound"}]
  BY DEF PolicyInv, PolicyTyped, Policies!TypeOK
<1>4. /\ p_ids' \in [Policies!Board -> {None, "plain", "bound"}]
      /\ \A c \in Policies!Board : /\ (p_ids[c] = None) = (p_ids'[c] = None)
                                   /\ p_ids[c] = "bound" /\ p_common.on => p_ids'[c] = "bound"
  <2>1. None # "bound" /\ None # "plain"
    BY DEF PolicyParameters
  <2>2. CASE p_common.on
    BY <1>2, <1>3, <2>1, <2>2
  <2>3. CASE ~p_common.on
    BY <1>2, <1>3, <2>1, <2>3
  <2> QED BY <2>2, <2>3
<1>5. PolicyTyped'
  BY <1>1, <1>2, <1>4 DEF PolicyInv, PolicyTyped, Policies!TypeOK
<1>6. PlansSound' /\ SessionSound'
  BY <1>2 DEF PolicyInv, PlansSound, SessionSound
<1>7. (Policies!Untouched => Undisturbed)'
  <2> SUFFICES ASSUME Policies!Untouched' PROVE Undisturbed'
    OBVIOUS
  <2>1. Policies!Untouched /\ Undisturbed
    BY <1>2 DEF Policies!Untouched, PolicyInv
  <2>2. \A c \in Policies!Board : Policies!PolicyRead(c)' <=> Policies!PolicyRead(c)
    BY <1>2, <1>4, ReadAsBefore
  <2>3. ASSUME p_common.policy # None, p_common.policy.phase = "active", NEW c \in p_tree
        PROVE  Policies!Works(c)'
    <3>1. c \in Policies!Board /\ p_common.on
      BY <2>3 DEF PolicyInv, PolicyTyped, Policies!TypeOK, PlansSound
    <3>2. Policies!Works(c)
      BY <2>1, <2>3 DEF Undisturbed
    <3> QED BY <1>2, <1>4, <3>1, <3>2, WorksStill
  <2> QED BY <1>2, <2>1, <2>2, <2>3 DEF Undisturbed
<1> QED BY <1>5, <1>6, <1>7 DEF PolicyInv

\* The ledger of a new board, which has no policy yet (init).
LEMMA InitBoardStep ==
  ASSUME PolicyParameters, PolicyInv, NEW b \in Policies!Board, Policies!InitBoard(b)
  PROVE  PolicyInv'
<1>1. /\ p_session = NoSession /\ Policies!Works(b) /\ p_ids[b] = None
      /\ p_ids' = [p_ids EXCEPT ![b] = IF p_common.on THEN "bound" ELSE "plain"]
      /\ UNCHANGED <<p_common, p_receipt, p_policy, p_journal, p_work, p_tree, p_head, p_minted,
                     p_session, p_stops, p_gits, p_edits>>
  BY DEF Policies!InitBoard, Policies!git, Policies!bounds
<1>2. p_ids \in [Policies!Board -> {None, "plain", "bound"}]
  BY DEF PolicyInv, PolicyTyped, Policies!TypeOK
<1>3. /\ p_ids' \in [Policies!Board -> {None, "plain", "bound"}]
      /\ \A c \in Policies!Board \ {b} : p_ids'[c] = p_ids[c]
  <2>1. CASE p_common.on
    BY <1>1, <1>2, <2>1
  <2>2. CASE ~p_common.on
    BY <1>1, <1>2, <2>2
  <2> QED BY <2>1, <2>2
<1>4. p_receipt[b] = None
  BY <1>1 DEF Policies!Works, Policies!PolicyRead, Policies!ActivationVerified
<1>5. ~(p_common.policy # None /\ p_common.policy.phase = "active")
  <2>1. None # "bound"
    BY DEF PolicyParameters
  <2> QED BY <1>1, <2>1 DEF Policies!Works
<1>6. PolicyTyped'
  BY <1>1, <1>3 DEF PolicyInv, PolicyTyped, Policies!TypeOK
<1>7. PlansSound' /\ SessionSound'
  BY <1>1 DEF PolicyInv, PlansSound, SessionSound
<1>8. (Policies!Untouched => Undisturbed)'
  <2> SUFFICES ASSUME Policies!Untouched' PROVE Undisturbed'
    OBVIOUS
  <2>1. Policies!Untouched /\ Undisturbed
    BY <1>1 DEF Policies!Untouched, PolicyInv
  <2>2. \A c \in Policies!Board \ {b} : Policies!PolicyRead(c)' <=> Policies!PolicyRead(c)
    BY <1>1, <1>3, ReadAsBefore
  <2> QED BY <1>1, <1>4, <1>5, <2>1, <2>2 DEF Undisturbed
<1> QED BY <1>6, <1>7, <1>8 DEF PolicyInv

\* Identifiers are shared from now on, where no policy is announced yet.
LEMMA EnableSharedStep ==
  ASSUME PolicyParameters, PolicyInv, Policies!EnableShared PROVE PolicyInv'
<1>1. /\ p_session = NoSession /\ ~p_common.on /\ \A b \in p_tree : p_ids[b] # None
      /\ p_common' = [p_common EXCEPT !.on = TRUE]
      /\ p_ids' = [b \in Policies!Board |-> IF b \in p_tree THEN "bound" ELSE p_ids[b]]
      /\ UNCHANGED <<p_receipt, p_policy, p_journal, p_work, p_tree, p_head, p_minted,
                     p_session, p_stops, p_gits, p_edits>>
  BY DEF Policies!EnableShared, Policies!git, Policies!bounds
<1>2. p_ids \in [Policies!Board -> {None, "plain", "bound"}] /\ p_common.policy = None
      /\ p_common = [on |-> p_common.on, barrier |-> p_common.barrier, policy |-> p_common.policy]
  BY <1>1 DEF PolicyInv, PolicyTyped, Policies!TypeOK, PlansSound
<1>3. /\ p_ids' \in [Policies!Board -> {None, "plain", "bound"}]
      /\ \A c \in Policies!Board : (p_ids[c] = None) = (p_ids'[c] = None)
  <2>1. None # "bound"
    BY DEF PolicyParameters
  <2> QED BY <1>1, <1>2, <2>1
<1>4. PICK on \in BOOLEAN : on = TRUE
  OBVIOUS
<1>5. /\ p_common'.on = on /\ p_common'.barrier = p_common.barrier /\ p_common'.policy = None
      /\ p_common' = [on |-> p_common'.on, barrier |-> p_common'.barrier,
                      policy |-> p_common'.policy]
  BY <1>1, <1>2, <1>4
<1>6. PolicyTyped'
  <2>1. p_common'.on \in BOOLEAN /\ p_common'.barrier \in BOOLEAN
    BY <1>4, <1>5 DEF PolicyInv, PolicyTyped, Policies!TypeOK
  <2> QED BY <1>1, <1>3, <1>5, <2>1 DEF PolicyInv, PolicyTyped, Policies!TypeOK
<1>7. PlansSound' /\ SessionSound'
  BY <1>1, <1>5 DEF PolicyInv, PlansSound, SessionSound
<1>8. (Policies!Untouched => Undisturbed)'
  <2> SUFFICES ASSUME Policies!Untouched' PROVE Undisturbed'
    OBVIOUS
  <2>1. Policies!Untouched /\ Undisturbed
    BY <1>1 DEF Policies!Untouched, PolicyInv
  <2>2. \A c \in Policies!Board : Policies!PolicyRead(c)' <=> Policies!PolicyRead(c)
    BY <1>1, <1>3, ReadAsBefore
  <2> QED BY <1>1, <1>5, <2>1, <2>2 DEF Undisturbed
<1> QED BY <1>6, <1>7, <1>8 DEF PolicyInv

\* Files that git puts into a worktree are another board's, or none.
LEMMA CheckOutStep ==
  ASSUME PolicyParameters, PolicyInv, NEW b \in Policies!Board,
         NEW c \in p_tree \cup {None}, Policies!CheckOut(b, c), p_common' = p_common
  PROVE  /\ p_receipt' \in [Policies!Board -> Policies!Receipt \cup {None}]
         /\ p_policy' \in [Policies!Board -> Policy \cup {None}]
         /\ p_ids' \in [Policies!Board -> {None, "plain", "bound"}]
         /\ p_journal' \in [Policies!Board -> Policies!Binding \cup {None}]
         /\ \A d \in Policies!Board : p_receipt'[d] # None => SoundPlan(p_receipt'[d].plan)
<1>1. /\ p_receipt \in [Policies!Board -> Policies!Receipt \cup {None}]
      /\ p_policy \in [Policies!Board -> Policy \cup {None}]
      /\ p_ids \in [Policies!Board -> {None, "plain", "bound"}]
      /\ p_journal \in [Policies!Board -> Policies!Binding \cup {None}]
      /\ p_tree \subseteq Policies!Board
      /\ \A d \in Policies!Board : p_receipt[d] # None => SoundPlan(p_receipt[d].plan)
  BY DEF PolicyInv, PolicyTyped, Policies!TypeOK, PlansSound
<1>2. CASE c = None
  <2>1. /\ p_receipt' = [p_receipt EXCEPT ![b] = None] /\ p_policy' = [p_policy EXCEPT ![b] = None]
        /\ p_journal' = [p_journal EXCEPT ![b] = None] /\ p_ids' = [p_ids EXCEPT ![b] = "plain"]
    BY <1>2 DEF Policies!CheckOut
  <2> QED BY <1>1, <2>1
<1>3. CASE c # None
  <2>1. /\ p_receipt' = [p_receipt EXCEPT ![b] = p_receipt[c]]
        /\ p_policy' = [p_policy EXCEPT ![b] = p_policy[c]]
        /\ p_journal' = [p_journal EXCEPT ![b] = p_journal[c]]
        /\ p_ids' = [p_ids EXCEPT ![b] = p_ids[c]] /\ c \in Policies!Board
    BY <1>1, <1>3 DEF Policies!CheckOut
  <2> QED BY <1>1, <2>1
<1> QED BY <1>2, <1>3

\* What git does to a worktree.
LEMMA GitStep ==
  ASSUME PolicyParameters, PolicyInv, NEW b \in Policies!Board, Policies!Git(b)
  PROVE  PolicyInv'
<1>1. /\ p_gits + p_edits < PolicyActs /\ p_gits' = p_gits + 1
      /\ UNCHANGED <<p_common, p_work, p_minted, p_session, p_stops, p_edits>>
  BY DEF Policies!Git
<1>2. /\ Policies!TypeOK /\ p_gits \in Nat /\ p_edits \in Nat /\ p_tree # {}
      /\ \A c \in Policies!Board : p_head[c] <= p_gits
      /\ p_common = [on |-> p_common.on, barrier |-> p_common.barrier, policy |-> p_common.policy]
  BY DEF PolicyInv, PolicyTyped
<1>3. p_gits' \in Nat /\ p_gits' + p_edits' \in 0..PolicyActs /\ p_gits' # 0 /\ p_gits < PolicyActs
  BY <1>1, <1>2 DEF PolicyParameters
<1>4. p_tree \subseteq Policies!Board /\ p_head \in [Policies!Board -> 0..PolicyActs]
  BY <1>2 DEF Policies!TypeOK
<1>5. /\ p_tree' \subseteq Policies!Board /\ p_tree' # {}
      /\ p_head' \in [Policies!Board -> 0..PolicyActs]
      /\ \A c \in Policies!Board : p_head'[c] <= p_gits'
  <2>1. CASE UNCHANGED p_head
    BY <1>1, <1>2, <1>4, <2>1 DEF Policies!Git, Policies!git
  <2>2. CASE p_tree' = p_tree /\ p_head' = [p_head EXCEPT ![b] = @ + 1]
    <3>1. p_head[b] + 1 \in 0..PolicyActs /\ p_head[b] + 1 <= p_gits + 1
      BY <1>2, <1>3, <1>4 DEF PolicyParameters
    <3>2. \A c \in Policies!Board : p_head[c] <= p_gits + 1
      BY <1>2, <1>4
    <3> QED BY <1>1, <1>2, <1>4, <2>2, <3>1, <3>2
  <2> QED BY <2>1, <2>2 DEF Policies!Git, Policies!git
<1>6. /\ p_receipt' \in [Policies!Board -> Policies!Receipt \cup {None}]
      /\ p_policy' \in [Policies!Board -> Policy \cup {None}]
      /\ p_ids' \in [Policies!Board -> {None, "plain", "bound"}]
      /\ p_journal' \in [Policies!Board -> Policies!Binding \cup {None}]
      /\ \A d \in Policies!Board : p_receipt'[d] # None => SoundPlan(p_receipt'[d].plan)
  <2>1. CASE \E c \in p_tree \cup {None} : Policies!CheckOut(b, c)
    BY <1>1, <2>1, CheckOutStep
  <2>2. CASE UNCHANGED Policies!files
    BY <2>2 DEF Policies!files, PolicyInv, PolicyTyped, Policies!TypeOK, PlansSound
  <2> QED BY <2>1, <2>2 DEF Policies!Git
<1>7. PlansSound'
  BY <1>1, <1>6 DEF PolicyInv, PlansSound
<1>8. PolicyTyped'
  <2>1. \A d \in Policies!Board : p_receipt'[d] # None => Policies!LedgerPlanned(p_receipt'[d].plan)
    BY <1>6 DEF SoundPlan
  <2>2. Policies!TypeOK'
    BY <1>1, <1>2, <1>3, <1>5, <1>6, <2>1 DEF Policies!TypeOK
  <2> QED BY <1>1, <1>2, <1>3, <1>5, <2>2 DEF PolicyTyped
<1>9. SessionSound'
  BY <1>1 DEF PolicyInv, SessionSound
<1> QED BY <1>3, <1>7, <1>8, <1>9 DEF PolicyInv, Policies!Untouched

\* An editor writes a card or a policy file.
LEMMA EditStep ==
  ASSUME PolicyParameters, PolicyInv, NEW b \in Policies!Board, Policies!Edit(b)
  PROVE  PolicyInv'
<1>1. /\ p_gits + p_edits < PolicyActs /\ p_edits' = p_edits + 1
      /\ UNCHANGED <<p_common, p_receipt, p_ids, p_journal, p_tree, p_head, p_minted, p_session,
                     p_stops, p_gits>>
  BY DEF Policies!Edit, Policies!git
<1>2. Policies!TypeOK /\ p_gits \in Nat /\ p_edits \in Nat
  BY DEF PolicyInv, PolicyTyped
<1>3. p_edits' \in Nat /\ p_gits' + p_edits' \in 0..PolicyActs /\ p_edits' # 0
  BY <1>1, <1>2 DEF PolicyParameters
<1>4. /\ p_work' \in [Policies!Board -> {Calm, Held, Other}]
      /\ p_policy' \in [Policies!Board -> Policy \cup {None}]
  <2>1. /\ p_work \in [Policies!Board -> {Calm, Held, Other}]
        /\ p_policy \in [Policies!Board -> Policy \cup {None}]
    BY <1>2 DEF Policies!TypeOK
  <2> QED BY <2>1 DEF Policies!Edit
<1>5. PolicyTyped'
  BY <1>1, <1>3, <1>4 DEF PolicyInv, PolicyTyped, Policies!TypeOK
<1>6. PlansSound' /\ SessionSound'
  BY <1>1 DEF PolicyInv, PlansSound, SessionSound
<1> QED BY <1>3, <1>5, <1>6 DEF PolicyInv, Policies!Untouched

-----------------------------------------------------------------------------
(* The policies' invariant and what follows from it.                       *)

\* Every step keeps the invariant.
LEMMA PolicySteps ==
  ASSUME PolicyParameters, PolicyInv, [Policies!Next]_(Policies!vars) PROVE PolicyInv'
<1>1. CASE Policies!Work
  BY <1>1, SkipCompletedStep, SavePlanStep, PublishPolicyStep, PublishIdsStep, MarkIdsStep,
     PublishJournalStep, CompletePlanStep, FinishStep, RefuseStep DEF Policies!Work
<1>2. CASE Policies!Stop
  BY <1>2, StopStep
<1>3. CASE Policies!EnableShared
  BY <1>3, EnableSharedStep
<1>4. ASSUME NEW b \in Policies!Board, NEW p \in Policy, NEW adopt \in BOOLEAN,
             Policies!ActivateLocal(b, p, adopt) \/ Policies!ReviseLocal(b, p, adopt)
      PROVE  PolicyInv'
  BY <1>4, ActivateLocalStep, ReviseLocalStep
<1>5. ASSUME NEW p \in Policy, NEW adopt \in BOOLEAN,
             \/ Policies!ActivateShared(p, adopt)
             \/ \E e \in Policies!Authority : Policies!ReviseShared(e, p, adopt)
      PROVE  PolicyInv'
  BY <1>5, ActivateSharedStep, ReviseSharedStep
<1>6. ASSUME NEW b \in Policies!Board,
             \/ \E adopt \in BOOLEAN : Policies!Join(b, adopt)
             \/ Policies!ResumeLocal(b) \/ Policies!ResumeShared(b)
             \/ Policies!Ordinary(b) \/ Policies!InitBoard(b) \/ Policies!Git(b)
             \/ Policies!Edit(b)
      PROVE  PolicyInv'
  BY <1>6, JoinStep, ResumeLocalStep, ResumeSharedStep, OrdinaryStep, InitBoardStep, GitStep,
     EditStep
<1>7. CASE UNCHANGED Policies!vars
  <2>1. UNCHANGED <<p_common, p_receipt, p_policy, p_ids, p_journal, p_work, p_tree, p_head,
                    p_minted, p_session, p_stops, p_gits, p_edits>>
    BY <1>7 DEF Policies!vars
  <2>2. PolicyTyped' /\ PlansSound' /\ SessionSound'
    BY <2>1 DEF PolicyInv, PolicyTyped, Policies!TypeOK, PlansSound, SessionSound
  <2>3. (Policies!Untouched => Undisturbed)'
    <3>1. \A c : Policies!PolicyRead(c)' <=> Policies!PolicyRead(c)
      BY <2>1, ReadAsBefore
    <3>2. \A c : Policies!Works(c)' <=> Policies!Works(c)
      BY <2>1, WorksAsBefore
    <3> QED BY <2>1, <3>1, <3>2 DEF PolicyInv, Policies!Untouched, Undisturbed, StageFits
  <2> QED BY <2>2, <2>3 DEF PolicyInv
<1> QED BY <1>1, <1>2, <1>3, <1>4, <1>5, <1>6, <1>7 DEF Policies!Next

\* A journal is only published by the plan at work, and changed by git.
LEMMA WhoWritesJournals ==
  ASSUME PolicyParameters, PolicyInv, [Policies!Next]_(Policies!vars), p_gits' = p_gits,
         p_journal' # p_journal
  PROVE  Policies!PublishJournal
<1>1. CASE Policies!Work
  BY <1>1 DEF Policies!Work, Policies!SkipCompleted, Policies!SavePending, Policies!PublishPolicy,
     Policies!PublishIds, Policies!MarkIds, Policies!Complete, Policies!Finish, Policies!Refuse,
     Policies!files
<1>2. CASE Policies!Stop \/ Policies!EnableShared \/ UNCHANGED Policies!vars
  BY <1>2 DEF Policies!Stop, Policies!EnableShared, Policies!vars, Policies!files
<1>3. ASSUME NEW b \in Policies!Board, NEW p \in Policy, NEW adopt \in BOOLEAN,
             Policies!ActivateLocal(b, p, adopt) \/ Policies!ReviseLocal(b, p, adopt)
      PROVE  FALSE
  BY <1>3 DEF Policies!ActivateLocal, Policies!ReviseLocal, Policies!files
<1>4. ASSUME NEW p \in Policy, NEW adopt \in BOOLEAN,
             \/ Policies!ActivateShared(p, adopt)
             \/ \E e \in Policies!Authority : Policies!ReviseShared(e, p, adopt)
      PROVE  FALSE
  BY <1>4, Zenon
     DEF Policies!ActivateShared, Policies!ReviseShared, Policies!Announce, Policies!files
<1>5. ASSUME NEW b \in Policies!Board, NEW adopt \in BOOLEAN, Policies!Join(b, adopt)
      PROVE  FALSE
  BY <1>5, Zenon DEF Policies!Join, Policies!Announce, Policies!files
<1>6. ASSUME NEW b \in Policies!Board,
             \/ Policies!ResumeLocal(b) \/ Policies!ResumeShared(b)
             \/ Policies!Ordinary(b) \/ Policies!InitBoard(b) \/ Policies!Edit(b)
      PROVE  FALSE
  BY <1>6 DEF Policies!ResumeLocal, Policies!ResumeShared, Policies!Ordinary, Policies!InitBoard,
     Policies!Edit, Policies!files
<1>7. ASSUME NEW b \in Policies!Board, Policies!Git(b) PROVE FALSE
  BY <1>7 DEF Policies!Git, PolicyInv, PolicyTyped
<1> QED BY <1>1, <1>2, <1>3, <1>4, <1>5, <1>6, <1>7 DEF Policies!Next

\* The authority of a board that git left alone moves only along revisions, or
\* to a shared one of the same policy (revisedPolicyJournal).
LEMMA ChainStep ==
  ASSUME PolicyParameters, PolicyInv, [Policies!Next]_(Policies!vars), p_gits' = p_gits,
         NEW b \in Policies!Board, p_journal'[b] # p_journal[b], p_journal[b] # None
  PROVE  Policies!Moves(b)
<1>1. Policies!PublishJournal
  BY WhoWritesJournals
<1>2. PICK x : x = Policies!CurrentPlan
  OBVIOUS
<1>3. /\ Policies!At("journal")
      /\ p_journal' = [p_journal EXCEPT ![Policies!Current] = Policies!TargetJournal(x)]
      /\ Policies!Inspected(Policies!Current, x)
  BY <1>1, <1>2 DEF Policies!PublishJournal
<1>4. /\ SoundPlan(x) /\ x \in Policies!Plan
      /\ p_journal \in [Policies!Board -> Policies!Binding \cup {None}]
  BY <1>2, <1>3, PlanIsAtWork
<1>5. b = Policies!Current /\ p_journal'[b] = Policies!TargetJournal(x)
  BY <1>3, <1>4
<1>6. p_journal[b] = x.journal0
  BY <1>3, <1>5 DEF Policies!Inspected
<1>7. /\ Policies!TargetJournal(x) # None
      /\ Policies!TargetJournal(x).id = x.id /\ Policies!TargetJournal(x).shared = x.shared
      /\ Policies!TargetJournal(x).policy = x.policy
  BY <1>4, TargetTyped
<1>8. x.journal0.revised => Policies!TargetJournal(x).revised
  BY <1>6 DEF Policies!TargetJournal
<1>9. \/ x.previous = x.journal0.id
      \/ x.journal0.policy = x.policy /\ (x.journal0.shared => x.shared /\ x.journal0.id = x.id)
  BY <1>4, <1>6 DEF SoundPlan, Chained
<1> QED BY <1>2, <1>5, <1>6, <1>7, <1>8, <1>9 DEF Policies!Moves

\* No authority of a board is skipped, taken back or lost (revisedPolicyJournal).
THEOREM PolicyChainKept == Behaviour => ChainKept
<1> DEFINE Kept == p_gits' = p_gits => \A b \in Policies!Board :
             p_journal'[b] # p_journal[b] /\ p_journal[b] # None => Policies!Moves(b)
<1>1. Begins => PolicyInv
  BY PolicyBegins, PolicyAssumption DEF Begins
<1>2. [Continues]_all => [Policies!Next]_(Policies!vars)
  <2>1. policies' = policies => Policies!vars' = Policies!vars
    BY DEF policies, Policies!vars
  <2> QED BY <2>1 DEF Continues, all, ForPolicy, ForRejoin
<1>3. PolicyInv /\ [Continues]_all => PolicyInv'
  BY <1>2, PolicySteps, PolicyAssumption
<1>4. PolicyInv /\ [Continues]_all => [Kept]_(Policies!vars)
  BY <1>2, ChainStep, PolicyAssumption
<1>5. ChainKept <=> [][Kept]_(Policies!vars)
  BY DEF ChainKept, Policies!ChainKept
<1> QED BY <1>1, <1>3, <1>4, <1>5, PTL DEF Behaviour

\* A change is declared active only when every worktree took it, and types
\* (finishSharedPolicyChange).
THEOREM PolicyActiveIsComplete == Behaviour => []ActiveIsComplete
<1>1. Begins => PolicyInv
  BY PolicyBegins, PolicyAssumption DEF Begins
<1>2. [Continues]_all => [Policies!Next]_(Policies!vars)
  <2>1. policies' = policies => Policies!vars' = Policies!vars
    BY DEF policies, Policies!vars
  <2> QED BY <2>1 DEF Continues, all, ForPolicy, ForRejoin
<1>3. PolicyInv /\ [Continues]_all => PolicyInv'
  BY <1>2, PolicySteps, PolicyAssumption
<1>4. PolicyInv => ActiveIsComplete
  BY DEF PolicyInv, PolicyTyped, Undisturbed, ActiveIsComplete, Policies!ActiveIsComplete
<1> QED BY <1>1, <1>3, <1>4, PTL DEF Behaviour

=============================================================================
