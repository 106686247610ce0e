--------------------------- MODULE PolicyAuthority ---------------------------
(***************************************************************************)
(* Board policies: their activation, their revision, and the joining of    *)
(* other worktrees (internal/taskstore: policy_*.go, module_adoption_*.go).*)
(*                                                                         *)
(* A policy in force is an authority, a number nobody used before.  It     *)
(* stands in four files of a board: the activation receipt, the policy,    *)
(* the identifier ledger it needs, and the journal that names it.  In a    *)
(* repository with shared identifiers the common state names it too, and a *)
(* change is announced there first, with a plan for every worktree.  Each  *)
(* plan keeps what its board looked like; every step checks that the board *)
(* is still there or already where the plan leads, and never plans anew.   *)
(*                                                                         *)
(* The bytes of policies, journals and ledgers are abstracted to what is   *)
(* compared: which policy, which authority, whether history was kept,      *)
(* whether the ledger is bound to the namespace.  A board's cards and      *)
(* claims are its work.  The archive binding of a plan is left out.        *)
(***************************************************************************)
EXTENDS Naturals, FiniteSets

CONSTANTS
  Boards,         \* how many worktrees there can be
  Policy,
  Modular,        \* the policies that declare modules
  Calm, Held, Other,   \* states of a board's work; Held has a held claim
  None, NoSession,
  MaxAuthority,   \* bound: authorities
  MaxStops,       \* bound: commands that are killed or fail
  MaxActs,        \* bound: acts of git and of editors
  MaxBusy         \* bound: boards whose work ordinary commands have changed

VARIABLES
  common,     \* state.json: shared identifiers on, the policy, its protocol
  receipt,    \* each board's policy-activation.json
  policy,     \* each board's policy.json
  ids,        \* each board's ids.json
  journal,    \* the authority each board's transition journal names
  work,       \* the cards and claims of each board
  tree, head, \* git: the registered worktrees and their commits
  minted,     \* authorities created so far
  session,    \* the policy command that holds the locks
  stops, gits, edits

files == <<receipt, policy, ids, journal>>
git == <<tree, head>>
bounds == <<stops, gits, edits>>
vars == <<common, receipt, policy, ids, journal, work, tree, head, minted, session,
          stops, gits, edits>>

Board == 1..Boards   \* in the order of their paths
Authority == 1..MaxAuthority
Initial == 0         \* the previous authority of a first activation

-----------------------------------------------------------------------------
(* Types.                                                                  *)

\* policyAuthorityBinding with the digest; revised is journal schema 4, whose
\* history keeps the policies of earlier authorities.
Binding == [id : Authority, shared : BOOLEAN, policy : Policy, revised : BOOLEAN]

\* What the hash of a receipt tells apart.
Imprint == [id : Authority, root : Board, phase : {"pending", "ids-published", "completed"}]

\* policyActivationState without its phase: the authority and the board's plan.
Plan ==
  [id : Authority, shared : BOOLEAN, policy : Policy, previous : Authority \cup {Initial},
   adopt : BOOLEAN, root : Board, head : 0..MaxActs, snapshot : {Calm, Other},
   journal0 : Binding \cup {None}, policy0 : Policy \cup {None},
   receipt0 : Imprint \cup {None}, ids0 : {None, "plain", "bound"}, ids1 : {"plain", "bound"}]

Receipt == [phase : {"pending", "ids-published", "completed"}, plan : Plan]

\* sharedPolicyAuthority; the pending plans are in the order of their roots.
Common ==
  [id : Authority, policy : Policy, previous : Authority \cup {Initial},
   phase : {"initializing", "joining", "revising", "active"}, pending : SUBSET Plan]

Steps == {"receipt", "policy", "ids", "mark", "journal", "complete", "finish"}

\* validateModuleIDPlan: a ledger is created only for modules, and never loses
\* the namespace it is bound to.
LedgerPlanned(x) ==
  /\ x.ids0 = None => x.adopt
  /\ x.ids0 = "bound" => x.ids1 = "bound"
  /\ x.shared = (x.ids1 = "bound")

TypeOK ==
  /\ common.on \in BOOLEAN /\ common.barrier \in BOOLEAN
  /\ common.policy = None \/
       /\ common.policy \in Common
       /\ \A x, y \in common.policy.pending : x.root = y.root => x = y
       /\ (common.policy.phase = "active") = (common.policy.pending = {})
       /\ common.policy.phase = "joining" => Cardinality(common.policy.pending) = 1
  /\ receipt \in [Board -> Receipt \cup {None}]
  /\ \A b \in Board : receipt[b] # None => LedgerPlanned(receipt[b].plan)
  /\ policy \in [Board -> Policy \cup {None}]
  /\ ids \in [Board -> {None, "plain", "bound"}]
  /\ journal \in [Board -> Binding \cup {None}]
  /\ work \in [Board -> {Calm, Held, Other}]
  /\ tree \subseteq Board /\ head \in [Board -> 0..MaxActs]
  /\ minted \in 0..MaxAuthority
  /\ session = NoSession \/
       /\ session.plans \subseteq Plan /\ session.at \in Steps
       /\ session.todo \subseteq {x.root : x \in session.plans}
  /\ stops \in 0..MaxStops /\ gits + edits \in 0..MaxActs

-----------------------------------------------------------------------------
(* What commands read.                                                     *)

Hash(r) == IF r = None THEN None ELSE [id |-> r.plan.id, root |-> r.plan.root, phase |-> r.phase]

\* verifyPolicyActivation: the board's own completed receipt and its journal
\* name one authority.
ActivationVerified(b) ==
  IF receipt[b] = None THEN journal[b] = None
  ELSE LET p == receipt[b].plan IN
       /\ receipt[b].phase = "completed" /\ p.root = b
       /\ journal[b] # None /\ ids[b] # None
       /\ <<journal[b].id, journal[b].shared, journal[b].policy>> = <<p.id, p.shared, p.policy>>
       /\ p.previous # Initial => journal[b].revised

\* policyForJournal.
PolicyRead(b) ==
  /\ ActivationVerified(b)
  /\ policy[b] = IF journal[b] = None THEN None ELSE journal[b].policy

\* verifyPolicyAuthority and policyForJournal, before every ordinary command.
Works(b) ==
  /\ PolicyRead(b)
  /\ IF common.policy = None THEN journal[b] # None => ~journal[b].shared
     ELSE /\ common.policy.phase = "active"
          /\ journal[b] # None
          /\ journal[b].revised => common.barrier
          /\ journal[b].shared /\ journal[b].id = common.policy.id
          /\ journal[b].policy = common.policy.policy
          /\ ids[b] = "bound"

-----------------------------------------------------------------------------
(* Plans.                                                                  *)

\* validateModuleScopeChange.
ScopeAllowed(old, new, adopt) ==
  /\ old \in Modular => new \in Modular
  /\ new \in Modular \ {old} /\ old \notin Modular => adopt
  /\ adopt => new \in Modular

\* prepareModuleIDs: only the adoption of modules may create the ledger.
IdsPlannable(b, shared, adopt) ==
  /\ ids[b] = None => adopt
  /\ ids[b] = "bound" => shared

\* policyActivationSnapshotForBinding: no claim is held.
Plannable(b, shared, adopt) == work[b] # Held /\ IdsPlannable(b, shared, adopt)

\* The policy a first activation departs from: the default one, or the same.
Departure(b, p) == IF journal[b] # None /\ journal[b].policy = p THEN p ELSE None

\* preparePolicyChangeWithModules.
Planned(b, id, shared, p, previous, adopt) ==
  [id |-> id, shared |-> shared, policy |-> p, previous |-> previous, adopt |-> adopt,
   root |-> b, head |-> head[b], snapshot |-> work[b],
   journal0 |-> journal[b], policy0 |-> policy[b], receipt0 |-> Hash(receipt[b]),
   ids0 |-> ids[b],
   ids1 |-> IF shared THEN "bound" ELSE "plain"]

\* policyJournalForSharedAdoption: a board with no policy, or one whose files
\* name the same policy under a local authority or under this very one.
\* The receipt may be another board's: this is how a copy is adopted.
Adoptable(b, p) ==
  IF journal[b] = None THEN PolicyRead(b)
  ELSE /\ receipt[b] # None /\ receipt[b].phase = "completed"
       /\ <<journal[b].id, journal[b].shared, journal[b].policy>> =
            <<receipt[b].plan.id, receipt[b].plan.shared, receipt[b].plan.policy>>
       /\ journal[b].policy = p /\ policy[b] = p
       /\ journal[b].shared =>
            /\ common.policy # None /\ common.policy.id = journal[b].id
            /\ journal[b].revised => common.barrier

\* Mutant of TargetJournal: the history of an adopted copy is forgotten.
TargetJournalForgets(x) ==
  [id |-> x.id, shared |-> x.shared, policy |-> x.policy, revised |-> x.previous # Initial]

\* The journal a plan leads to (revisedPolicyJournal, reconstructPolicyTarget).
TargetJournal(x) ==
  [id |-> x.id, shared |-> x.shared, policy |-> x.policy,
   revised |-> x.previous # Initial \/ (x.journal0 # None /\ x.journal0.revised)]

Started(b, x) ==
  receipt[b] # None /\ receipt[b].plan = x

Published(b, x) == x.adopt /\ Started(b, x) /\ receipt[b].phase = "ids-published"

Completed(b, x) == Started(b, x) /\ receipt[b].phase = "completed"

\* inspectPolicyActivationPlan: every file is where the plan found it or where
\* it leads, and none is ahead of the file that is written before it.
Inspected(b, x) ==
  LET replaced == journal[b] = TargetJournal(x) /\ x.journal0 # TargetJournal(x) IN
  /\ journal[b] \in {x.journal0, TargetJournal(x)}
  /\ work[b] = x.snapshot
  /\ ids[b] = None => x.adopt /\ x.ids0 = None
  /\ ids[b] \in {x.ids0, x.ids1}
  /\ Published(b, x) => ids[b] = x.ids1
  /\ ids[b] # x.ids0 => Started(b, x)
  /\ ~Started(b, x) => Hash(receipt[b]) = x.receipt0 /\ policy[b] = x.policy0
  /\ policy[b] \in {x.policy, x.policy0}
  /\ replaced => Started(b, x) /\ policy[b] = x.policy
  /\ replaced \/ Completed(b, x) => ids[b] = x.ids1
  /\ Completed(b, x) => journal[b] = TargetJournal(x)

\* verifySharedPolicyInventory and openSharedPolicyBoards.
Inventoried(plans, phase) ==
  /\ {x.root : x \in plans} \subseteq tree
  /\ phase # "joining" => tree = {x.root : x \in plans}
  /\ \A x \in plans : head[x.root] = x.head

-----------------------------------------------------------------------------
(* Requests.                                                               *)

Init ==
  /\ common \in [on : BOOLEAN, barrier : {FALSE}, policy : {None}]
  /\ receipt = [b \in Board |-> None] /\ policy = [b \in Board |-> None]
  /\ journal = [b \in Board |-> None]
  /\ ids \in {[b \in Board |-> i] : i \in IF common.on THEN {"bound"} ELSE {None, "plain"}}
  /\ work = [b \in Board |-> Calm]
  /\ tree \in {Board, {1}} /\ head = [b \in Board |-> 0]
  /\ minted = 0 /\ session = NoSession
  /\ stops = 0 /\ gits = 0 /\ edits = 0

Begin(plans) ==
  session' = [plans |-> plans, todo |-> {x.root : x \in plans}, at |-> "receipt"]

Unclaimed == session = NoSession /\ minted < MaxAuthority

\* activateLocalPolicyWithOptions and reviseLocalPolicy: the first attempt.
ActivateLocal(b, p, adopt) ==
  /\ Unclaimed /\ b \in tree /\ ~common.on
  /\ receipt[b] = None /\ PolicyRead(b)
  /\ ScopeAllowed(None, p, adopt) /\ Plannable(b, FALSE, adopt)
  /\ Begin({Planned(b, minted + 1, FALSE, p, Initial, adopt)})
  /\ minted' = minted + 1
  /\ UNCHANGED <<common, files, work, git, bounds>>

ReviseLocal(b, p, adopt) ==
  /\ Unclaimed /\ b \in tree /\ ~common.on
  /\ receipt[b] # None /\ ~receipt[b].plan.shared
  /\ PolicyRead(b) /\ p # receipt[b].plan.policy
  /\ ScopeAllowed(receipt[b].plan.policy, p, adopt) /\ Plannable(b, FALSE, adopt)
  /\ Begin({Planned(b, minted + 1, FALSE, p, receipt[b].plan.id, adopt)})
  /\ minted' = minted + 1
  /\ UNCHANGED <<common, files, work, git, bounds>>

\* The same request with --resume; it repeats what the receipt says.
ResumeLocal(b) ==
  /\ session = NoSession /\ b \in tree /\ ~common.on
  /\ receipt[b] # None /\ receipt[b].phase # "completed"
  /\ ~receipt[b].plan.shared /\ receipt[b].plan.root = b
  /\ Begin({receipt[b].plan})
  /\ UNCHANGED <<common, files, work, git, minted, bounds>>

\* publishSharedState with the pending plans: the announcement.
Announce(phase, p, id, previous, plans, barrier) ==
  /\ common' = [common EXCEPT !.barrier = @ \/ barrier,
       !.policy = [id |-> id, policy |-> p, previous |-> previous, phase |-> phase,
                   pending |-> plans]]
  /\ Begin(plans)
  /\ UNCHANGED <<files, work, git, bounds>>

\* Mutant of ActivateShared: the first activation is treated like a join.
ActivateSharedAlone(p, adopt) ==
  /\ Unclaimed /\ common.on /\ common.policy = None
  /\ \E b \in tree :
       /\ Adoptable(b, p) /\ Plannable(b, TRUE, adopt)
       /\ ScopeAllowed(Departure(b, p), p, adopt)
       /\ Announce("joining", p, minted + 1, Initial,
            {Planned(b, minted + 1, TRUE, p, Initial, adopt)}, FALSE)
  /\ minted' = minted + 1

\* activateSharedPolicy and prepareSharedPolicy: with --all-worktrees, every
\* registered worktree adopts the policy.
ActivateShared(p, adopt) ==
  /\ Unclaimed /\ common.on /\ common.policy = None
  /\ \A b \in tree : Adoptable(b, p) /\ Plannable(b, TRUE, adopt)
                     /\ ScopeAllowed(Departure(b, p), p, adopt)
  /\ Announce("initializing", p, minted + 1, Initial,
       {Planned(b, minted + 1, TRUE, p, Initial, adopt) : b \in tree},
       \E b \in tree : journal[b] # None /\ journal[b].revised)
  /\ minted' = minted + 1

\* A worktree that came later joins; the others are not touched.
Join(b, adopt) ==
  LET p == common.policy.policy IN
  /\ session = NoSession /\ b \in tree
  /\ common.policy # None /\ common.policy.phase = "active"
  /\ ~(receipt[b] # None /\ receipt[b].plan.root = b /\ receipt[b].plan.shared)
  /\ Adoptable(b, p) /\ Plannable(b, TRUE, adopt) /\ ScopeAllowed(Departure(b, p), p, adopt)
  /\ Announce("joining", p, common.policy.id, common.policy.previous,
       {Planned(b, common.policy.id, TRUE, p, Initial, adopt)},
       journal[b] # None /\ journal[b].revised)
  /\ UNCHANGED minted

\* reviseSharedPolicy: compare-and-swap on the authority, and every worktree
\* must be working under it.
ReviseShared(expected, p, adopt) ==
  /\ Unclaimed /\ common.policy # None /\ common.policy.phase = "active"
  /\ expected = common.policy.id /\ p # common.policy.policy
  /\ \A b \in tree : Works(b) /\ Plannable(b, TRUE, adopt)
  /\ ScopeAllowed(common.policy.policy, p, adopt)
  /\ Announce("revising", p, minted + 1, expected,
       {Planned(b, minted + 1, TRUE, p, expected, adopt) : b \in tree}, TRUE)
  /\ minted' = minted + 1

\* The announced change, resumed: a join only from its own board.
ResumeShared(b) ==
  /\ session = NoSession /\ b \in tree
  /\ common.policy # None /\ common.policy.phase # "active"
  /\ common.policy.phase = "joining" => \A x \in common.policy.pending : x.root = b
  /\ Inventoried(common.policy.pending, common.policy.phase)
  /\ \A x \in common.policy.pending : Inspected(x.root, x)
  /\ Begin(common.policy.pending)
  /\ UNCHANGED <<common, files, work, git, minted, bounds>>

-----------------------------------------------------------------------------
(* applyPolicyActivationPlan, board after board.                           *)

At(step) == session # NoSession /\ session.at = step

Current == CHOOSE b \in session.todo : \A c \in session.todo : b <= c

CurrentPlan == CHOOSE x \in session.plans : x.root = Current

Go(step) == session' = [session EXCEPT !.at = step]

\* The next board, the common state, or the end of a local change.
Leave ==
  LET rest == session.todo \ {Current} IN
  session' = IF rest # {} THEN [session EXCEPT !.todo = rest, !.at = "receipt"]
             ELSE IF CurrentPlan.shared
                  THEN [session EXCEPT !.todo = {}, !.at = "finish"]
                  ELSE NoSession

Save(phase) == receipt' = [receipt EXCEPT ![Current] = [phase |-> phase, plan |-> CurrentPlan]]

SkipCompleted ==
  /\ At("receipt") /\ Inspected(Current, CurrentPlan) /\ Completed(Current, CurrentPlan)
  /\ Leave
  /\ UNCHANGED <<common, files, work, git, minted, bounds>>

SavePending ==
  /\ At("receipt") /\ Inspected(Current, CurrentPlan) /\ ~Completed(Current, CurrentPlan)
  /\ IF Published(Current, CurrentPlan) THEN UNCHANGED receipt ELSE Save("pending")
  /\ Go("policy")
  /\ UNCHANGED <<common, policy, ids, journal, work, git, minted, bounds>>

\* A policy in place is only replaced by its revision.
PublishPolicy ==
  /\ At("policy") /\ Inspected(Current, CurrentPlan)
  /\ policy[Current] \notin {None, CurrentPlan.policy} => CurrentPlan.previous # Initial
  /\ policy' = [policy EXCEPT ![Current] = CurrentPlan.policy]
  /\ Go("ids")
  /\ UNCHANGED <<common, receipt, ids, journal, work, git, minted, bounds>>

PublishIds ==
  /\ At("ids") /\ Inspected(Current, CurrentPlan)
  /\ ids' = [ids EXCEPT ![Current] = CurrentPlan.ids1]
  /\ Go("mark")
  /\ UNCHANGED <<common, receipt, policy, journal, work, git, minted, bounds>>

\* The adoption of modules remembers that its ledger is out.
MarkIds ==
  /\ At("mark")
  /\ IF CurrentPlan.adopt THEN Save("ids-published") ELSE UNCHANGED receipt
  /\ Go("journal")
  /\ UNCHANGED <<common, policy, ids, journal, work, git, minted, bounds>>

PublishJournal ==
  /\ At("journal") /\ Inspected(Current, CurrentPlan)
  /\ journal' = [journal EXCEPT ![Current] = TargetJournal(CurrentPlan)]
  /\ Go("complete")
  /\ UNCHANGED <<common, receipt, policy, ids, work, git, minted, bounds>>

Complete ==
  /\ At("complete") /\ Inspected(Current, CurrentPlan)
  /\ Save("completed") /\ Leave
  /\ UNCHANGED <<common, policy, ids, journal, work, git, minted, bounds>>

AllDone ==
  /\ Inventoried(session.plans, common.policy.phase)
  /\ \A x \in session.plans : Inspected(x.root, x) /\ Completed(x.root, x)

\* The end of finishSharedPolicyChange.
Finish ==
  /\ At("finish") /\ AllDone
  /\ common' = [common EXCEPT !.policy.phase = "active", !.policy.pending = {}]
  /\ session' = NoSession
  /\ UNCHANGED <<files, work, git, minted, bounds>>

-----------------------------------------------------------------------------
(* What else happens.                                                      *)

Refused ==
  IF session.at = "finish" THEN ~AllDone
  ELSE session.at # "mark" /\
    \/ ~Inspected(Current, CurrentPlan)
    \/ session.at = "policy" /\ CurrentPlan.previous = Initial
       /\ policy[Current] \notin {None, CurrentPlan.policy}

Refuse ==
  /\ session # NoSession /\ Refused
  /\ session' = NoSession
  /\ UNCHANGED <<common, files, work, git, minted, bounds>>

\* A write fails, or the process is killed; its locks are removed by hand.
Stop ==
  /\ session # NoSession /\ stops < MaxStops
  /\ session' = NoSession /\ stops' = stops + 1
  /\ UNCHANGED <<common, files, work, git, minted, gits, edits>>

\* Ordinary commands change cards and claims; where identifiers are shared
\* the first of them binds the board's ledger (SharedIds).
Ordinary(b) ==
  /\ session = NoSession /\ b \in tree /\ Works(b) /\ ids[b] # None
  /\ \E w \in {Calm, Held, Other} \ {work[b]} : work' = [work EXCEPT ![b] = w]
  /\ Cardinality({c \in Board : work'[c] # Calm}) <= MaxBusy
  /\ ids' = [ids EXCEPT ![b] = IF common.on THEN "bound" ELSE @]
  /\ UNCHANGED <<common, receipt, policy, journal, git, minted, session, bounds>>

\* ids of a new board (init) and enable-shared, in one step here.
InitBoard(b) ==
  /\ session = NoSession /\ b \in tree /\ Works(b) /\ ids[b] = None
  /\ ids' = [ids EXCEPT ![b] = IF common.on THEN "bound" ELSE "plain"]
  /\ UNCHANGED <<common, receipt, policy, journal, work, git, minted, session, bounds>>

EnableShared ==
  /\ session = NoSession /\ ~common.on
  /\ \A b \in tree : Works(b) /\ ids[b] # None
  /\ common' = [common EXCEPT !.on = TRUE]
  /\ ids' = [b \in Board |-> IF b \in tree THEN "bound" ELSE ids[b]]
  /\ UNCHANGED <<receipt, policy, journal, work, git, minted, session, bounds>>

\* The tracked files of a worktree become those committed by another, or those
\* of a commit without a policy.
CheckOut(b, c) ==
  /\ receipt' = [receipt EXCEPT ![b] = IF c = None THEN None ELSE receipt[c]]
  /\ policy' = [policy EXCEPT ![b] = IF c = None THEN None ELSE policy[c]]
  /\ journal' = [journal EXCEPT ![b] = IF c = None THEN None ELSE journal[c]]
  /\ ids' = [ids EXCEPT ![b] = IF c = None THEN "plain" ELSE ids[c]]

\* git worktree add; git restore in a worktree; a commit or a checkout that
\* leaves the board's files alone; git worktree remove.
Git(b) ==
  /\ gits + edits < MaxActs /\ gits' = gits + 1
  /\ \/ /\ b \notin tree /\ tree' = tree \cup {b}
        /\ \E c \in tree \cup {None} : CheckOut(b, c)
        /\ UNCHANGED head
     \/ /\ b \in tree /\ \E c \in (tree \ {b}) \cup {None} : CheckOut(b, c)
        /\ UNCHANGED git
     \/ /\ b \in tree /\ head' = [head EXCEPT ![b] = @ + 1]
        /\ UNCHANGED <<tree, files>>
     \/ /\ b \in tree /\ tree # {b} /\ tree' = tree \ {b}
        /\ UNCHANGED <<head, files>>
  /\ UNCHANGED <<common, work, minted, session, stops, edits>>

\* An editor changes a card, or a policy file.
Edit(b) ==
  /\ gits + edits < MaxActs /\ edits' = edits + 1
  /\ \/ /\ \E w \in {Calm, Other} \ {work[b]} : work' = [work EXCEPT ![b] = w]
        /\ UNCHANGED policy
     \/ /\ \E p \in (Policy \cup {None}) \ {policy[b]} : policy' = [policy EXCEPT ![b] = p]
        /\ UNCHANGED work
  /\ UNCHANGED <<common, receipt, ids, journal, git, minted, session, stops, gits>>

Work ==
  \/ SkipCompleted \/ SavePending \/ PublishPolicy \/ PublishIds \/ MarkIds
  \/ PublishJournal \/ Complete \/ Finish \/ Refuse

Next ==
  \/ Work \/ Stop \/ EnableShared
  \/ \E b \in Board, p \in Policy, adopt \in BOOLEAN :
       ActivateLocal(b, p, adopt) \/ ReviseLocal(b, p, adopt)
  \/ \E p \in Policy, adopt \in BOOLEAN :
       ActivateShared(p, adopt) \/ \E e \in Authority : ReviseShared(e, p, adopt)
  \/ \E b \in Board :
       \/ \E adopt \in BOOLEAN : Join(b, adopt)
       \/ ResumeLocal(b) \/ ResumeShared(b)
       \/ Ordinary(b) \/ InitBoard(b) \/ Git(b) \/ Edit(b)

\* A command goes on until it ends, and a pending change is resumed.
Fairness ==
  /\ WF_vars(Work)
  /\ \A b \in Board : WF_vars(ResumeLocal(b)) /\ WF_vars(ResumeShared(b))

Spec == Init /\ [][Next]_vars /\ Fairness

-----------------------------------------------------------------------------
(* Properties.                                                             *)

Untouched == gits = 0 /\ edits = 0

\* A change is declared active only when every worktree took it: unless git or
\* an editor meddled, all of them then work, under that authority
\* (finishSharedPolicyChange, inspectPolicyActivationPlan).
ActiveIsComplete ==
  Untouched /\ common.policy # None /\ common.policy.phase = "active" =>
    \A b \in tree : Works(b)

\* The authority of a board that git left alone moves only along revisions, or
\* from a local authority to a shared one of the same policy; it is never
\* skipped, taken back or lost, nor is the history it keeps
\* (revisedPolicyJournal, policyJournalForSharedAdoption).
Moves(b) ==
  LET old == journal[b] new == journal'[b] IN
  /\ new # None /\ (old.revised => new.revised)
  /\ \/ CurrentPlan.previous = old.id /\ CurrentPlan.id = new.id
     \/ new.policy = old.policy /\ (old.shared => new.shared /\ new.id = old.id)

ChainKept ==
  [][gits' = gits => \A b \in Board :
       journal'[b] # journal[b] /\ journal[b] # None => Moves(b)]_vars

Unfinished ==
  \/ common.policy # None /\ common.policy.phase # "active"
  \/ \E b \in tree : receipt[b] # None /\ receipt[b].phase # "completed"

Settled == ~Unfinished \/ ~Untouched

\* What was begun is finished by its own request, unless git or an editor
\* changed what was planned on (--resume).
Resumed == Unfinished ~> Settled

=============================================================================
