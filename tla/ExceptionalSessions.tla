------------------------ MODULE ExceptionalSessions ------------------------
(***************************************************************************)
(* The two operations that stop the other commands of a repository while   *)
(* they are pending: a change of policy and a rejoin.  A behaviour is that *)
(* of one of them, and the files of the other rest; that a pending one     *)
(* refuses the other is in neither module.                                 *)
(***************************************************************************)
EXTENDS Naturals, FiniteSets

CONSTANTS
  None, NoSession,
  Boards, Policy, Modular, Calm, Held, Other,               \* PolicyAuthority
  MaxAuthority, PolicyStops, PolicyActs, MaxBusy,
  Target, Source, Third, Rejoins, MaxId, RejoinFaults, MaxWrites   \* OwnerRejoin

VARIABLES
  which,   \* the operation of this behaviour
  p_common, p_receipt, p_policy, p_ids, p_journal, p_work, p_tree, p_head, p_minted,
  p_session, p_stops, p_gits, p_edits,
  r_same, r_home, r_clone, r_file, r_ledger, r_receipt, r_stored, r_plan, r_refs,
  r_gave, r_session, r_acts, r_stops

policies == <<p_common, p_receipt, p_policy, p_ids, p_journal, p_work, p_tree, p_head,
              p_minted, p_session, p_stops, p_gits, p_edits>>
rejoins == <<r_same, r_home, r_clone, r_file, r_ledger, r_receipt, r_stored, r_plan,
             r_refs, r_gave, r_session, r_acts, r_stops>>
all == <<which, policies, rejoins>>

Policies == INSTANCE PolicyAuthority WITH
  MaxStops <- PolicyStops, MaxActs <- PolicyActs,
  common <- p_common, receipt <- p_receipt, policy <- p_policy, ids <- p_ids,
  journal <- p_journal, work <- p_work, tree <- p_tree, head <- p_head,
  minted <- p_minted, session <- p_session, stops <- p_stops, gits <- p_gits,
  edits <- p_edits

Rejoining == INSTANCE OwnerRejoin WITH
  MaxFaults <- RejoinFaults,
  same <- r_same, home <- r_home, clone <- r_clone, file <- r_file,
  ledger <- r_ledger, receipt <- r_receipt, stored <- r_stored, plan <- r_plan,
  refs <- r_refs, gave <- r_gave, session <- r_session, acts <- r_acts,
  stops <- r_stops

\* Bounds are numbers, and None and NoSession nothing that is kept in files or
\* in memory.
PolicyParameters ==
  /\ Boards \in Nat \ {0} /\ MaxAuthority \in Nat /\ PolicyStops \in Nat /\ PolicyActs \in Nat
  /\ None \notin Policies!Common \cup Policies!Receipt \cup Policies!Binding \cup {"plain", "bound"}
  /\ NoSession \notin [plans : SUBSET Policies!Plan, todo : SUBSET Policies!Board,
                       at : Policies!Steps]

ASSUME PolicyAssumption == PolicyParameters

\* Bounds are numbers, the source is no target, and None and NoSession no
\* rejoins or records.
RejoinParameters ==
  /\ Source \notin Target
  /\ Rejoins \in Nat /\ MaxId \in Nat \ {0} /\ RejoinFaults \in Nat /\ MaxWrites \in Nat
  /\ None \notin Rejoining!Rejoin \cup Rejoining!State \cup Rejoining!Plan \cup Rejoining!Receipt
  /\ NoSession \notin [of : Rejoining!Rejoin, at : Rejoining!Steps, refs : 0..RejoinFaults]

ASSUME RejoinAssumption == RejoinParameters

-----------------------------------------------------------------------------
ForPolicy == which = "policy" /\ UNCHANGED <<which, rejoins>>
ForRejoin == which = "rejoin" /\ UNCHANGED <<which, policies>>

\* What rests does so in one state.
Begins ==
  /\ which \in {"policy", "rejoin"}
  /\ Policies!Init
  /\ which # "policy" => ~p_common.on /\ p_tree = {1} /\ \A b \in Policies!Board : p_ids[b] = None
  /\ Rejoining!Init /\ (which # "rejoin" => ~r_same /\ r_home.reserved = {})

Continues == (ForPolicy /\ Policies!Next) \/ (ForRejoin /\ Rejoining!Next)

\* The fairness of each module: a command goes on until it ends, and what is
\* pending is asked for again.
Works == (ForPolicy /\ Policies!Work) \/ (ForRejoin /\ Rejoining!Work)

Fairly ==
  /\ WF_all(Works)
  /\ \A b \in Policies!Board :
       /\ WF_all(ForPolicy /\ Policies!ResumeLocal(b))
       /\ WF_all(ForPolicy /\ Policies!ResumeShared(b))
  /\ \A p \in Rejoining!Rejoin :
       SF_all(ForRejoin /\ (Rejoining!ApplySame(p) \/ Rejoining!ApplyClone(p)))

Behaviour == Begins /\ [][Continues]_all /\ Fairly

-----------------------------------------------------------------------------
(* Properties, of the operations' own modules.                             *)

\* Types, and a policy is declared active only when every worktree took it
\* (finishSharedPolicyChange).
ActiveIsComplete == Policies!TypeOK /\ Policies!ActiveIsComplete

\* A board's authority moves only along revisions (revisedPolicyJournal).
ChainKept == Policies!ChainKept

\* A rejoined board is let in only when it is whole (ownerRejoinCompletedLocal).
LetInWhole == Rejoining!LetInWhole

\* Types, and a board that came back gives out no identifier that was known
\* when it was planned (OwnerRejoinCloneReservationEvidence).
NotReissued == Rejoining!TypeOK /\ Rejoining!NotReissued

Unfinished == Policies!Unfinished \/ Rejoining!SomeUnfinished

\* What was begun is finished by its own request, whatever was killed, unless
\* git or an editor changed what was planned on (the same activation or rejoin).
Resumed ==
  Unfinished ~> Policies!Settled /\ Rejoining!Settled

=============================================================================
