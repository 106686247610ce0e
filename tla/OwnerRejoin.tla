----------------------------- MODULE OwnerRejoin -----------------------------
(***************************************************************************)
(* A board that was copied with its history comes back under its own name  *)
(* (internal/taskstore: owner_rejoin*.go).                                 *)
(*                                                                         *)
(* The copy's journals, ledger and receipts still name the board they were *)
(* copied from, and every command refuses them.  A plan, prepared from the *)
(* source, holds for each file the bytes it must have and the bytes that   *)
(* name the target.  Its application first stores the plan and its payload *)
(* at the target, writes a pending receipt, and announces itself in the    *)
(* common state, where it stops all other commands; then it replaces file  *)
(* after file, looks at everything again, completes the receipt and clears *)
(* the announcement.  The transition journal goes first and carries the    *)
(* storage protocol 6, which a board admits only with a completed receipt. *)
(* Repeating the same command is also how a killed one is resumed.         *)
(*                                                                         *)
(* The target is a worktree of the same repository, and then joins the     *)
(* source's common state, or of an independent clone, for which a common   *)
(* state is created.  A file is abstracted to the plan that wrote it and   *)
(* how often it was written since; identifiers are numbers, and the floors *)
(* of their reservation are left out, as are policies.                     *)
(***************************************************************************)
EXTENDS Naturals, FiniteSets

CONSTANTS
  Target,      \* the boards that may be rejoined
  Source,      \* the board they are copies of
  Rejoins,     \* bound: how many rejoins are prepared
  None, Third, NoSession,
  MaxId,       \* bound: identifiers
  MaxFaults,   \* bound: acts of git and of editors, and commands killed
  MaxWrites    \* bound: ordinary writes of each board

VARIABLES
  same,      \* whether target and source share a repository
  home,      \* the common state of the source's repository
  clone,     \* the one of the target's, when it has its own
  file,      \* what stands in each file of each board
  ledger,    \* the identifiers in each board's ids.json
  receipt,   \* each target's owner-rejoin.json
  stored,    \* each target's plan, payload and capacity artifacts
  plan,      \* what was prepared, by rejoin ID
  refs,      \* the refs and worktrees of the target's repository
  gave,      \* the identifiers given out by each board's commands
  session,   \* the rejoin command that holds the locks
  acts, stops

boards == <<file, ledger, receipt, stored>>
vars == <<same, home, clone, file, ledger, receipt, stored, plan, refs, gave, session,
          acts, stops>>

Board == Target \cup {Source}
Rejoin == 1..Rejoins   \* their IDs, in the order of their preparation
Id == 1..MaxId

\* The publication classes, "rest" for repairs, relocations, archive, capacity
\* and policy; the archived cards are bound by the plan and never written.
Class == {"transitions", "ids", "rest"}
File == Class \cup {"cards"}

Artifact == {"plan", "payload", "capacity"}

Steps == {"plan", "payload", "receipt", "announce", "transitions", "ids", "capacity",
          "rest", "revalidate", "complete", "clear"}

-----------------------------------------------------------------------------
(* Types.                                                                  *)

\* Written by a plan, or by the source (None); an editor's bytes are Third.
Content == [by : Rejoin \cup {None, Third}, writes : 0..MaxWrites]

\* known, for the properties only: all identifiers given out by then.
Plan ==
  [target : Target, originals : [File -> Content], refs : 0..MaxFaults,
   ids : SUBSET Id, additional : SUBSET Id, known : SUBSET Id]

Receipt == [of : Rejoin, phase : {"pending", "completed"}]

\* Of the participants only those that were rejoined; the source is always one.
State ==
  [protocol : {5, 6}, reserved : SUBSET Id, joined : SUBSET Rejoin,
   pending : Rejoin \cup {None}, done : SUBSET Rejoin]

\* validateOwnerRejoinShared: protocol 6 and rejoins come together, and what
\* is pending or done has its participant.
Decoded(s) ==
  /\ (s.protocol = 6) = (s.joined # {})
  /\ s.joined = s.done \cup ({s.pending} \ {None})
  /\ s.pending \notin s.done

TypeOK ==
  /\ same \in BOOLEAN
  /\ home \in State /\ Decoded(home)
  /\ clone = None \/ (~same /\ clone \in State /\ Decoded(clone))
  /\ ~same => home.protocol = 5
  /\ file \in [Board -> [File -> Content]]
  /\ ledger \in [Board -> SUBSET Id]
  /\ receipt \in [Target -> Receipt \cup {None}]
  /\ stored \in [Target -> SUBSET (Artifact \X Rejoin)]
  /\ plan \in [Rejoin -> Plan \cup {None}]
  /\ refs \in 0..MaxFaults
  /\ gave \in [Board -> SUBSET Id]
  /\ session = NoSession \/ session \in [of : Rejoin, at : Steps, refs : 0..MaxFaults]
  /\ acts + stops \in 0..MaxFaults

-----------------------------------------------------------------------------
(* What a command reads.                                                   *)

\* The common state of the repository a target is a worktree of.
Common == IF same THEN home ELSE clone

SetCommon(s) ==
  IF same THEN home' = s /\ UNCHANGED clone ELSE clone' = s /\ UNCHANGED home

\* deriveSameCommonOwnerRejoin: the bytes of a file that name the target.
Ours(p) == [by |-> p, writes |-> 0]

\* Mutant of AllPublished: the second look takes originals for targets.
AllPublishedLoosely(p) ==
  \A c \in Class : file[plan[p].target][c] \in {Ours(p), plan[p].originals[c]}

\* validateOwnerRejoinLocalRoot: the files, all as the plan leaves them.
AllPublished(p) == \A c \in Class : file[plan[p].target][c] = Ours(p)

\* validateOwnerRejoinArchiveCards.
CardsAsPlanned(p) ==
  file[plan[p].target]["cards"] = plan[p].originals["cards"]

Holds(p, phase) == receipt[plan[p].target] = [of |-> p, phase |-> phase]

\* validateOwnerRejoinLocal.
LocalComplete(p) ==
  /\ {"plan", "payload"} \X {p} \subseteq stored[plan[p].target]
  /\ Holds(p, "completed") /\ AllPublished(p)

\* ownerRejoinTransitionTargetMatches: the very bytes of the plan.
JournalAsPlanned(b) == file[b]["transitions"] = Ours(receipt[b].of)

\* ownerRejoinCompletedLocal, the only admission to storage protocol 6.
AdmitsProtocol6(b) ==
  /\ receipt[b] # None /\ receipt[b].phase = "completed"
  /\ plan[receipt[b].of].target = b
  /\ JournalAsPlanned(b)
  /\ Artifact \X {receipt[b].of} \subseteq stored[b]

\* validateCompletedOwnerRejoinCapacity: the archive, and with it the journals
\* that name a board, may have been written since but name this one.
ArchiveAdmitted(b) == file[b]["rest"].by = receipt[b].of

\* Other commands: nothing is pending in the common state (acquireShared), and
\* the ledger names the namespace.
Works(b) ==
  IF b = Source THEN home.pending = None
  ELSE /\ Common # None /\ Common.pending = None
       /\ AdmitsProtocol6(b) /\ ArchiveAdmitted(b)
       /\ file[b]["ids"].by \in {receipt[b].of} \cup (IF same THEN {None} ELSE {})

-----------------------------------------------------------------------------
(* Preparation.                                                            *)

Init ==
  /\ same \in BOOLEAN
  /\ home \in [protocol : {5}, reserved : {{}, {1}}, joined : {{}}, pending : {None},
               done : {{}}]
  /\ clone = None
  /\ file = [b \in Board |-> [c \in File |-> [by |-> None, writes |-> 0]]]
  /\ ledger = [b \in Board |-> {}]
  /\ receipt = [b \in Target |-> None] /\ stored = [b \in Target |-> {}]
  /\ plan = [p \in Rejoin |-> None]
  /\ refs = 0 /\ gave = [b \in Board |-> {}]
  /\ session = NoSession /\ acts = 0 /\ stops = 0

\* Mutant of Exported: the export of the source is not read.
ExportedUnread == {}

\* OwnerRejoinCloneReservationEvidence: what the source's other worktrees
\* reserved, which its ledger cannot show.
Exported == home.reserved \ ledger[Source]

\* rejoinBoardPlanHeader; for a clone the export must say more than the ledger.
Header(b) ==
  [target |-> b, originals |-> file[Source], refs |-> refs, ids |-> ledger[Source],
   additional |-> IF same THEN {} ELSE Exported,
   known |-> home.reserved \cup ledger[Source]]

\* validateSameCommonOwnerRejoinHeader, validateIndependentCloneOwnerRejoinHeader.
Preparable ==
  /\ home.pending = None /\ home.protocol = 5
  /\ ~same => home.reserved \ ledger[Source] # {}

\* PrepareRejoinBoard reads only; the operator vouches that the source is at
\* rest meanwhile.
Prepare(p, b) ==
  /\ plan[p] = None /\ \A q \in 1..(p - 1) : plan[q] # None
  /\ Preparable
  /\ plan' = [plan EXCEPT ![p] = Header(b)]
  /\ UNCHANGED <<same, home, clone, boards, refs, gave, session, acts, stops>>

\* transformOwnerRejoinIDs.
TargetLedger(p) == plan[p].ids \cup plan[p].additional

-----------------------------------------------------------------------------
(* applyOwnerRejoinSameCommon and applyOwnerRejoinIndependentClone.        *)

\* inspectOwnerRejoinEvidence: worktrees and refs are those of the plan; of an
\* independent clone (inspectCloneOwnerRejoinEvidence) it is enough that the
\* target is a worktree of it.
Evidenced(p) == same => refs = plan[p].refs

\* verifyOwnerRejoinTargetParticipant in the preflight: the target is one of
\* the participants exactly when its rejoin is pending.
JoinedAsPending(p) ==
  /\ (p \in Common.joined) = (Common.pending = p)
  /\ \A q \in Common.joined \ {p} : plan[q].target # plan[p].target

\* ownerRejoinCommonCompleted, as far as it is not pending.
DoneCommon(p) == Common # None /\ p \in Common.done

Undisputed(p) ==
  /\ Common.pending \in {None, p}
  /\ DoneCommon(p) \/ JoinedAsPending(p)

\* preflightOwnerRejoin.
PreflightSame(p) == CardsAsPlanned(p) /\ Undisputed(p)

\* preflightCloneOwnerRejoin: the namespace of a clone is the plan's own, so a
\* common state that another rejoin or anything else created is refused.
PreflightClone(p) ==
  CardsAsPlanned(p) /\ (Common # None => p \in Common.joined /\ Undisputed(p))

Open(p, at) ==
  /\ session = NoSession /\ plan[p] # None /\ ~DoneCommon(p) /\ Evidenced(p)
  /\ session' = [of |-> p, at |-> at, refs |-> refs]
  /\ UNCHANGED <<same, home, clone, boards, plan, refs, gave, acts, stops>>

\* From the beginning, whatever an earlier attempt has done already, or, with
\* a completed receipt, only to the announcement that is left.
Start(p) == IF Holds(p, "completed") THEN "clear" ELSE "plan"

\* applyOwnerRejoinSameCommon.
ApplySame(p) == plan[p] # None /\ same /\ PreflightSame(p) /\ Open(p, Start(p))

\* applyOwnerRejoinIndependentClone.
ApplyClone(p) == plan[p] # None /\ ~same /\ PreflightClone(p) /\ Open(p, Start(p))

At(step) == session # NoSession /\ session.at = step

P == session.of
B == plan[session.of].target

Go(step) == session' = [session EXCEPT !.at = step]

\* publishOwnerRejoinArtifact: named by its digest, never overwritten.
Store(artifact, at, next) ==
  /\ At(at)
  /\ stored' = [stored EXCEPT ![B] = @ \cup {<<artifact, P>>}]
  /\ Go(next)
  /\ UNCHANGED <<same, home, clone, file, ledger, receipt, plan, refs, gave, acts, stops>>

StorePlan == Store("plan", "plan", "payload")
StorePayload == Store("payload", "payload", "receipt")
StoreCapacity == Store("capacity", "capacity", "rest")

\* ensureOwnerRejoinReceipt: a receipt of another rejoin stays.
ReceiptFree == receipt[B] = None \/ Holds(P, "pending")

SavePending ==
  /\ At("receipt") /\ ReceiptFree
  /\ receipt' = [receipt EXCEPT ![B] = [of |-> P, phase |-> "pending"]]
  /\ Go("announce")
  /\ UNCHANGED <<same, home, clone, file, ledger, stored, plan, refs, gave, acts, stops>>

\* ensureOwnerRejoinCommonPending.
AnnouncedSame ==
  [home EXCEPT !.protocol = 6, !.pending = P, !.joined = @ \cup {P},
               !.reserved = @ \cup plan[P].additional]

\* ensureCloneOwnerRejoinCommonPending creates the clone's common state, which
\* knows no less than the ledger will.
AnnouncedClone ==
  [protocol |-> 6, pending |-> P, joined |-> {P}, done |-> {},
   reserved |-> TargetLedger(P) \cup plan[P].additional]

Announce ==
  /\ At("announce")
  /\ IF Common # None /\ Common.pending = P THEN UNCHANGED <<home, clone>>
     ELSE SetCommon(IF same THEN AnnouncedSame ELSE AnnouncedClone)
  /\ Go("transitions")
  /\ UNCHANGED <<same, boards, plan, refs, gave, acts, stops>>

\* Mutant of Publishable: what an earlier attempt published is taken for an edit.
PublishableOnce(c) == file[B][c] = plan[P].originals[c]

\* publishOwnerRejoinFile: over the original, or over itself.
Publishable(c) == file[B][c] \in {plan[P].originals[c], Ours(P)}

Publish(c, next) ==
  /\ At(c) /\ Publishable(c)
  /\ file' = [file EXCEPT ![B][c] = Ours(P)]
  /\ ledger' = [ledger EXCEPT ![B] =
       IF c = "ids" THEN TargetLedger(P) ELSE @]
  /\ Go(next)
  /\ UNCHANGED <<same, home, clone, receipt, stored, plan, refs, gave, acts, stops>>

PublishTransitions == Publish("transitions", "ids")
PublishIds == Publish("ids", "capacity")
PublishRest == Publish("rest", "revalidate")

\* fullRevalidateOwnerRejoin.
Valid == refs = session.refs /\ CardsAsPlanned(P) /\ Holds(P, "pending") /\ AllPublished(P)

Revalidate ==
  /\ At("revalidate") /\ Valid
  /\ Go("complete")
  /\ UNCHANGED <<same, home, clone, boards, plan, refs, gave, acts, stops>>

\* replaceOwnerRejoinReceipt.
Complete ==
  /\ At("complete") /\ Holds(P, "pending")
  /\ receipt' = [receipt EXCEPT ![B].phase = "completed"]
  /\ Go("clear")
  /\ UNCHANGED <<same, home, clone, file, ledger, stored, plan, refs, gave, acts, stops>>

\* completeOwnerRejoinCommon, right after validateOwnerRejoinLocal.
Clearable == LocalComplete(P) /\ Common # None /\ Common.pending = P

Clear ==
  /\ At("clear") /\ Clearable
  /\ SetCommon([Common EXCEPT !.pending = None, !.done = @ \cup {P}])
  /\ session' = NoSession
  /\ UNCHANGED <<same, boards, plan, refs, gave, acts, stops>>

-----------------------------------------------------------------------------
(* What else happens.                                                      *)

\* A check fails; what is written stays.
Refused ==
  CASE session.at = "receipt" -> ~ReceiptFree
    [] session.at \in Class -> ~Publishable(session.at)
    [] session.at = "revalidate" -> ~Valid
    [] session.at = "complete" -> ~Holds(P, "pending")
    [] session.at = "clear" -> ~Clearable
    [] OTHER -> FALSE

Refuse ==
  /\ session # NoSession /\ Refused
  /\ session' = NoSession
  /\ UNCHANGED <<same, home, clone, boards, plan, refs, gave, acts, stops>>

\* A write fails, or the process is killed; its locks are removed by hand.
Stop ==
  /\ session # NoSession /\ acts + stops < MaxFaults
  /\ session' = NoSession /\ stops' = stops + 1
  /\ UNCHANGED <<same, home, clone, boards, plan, refs, gave, acts>>

Written(b, c) ==
  /\ file[b]["ids"].writes + file[b]["transitions"].writes < MaxWrites
  /\ file' = [file EXCEPT ![b][c].writes = @ + 1]

\* allocateID: the number after all that the ledger and the common state know;
\* both are told.
Create(b) ==
  LET s == IF b = Source THEN home ELSE Common
      known == ledger[b] \cup s.reserved
      i == Cardinality(known) + 1
  IN
  /\ session = NoSession /\ Works(b) /\ Written(b, "ids")
  /\ i <= MaxId
  /\ ledger' = [ledger EXCEPT ![b] = known \cup {i}]
  /\ gave' = [gave EXCEPT ![b] = @ \cup {i}]
  /\ IF b = Source
     THEN home' = [home EXCEPT !.reserved = known \cup {i}] /\ UNCHANGED clone
     ELSE SetCommon([Common EXCEPT !.reserved = known \cup {i}])
  /\ UNCHANGED <<same, receipt, stored, plan, refs, session, acts, stops>>

\* Every transition, claim and completion writes the transition journal; for the
\* source, whose files only grow older copies, Create stands for them all.
Transition(b) ==
  /\ session = NoSession /\ Works(b) /\ Written(b, "transitions")
  /\ UNCHANGED <<same, home, clone, ledger, receipt, stored, plan, refs, gave, session,
                 acts, stops>>

\* Someone commits, moves a ref or adds a worktree; someone brings the copy, or
\* one file of it, to where the source is, or changes a file of it by hand.
Outsider ==
  /\ acts + stops < MaxFaults /\ acts' = acts + 1
  /\ \/ refs' = refs + 1 /\ UNCHANGED <<file, ledger>>
     \/ \E b \in Target, changed \in {File} \cup {{c} : c \in File} :
          /\ file' = [file EXCEPT ![b] =
               [c \in File |-> IF c \in changed THEN file[Source][c] ELSE @[c]]]
          /\ ledger' = IF "ids" \in changed THEN [ledger EXCEPT ![b] = ledger[Source]]
                       ELSE ledger
          /\ UNCHANGED refs
     \/ \E b \in Target, c \in File :
          /\ file' = [file EXCEPT ![b][c] = [by |-> Third, writes |-> 0]]
          /\ UNCHANGED <<refs, ledger>>
  /\ UNCHANGED <<same, home, clone, receipt, stored, plan, gave, session, stops>>

Work ==
  \/ StorePlan \/ StorePayload \/ SavePending \/ Announce
  \/ PublishTransitions \/ PublishIds \/ StoreCapacity \/ PublishRest
  \/ Revalidate \/ Complete \/ Clear \/ Refuse

Next ==
  \/ Work \/ Stop \/ Outsider
  \/ \E p \in Rejoin : ApplySame(p) \/ ApplyClone(p) \/ \E b \in Target : Prepare(p, b)
  \/ \E b \in Target : Transition(b)
  \/ \E b \in Board : Create(b)

\* A command goes on until it ends.  A rejoin is repeated until it is done, and
\* then now and again finds the locks free: they refuse, they do not queue.
Fairness ==
  /\ WF_vars(Work)
  /\ \A p \in Rejoin : SF_vars(ApplySame(p) \/ ApplyClone(p))

Spec == Init /\ [][Next]_vars /\ Fairness

-----------------------------------------------------------------------------
(* Properties.                                                             *)

\* A rejoined board is let in only when it is whole: every file names it, the
\* evidence is stored and the common state has recorded the rejoin; never half
\* of it, whatever was killed or changed on the way (acquireShared,
\* ownerRejoinCompletedLocal, fullRevalidateOwnerRejoin).
LetInWhole ==
  [][acts' = acts => \A b \in Target, p \in Rejoin :
       Works(b)' /\ receipt'[b].of = p /\ ~DoneCommon(p) =>
         /\ DoneCommon(p)' /\ \A c \in Class : file'[b][c] = Ours(p)]_vars

\* No identifier that was known when a rejoin was prepared is given out again
\* by the board that came back, and in one repository none is given out twice
\* (OwnerRejoinCloneReservationEvidence, ensureOwnerRejoinCommonPending).
NotReissued ==
  /\ \A b \in Target : receipt[b] # None =>
       gave[b] \cap plan[receipt[b].of].known = {}
  /\ same => \A b, c \in Board : b # c => gave[b] \cap gave[c] = {}

Unfinished(b) == receipt[b] # None /\ receipt[b].phase = "pending"

\* The copy was not what the plan was made from: it was older than the source.
\* The application finds that only after it announced itself.
Outdated(b) ==
  receipt[b] # None /\
    \E c \in File : file[b][c] \notin {plan[receipt[b].of].originals[c], Ours(receipt[b].of)}

\* Another rejoin created the clone's common state first.
Displaced(b) == ~same /\ clone # None /\ receipt[b].of \notin clone.joined

SomeUnfinished == \E b \in Target : Unfinished(b)

Settled ==
  \/ \A b \in Target : ~Unfinished(b) \/ Displaced(b)
  \/ acts > 0 \/ \E b \in Target : Outdated(b)

\* A rejoin that was begun is completed by repeating it, unless a copy was
\* not an exact one, another rejoin was first in the clone, or git or an editor
\* changed what it was planned on.
Resumed == SomeUnfinished ~> Settled

\* "Absent or pending evidence keeps the original fail-closed behaviour"
\* (owner_rejoin_gate.go): a board that was let in is not shut out by what its
\* own commands write.
StaysAdmitted ==
  [][acts' = acts => \A b \in Target :
       Works(b) => Works(b)' \/ Common'.pending # None]_vars

=============================================================================
