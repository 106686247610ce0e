------------------------- MODULE StorageOperations -------------------------
(***************************************************************************)
(* The journaled operations on a board's cards: status repair, relocation, *)
(* archive and the adoption of an archive (internal/taskstore: repair*.go, *)
(* relocation*.go, archive*.go, legacy_archive*.go, storage_*.go), and the *)
(* upgrade of a board's archive journal (archive_capacity*.go).            *)
(*                                                                         *)
(* An operation is recorded three times: as a marker in the namespace's    *)
(* common state, as a pending record in its family's journal on the board, *)
(* and as that record's receipt.  Between the second and the third it      *)
(* changes the files.  A command killed anywhere is taken up again by the  *)
(* same request.  Before its first use a family is adopted: an empty       *)
(* journal, then a protocol number in the common state, then one in the    *)
(* board's transition journal; the numbers are markers for older writers   *)
(* and must not go back.                                                   *)
(*                                                                         *)
(* Commands hold the namespace's lock and their board's, so there is one   *)
(* session at a time; a killed one leaves its locks, which an operator     *)
(* removes before the next.  Editors honour no lock.  Each board has one   *)
(* card; it may be at several places.                                      *)
(***************************************************************************)
EXTENDS Naturals, FiniteSets

CONSTANTS
  Board,
  Request,       \* request IDs
  Operation,     \* what is asked for under each request ID
  Place, Gone,   \* paths of the card, and that it is not there
  Content, Edited,  \* its bytes as operations write them, or as an editor does
  Draft, First,  \* the bytes and the place of the card to begin with
  Owner, NoClaim,
  NoRequest, NoSession, Missing,
  MaxStops,      \* bound: commands that are killed or fail
  MaxEdits       \* bound: acts of editors and lost files

Family == {"repair", "relocation", "archive"}

ASSUME StorageAssumption ==
  /\ Operation \in [Request ->
       [family : Family, from : Place, to : Place, old : Content,
        new : Content, claim : Owner \cup {NoClaim}]]
  /\ Draft \in Content /\ First \in Place
  /\ Gone \notin Content /\ Edited \notin Content /\ Edited # Gone
  /\ NoClaim \notin Owner /\ NoRequest \notin Request
  /\ MaxStops \in Nat /\ MaxEdits \in Nat

VARIABLES
  common,    \* state.json: storage protocol, pending markers
  journal,   \* the journal of each family on each board
  marker,    \* each board's storageProtocol in its transition journal
  schema,    \* the schema of each board's archive journal
  capacity,  \* each board's capacity adoption: absent, pending or completed
  file,      \* what is at each place of each board
  claim,     \* who holds the card of each board
  session,   \* the command at work
  stops, edits

boards == <<journal, marker, schema, capacity>>
cards == <<file, claim>>
bounds == <<stops, edits>>
vars == <<common, journal, marker, schema, capacity, file, claim, session,
          stops, edits>>

-----------------------------------------------------------------------------
(* Types.                                                                  *)

\* A journal: at most one pending record, and its receipts.
Journal == [pending : Request \cup {NoRequest}, completed : SUBSET Request]

\* The value for a journal that is not there.
ASSUME MissingAssumption == Missing \notin Journal

\* What the decoders accept: a request is recorded once, in its own family.
Decoded(f, j) ==
  /\ j.pending \notin j.completed
  /\ \A r \in j.completed \cup ({j.pending} \ {NoRequest}) : Operation[r].family = f

EmptyJournal == [pending |-> NoRequest, completed |-> {}]

\* A marker: who reserved what, and the journal it was to be added to.
Marker == [family : Family, owner : Board, request : Request, original : Journal]

\* on: whether the namespace shares its identifiers and so has a common state;
\* upgrade: the boards whose capacity adoption is marked as pending.
CommonState ==
  [on : BOOLEAN, protocol : 0..5, pending : SUBSET Marker, upgrade : SUBSET Board]

OperationSteps == {"resume", "adopt", "record", "publish", "remove", "receipt", "clear"}

UpgradeSteps == {"mark", "raise", "convert", "complete", "unmark"}

Session ==
  [board : Board, request : Request, at : OperationSteps]
    \cup [board : Board, request : {NoRequest}, at : UpgradeSteps]

TypeOK ==
  /\ common \in CommonState
  /\ journal \in [Board -> [Family -> Journal \cup {Missing}]]
  /\ marker \in [Board -> 0..5]
  /\ schema \in [Board -> 1..2]
  /\ capacity \in [Board -> {"absent", "pending", "completed"}]
  /\ file \in [Board -> [Place -> Content \cup {Edited, Gone}]]
  /\ claim \in [Board -> Owner \cup {NoClaim}]
  /\ session \in Session \cup {NoSession}
  /\ stops \in 0..MaxStops /\ edits \in 0..MaxEdits
  /\ Cardinality(common.pending) + Cardinality(common.upgrade) <= 1
  /\ \A b \in Board, f \in Family : journal[b][f] = Missing \/ Decoded(f, journal[b][f])

-----------------------------------------------------------------------------
(* What commands read.                                                     *)

Exists(b, f) == journal[b][f] # Missing

Pending(b, f) == Exists(b, f) /\ journal[b][f].pending # NoRequest

Completed(b, r) ==
  LET f == Operation[r].family IN Exists(b, f) /\ r \in journal[b][f].completed

Recorded(b, r) ==
  LET f == Operation[r].family IN Exists(b, f) /\ journal[b][f].pending = r

\* The protocol a family adopts.
Level(f) == CASE f = "repair" -> 1 [] f = "relocation" -> 2 [] f = "archive" -> 4

\* The least protocol at which its journal must be there.
Required(f) == IF f = "archive" THEN 3 ELSE Level(f)

\* A journal and its protocol number belong together: without the number it
\* must be empty, with the number it must be there.
Bound(b, f) ==
  IF marker[b] >= Required(f) THEN Exists(b, f)
  ELSE Exists(b, f) => journal[b][f] = EmptyJournal

\* The gate other families' sessions and ordinary commands put before a
\* family: no half adoption and no pending record.
Idle(b, f) ==
  /\ Bound(b, f) /\ ~Pending(b, f)
  /\ Exists(b, f) => marker[b] >= Required(f)

\* archiveForBoard: with a capacity adoption, completed and at protocol 5.
ArchiveIdle(b) ==
  IF capacity[b] = "absent" THEN marker[b] < 5 /\ Idle(b, "archive")
  ELSE /\ capacity[b] = "completed" /\ marker[b] = 5
       /\ Exists(b, "archive") /\ ~Pending(b, "archive") /\ schema[b] = 2

\* verifyStorageBinding.
WithinCommon(b) == common.on => marker[b] <= common.protocol

\* acquireShared: which pending markers a command may meet.
NoOtherMarker(own) ==
  /\ {m.family : m \in common.pending} \subseteq own
  /\ common.upgrade = {}

\* checkStorageGate and acquireShared, before every ordinary command.
GateOpen(b) ==
  /\ NoOtherMarker({}) /\ WithinCommon(b)
  /\ ArchiveIdle(b) /\ Idle(b, "relocation") /\ Idle(b, "repair")

InPlace(r) == Operation[r].from = Operation[r].to

\* Where the card is.
At(b) == {p \in Place : file[b][p] # Gone}

\* What a reservation leads its journal to.
Target(m) == [m.original EXCEPT !.pending = m.request]

Done(m) == [m.original EXCEPT !.completed = @ \cup {m.request}]

-----------------------------------------------------------------------------
(* The checks of a command.                                                *)

\* openStorageSession, openRelocationSession and openArchiveSession: what
\* each family's session asks of the other families.
RepairAdmitted(b) ==
  ArchiveIdle(b) /\ Bound(b, "repair") /\ Idle(b, "relocation")

RelocationAdmitted(b) ==
  /\ ArchiveIdle(b) /\ Bound(b, "relocation")
  /\ Bound(b, "repair") /\ ~Pending(b, "repair")

ArchiveAdmitted(b) ==
  /\ \A f \in Family : Bound(b, f)
  /\ ~Pending(b, "repair") /\ ~Pending(b, "relocation")
  /\ capacity[b] # "pending" /\ (marker[b] = 5 => schema[b] = 2)

\* Mutant of ReservationAdmitted: a marker whose journal was not yet written
\* is refused.
ReservationRecorded(b, r) ==
  LET f == Operation[r].family IN
  \A m \in common.pending :
    /\ m.owner = b /\ m.request = r
    /\ marker[b] >= Required(f) /\ Exists(b, f)
    /\ journal[b][f] \in {Target(m), Done(m)}

\* A marker in the common state is this board's and this request's, and its
\* journal is where the operation can have left it.
ReservationAdmitted(b, r) ==
  LET f == Operation[r].family IN
  \A m \in common.pending :
    /\ m.owner = b /\ m.request = r
    /\ marker[b] >= Required(f) /\ Exists(b, f)
    /\ journal[b][f] \in {m.original, Target(m), Done(m)}

\* Only this very request meets its family's pending record or marker.
Admitted(b, r) ==
  LET f == Operation[r].family IN
  /\ NoOtherMarker({f}) /\ WithinCommon(b)
  /\ CASE f = "repair" -> RepairAdmitted(b)
       [] f = "relocation" -> RelocationAdmitted(b)
       [] f = "archive" -> ArchiveAdmitted(b)
  /\ Pending(b, f) => journal[b][f].pending = r
  /\ ReservationAdmitted(b, r)

\* prepareRepair, prepareRelocation, prepareArchive and prepareLegacy: the
\* card is at its source and nowhere else, as the request saw it, and held by
\* whom the request names.
Prepared(b, r) ==
  LET o == Operation[r] IN
  /\ At(b) = {o.from} /\ file[b][o.from] = o.old
  /\ claim[b] = o.claim

\* Under sharing the request still has its marker.
Reserved(b, r) ==
  common.on => \E m \in common.pending :
                 m.family = Operation[r].family /\ m.owner = b /\ m.request = r

\* verifyPendingRepair, verifyPendingRelocation, and verifyPendingArchive with
\* verifyPendingLegacy.
RepairAuthorized(b) == marker[b] >= 1 /\ Idle(b, "relocation")

RelocationAuthorized(b) ==
  marker[b] >= 2 /\ ArchiveIdle(b) /\ Exists(b, "repair") /\ ~Pending(b, "repair")

ArchiveAuthorized(b) ==
  /\ marker[b] >= 3 /\ Idle(b, "relocation")
  /\ Exists(b, "repair") /\ ~Pending(b, "repair")

\* Before each change to the files and before the receipt all is looked at
\* again: the reservation, the other families, the claim and where the card is.
Authorized(b, r) ==
  LET o == Operation[r] IN
  /\ Reserved(b, r) /\ Recorded(b, r) /\ WithinCommon(b)
  /\ CASE o.family = "repair" -> RepairAuthorized(b)
       [] o.family = "relocation" -> RelocationAuthorized(b)
       [] o.family = "archive" -> ArchiveAuthorized(b)
  /\ claim[b] = o.claim
  /\ At(b) # {} /\ At(b) \subseteq {o.from, o.to}

\* inspectRepairFile and relocateFiles: only bytes the record knows.
Applicable(b, r) ==
  LET o == Operation[r] IN
  IF InPlace(r) THEN file[b][o.from] \in {o.old, o.new}
  ELSE file[b][o.from] \in {o.old, Gone} /\ file[b][o.to] \in {o.new, Gone}

\* The change is in place and the source is gone.
Applied(b, r) ==
  LET o == Operation[r] IN
  /\ file[b][o.to] = o.new
  /\ InPlace(r) \/ file[b][o.from] = Gone

-----------------------------------------------------------------------------
(* The steps of an operation.                                              *)

Init ==
  /\ common \in [on : BOOLEAN, protocol : {0}, pending : {{}}, upgrade : {{}}]
  /\ journal = [b \in Board |-> [f \in Family |-> Missing]]
  /\ marker = [b \in Board |-> 0]
  /\ schema = [b \in Board |-> 1]
  /\ capacity = [b \in Board |-> "absent"]
  /\ file = [b \in Board |-> [p \in Place |-> IF p = First THEN Draft ELSE Gone]]
  /\ claim = [b \in Board |-> NoClaim]
  /\ session = NoSession /\ stops = 0 /\ edits = 0

Go(at) == session' = [session EXCEPT !.at = at]

Open(b, r, at) ==
  /\ session = NoSession /\ Admitted(b, r)
  /\ session' = [board |-> b, request |-> r, at |-> at]
  /\ UNCHANGED <<common, boards, cards, bounds>>

\* The marker was published and the command stopped before the journal.
OpenReserved(b, r) ==
  /\ \E m \in common.pending : journal[b][m.family] = m.original
  /\ Open(b, r, "resume")

OpenRecorded(b, r) == Recorded(b, r) /\ Open(b, r, "publish")

\* A replay of a completed request only clears its marker.
OpenCompleted(b, r) ==
  /\ Completed(b, r) /\ common.pending # {}
  /\ Open(b, r, "clear")

OpenNew(b, r) ==
  /\ ~Recorded(b, r) /\ ~Completed(b, r) /\ common.pending = {}
  /\ Prepared(b, r)
  /\ Open(b, r, "adopt")

Step(at) == session # NoSession /\ session.at = at

B == session.board
R == session.request
F == Operation[R].family

SaveJournal(j) ==
  /\ journal' = [journal EXCEPT ![B][F] = j]
  /\ UNCHANGED <<marker, schema, capacity>>

\* resumeCommon, resumeRelocation, resumeArchive, resumeArchiveDelta.
Resume ==
  /\ Step("resume")
  /\ \E m \in common.pending : SaveJournal(Target(m))
  /\ Go("publish")
  /\ UNCHANGED <<common, cards, bounds>>

\* What the adoption of a family has to reach.
Reached(f) ==
  /\ Exists(B, f) /\ marker[B] >= Level(f)
  /\ common.on => common.protocol >= Level(f)

\* adopt, adoptRelocation, adoptArchive: the families in order of protocol.
Adopting(f) ==
  /\ Step("adopt") /\ Level(f) <= Level(F) /\ ~Reached(f)
  /\ \A g \in Family : Level(g) < Level(f) => Reached(g)
  /\ UNCHANGED <<schema, capacity, cards, session, bounds>>

AdoptJournal(f) ==
  /\ Adopting(f) /\ ~Exists(B, f)
  /\ journal' = [journal EXCEPT ![B][f] = EmptyJournal]
  /\ UNCHANGED <<common, marker>>

AdoptCommon(f) ==
  /\ Adopting(f) /\ Exists(B, f)
  /\ common.on /\ common.protocol < Level(f)
  /\ common' = [common EXCEPT !.protocol = Level(f)]
  /\ UNCHANGED <<journal, marker>>

AdoptMarker(f) ==
  /\ Adopting(f) /\ Exists(B, f)
  /\ common.on => common.protocol >= Level(f)
  /\ marker' = [marker EXCEPT ![B] = Level(f)]
  /\ UNCHANGED <<common, journal>>

\* prepareSharedDelta sets the protocol that goes with the journal's schema;
\* the other families leave it.
ReservedProtocol ==
  IF F = "archive" THEN (IF schema[B] = 2 THEN 5 ELSE 4) ELSE common.protocol

\* reserveCommon, reserveRelocation, reserveArchive.
Reserve ==
  /\ Step("adopt") /\ \A f \in Family : Level(f) <= Level(F) => Reached(f)
  /\ common' = IF ~common.on THEN common ELSE
       [common EXCEPT !.protocol = ReservedProtocol,
                      !.pending = {[family |-> F, owner |-> B, request |-> R,
                                    original |-> journal[B][F]]}]
  /\ Go("record")
  /\ UNCHANGED <<boards, cards, bounds>>

Record ==
  /\ Step("record")
  /\ SaveJournal([journal[B][F] EXCEPT !.pending = R])
  /\ Go("publish")
  /\ UNCHANGED <<common, cards, bounds>>

\* A repair renames over the card; a move links the target, which must not be
\* there yet; the adoption of an archived card changes no file.
Publish ==
  /\ Step("publish") /\ Authorized(B, R) /\ Applicable(B, R)
  /\ file' = [file EXCEPT ![B][Operation[R].to] = Operation[R].new]
  /\ Go(IF InPlace(R) THEN "receipt" ELSE "remove")
  /\ UNCHANGED <<common, boards, claim, bounds>>

\* Mutant of RemoveSource: the source goes without a look at it.
RemoveAnySource ==
  /\ Step("remove") /\ Authorized(B, R)
  /\ file[B][Operation[R].to] = Operation[R].new
  /\ file' = [file EXCEPT ![B][Operation[R].from] = Gone]
  /\ Go("receipt")
  /\ UNCHANGED <<common, boards, claim, bounds>>

\* The last look at the source and its removal are one step here: an edit
\* between the two system calls is lost, as it is in BoardTransitions.
RemoveSource ==
  /\ Step("remove") /\ Authorized(B, R) /\ Applicable(B, R)
  /\ file[B][Operation[R].to] = Operation[R].new
  /\ file' = [file EXCEPT ![B][Operation[R].from] = Gone]
  /\ Go("receipt")
  /\ UNCHANGED <<common, boards, claim, bounds>>

\* finishRepair, finishRelocation, finishArchive, finishLegacy: the receipt.
Complete ==
  /\ Step("receipt") /\ Authorized(B, R) /\ Applied(B, R)
  /\ SaveJournal([journal[B][F] EXCEPT !.pending = NoRequest,
                                       !.completed = @ \cup {R}])
  /\ Go("clear")
  /\ UNCHANGED <<common, cards, bounds>>

\* clearCommon, clearRelocation, clearArchive, clearArchiveDelta.
Clear ==
  /\ Step("clear") /\ Completed(B, R)
  /\ common' = [common EXCEPT !.pending = {}]
  /\ session' = NoSession
  /\ UNCHANGED <<boards, cards, bounds>>

-----------------------------------------------------------------------------
(* The archive journal's second schema, which has more room.               *)

\* capacityStorageIdle and the barriers of the two sessions.
UpgradeAdmitted(b) ==
  /\ session = NoSession /\ common.pending = {}
  /\ \A f \in Family : Exists(b, f) /\ ~Pending(b, f)

OpenUpgrade(b) ==
  session' = [board |-> b, request |-> NoRequest, at |-> "mark"]

\* openNewArchiveCapacitySession and startArchiveCapacity: the receipt that
\* the adoption is pending is the first thing written.
StartUpgrade(b) ==
  /\ UpgradeAdmitted(b) /\ capacity[b] = "absent" /\ marker[b] = 4
  /\ common.upgrade = {} /\ (common.on => common.protocol = 4)
  /\ capacity' = [capacity EXCEPT ![b] = "pending"]
  /\ OpenUpgrade(b)
  /\ UNCHANGED <<common, journal, marker, schema, cards, bounds>>

\* openRecoveringArchiveCapacitySession.
ResumeUpgrade(b) ==
  /\ UpgradeAdmitted(b)
  /\ capacity[b] = "pending" \/ (capacity[b] = "completed" /\ common.upgrade = {b})
  /\ marker[b] \in 4..5 /\ (common.on => common.protocol \in 4..5)
  /\ common.upgrade \subseteq {b}
  /\ OpenUpgrade(b)
  /\ UNCHANGED <<common, boards, cards, bounds>>

\* resumeArchiveCapacity, one action per file it writes.
MarkUpgrade ==
  /\ Step("mark")
  /\ common' = IF common.on /\ capacity[B] = "pending"
                 THEN [common EXCEPT !.protocol = 5, !.upgrade = {B}] ELSE common
  /\ Go("raise")
  /\ UNCHANGED <<boards, cards, bounds>>

RaiseMarker ==
  /\ Step("raise") /\ marker' = [marker EXCEPT ![B] = 5]
  /\ Go("convert")
  /\ UNCHANGED <<common, journal, schema, capacity, cards, bounds>>

Convert ==
  /\ Step("convert") /\ schema' = [schema EXCEPT ![B] = 2]
  /\ Go("complete")
  /\ UNCHANGED <<common, journal, marker, capacity, cards, bounds>>

CompleteUpgrade ==
  /\ Step("complete") /\ capacity' = [capacity EXCEPT ![B] = "completed"]
  /\ Go("unmark")
  /\ UNCHANGED <<common, journal, marker, schema, cards, bounds>>

UnmarkUpgrade ==
  /\ Step("unmark") /\ common' = [common EXCEPT !.upgrade = {}]
  /\ session' = NoSession
  /\ UNCHANGED <<boards, cards, bounds>>

-----------------------------------------------------------------------------
(* What else happens.                                                      *)

\* The command is refused by the checks before it changes the files.
Refused ==
  CASE session.at = "publish" -> ~(Authorized(B, R) /\ Applicable(B, R))
    [] session.at = "remove" ->
         ~(Authorized(B, R) /\ Applicable(B, R)
           /\ file[B][Operation[R].to] = Operation[R].new)
    [] session.at = "receipt" -> ~(Authorized(B, R) /\ Applied(B, R))
    [] OTHER -> FALSE

Refuse ==
  /\ session # NoSession /\ Refused
  /\ session' = NoSession
  /\ UNCHANGED <<common, boards, cards, bounds>>

\* A write fails, or the process is killed.
Stop ==
  /\ session # NoSession /\ stops < MaxStops
  /\ session' = NoSession /\ stops' = stops + 1
  /\ UNCHANGED <<common, boards, cards, edits>>

\* Mutant of Ordinary: the common state is not looked at.
OrdinaryLocally(b) ==
  /\ session = NoSession /\ ArchiveIdle(b)
  /\ \E o \in Owner : claim' = [claim EXCEPT ![b] = IF @ = NoClaim THEN o ELSE NoClaim]
  /\ UNCHANGED <<common, boards, file, session, bounds>>

\* Commands that keep no such journal, here those that give and take claims.
Ordinary(b) ==
  /\ session = NoSession /\ GateOpen(b)
  /\ \E o \in Owner : claim' = [claim EXCEPT ![b] = IF @ = NoClaim THEN o ELSE NoClaim]
  /\ UNCHANGED <<common, boards, file, session, bounds>>

\* An editor writes the card, perhaps where it no longer is, or deletes it.
Edit(b, p) ==
  /\ edits < MaxEdits /\ edits' = edits + 1
  /\ \E c \in {Edited, Gone} \ {file[b][p]} : file' = [file EXCEPT ![b][p] = c]
  /\ UNCHANGED <<common, boards, claim, session, stops>>

\* A journal is lost between commands.
Lose(b, f) ==
  /\ edits < MaxEdits /\ edits' = edits + 1
  /\ session = NoSession /\ Exists(b, f)
  /\ journal' = [journal EXCEPT ![b][f] = Missing]
  /\ UNCHANGED <<common, marker, schema, capacity, cards, session, stops>>

Begin(b, r) ==
  OpenReserved(b, r) \/ OpenRecorded(b, r) \/ OpenCompleted(b, r)

Work ==
  \/ Resume \/ Reserve \/ Record \/ Publish \/ RemoveSource \/ Complete \/ Clear
  \/ \E f \in Family : AdoptJournal(f) \/ AdoptCommon(f) \/ AdoptMarker(f)
  \/ MarkUpgrade \/ RaiseMarker \/ Convert \/ CompleteUpgrade \/ UnmarkUpgrade
  \/ Refuse

Next ==
  \/ \E b \in Board, r \in Request : Begin(b, r) \/ OpenNew(b, r)
  \/ Work
  \/ \E b \in Board : StartUpgrade(b) \/ ResumeUpgrade(b) \/ Ordinary(b)
  \/ \E b \in Board, p \in Place : Edit(b, p)
  \/ \E b \in Board, f \in Family : Lose(b, f)
  \/ Stop

\* A command goes on until it ends, and pending work is taken up again.
Fairness ==
  /\ WF_vars(Work)
  /\ \A b \in Board : WF_vars(ResumeUpgrade(b))
  /\ \A b \in Board, r \in Request : WF_vars(Begin(b, r))

Spec == Init /\ [][Next]_vars /\ Fairness

-----------------------------------------------------------------------------
(* Properties.                                                             *)

\* Under sharing a pending record has its marker in the common state, so that
\* every worktree is stopped, and no other board has a pending record
\* (reserveCommon before saveRepairJournal, clearCommon after it).
PendingMarked ==
  common.on =>
    \A b \in Board, r \in Request : Recorded(b, r) =>
      /\ \E m \in common.pending : m.owner = b /\ m.request = r
      /\ \A c \in Board, f \in Family : Pending(c, f) => c = b

\* Ordinary commands never meet a board between two steps of an operation:
\* unless an editor was there, the card is at exactly one place whenever they
\* are let in, and what a pending request was granted for still holds
\* (checkStorageGate, acquireShared, verifyPending*).
OrdinarySeesWhole ==
  /\ \A b \in Board : edits = 0 /\ GateOpen(b) =>
       /\ Cardinality(At(b)) = 1
       /\ \A f \in Family : ~Pending(b, f)
  /\ \A b \in Board, r \in Request : Recorded(b, r) => claim[b] = Operation[r].claim

\* Types, a marker for every pending record, and no half done operation met.
StorageHolds == TypeOK /\ PendingMarked /\ OrdinarySeesWhole

\* No operation removes or overwrites what an editor wrote, between whichever
\* of its steps the edit comes, and no card vanishes (inspectRepairFile, relocateFiles).
EditsKept ==
  [][edits' = edits => \A b \in Board :
       /\ \A p \in Place : file[b][p] = Edited => file'[b][p] = Edited
       /\ At(b) # {} => At(b)' # {}]_vars

Unfinished ==
  \/ common.pending # {}
  \/ \E b \in Board, r \in Request : Recorded(b, r)

\* What was begun is finished: taken up again often enough, every reservation
\* and every pending record is done with, unless an editor or a lost file
\* stands against it (Recover*, "exact request recovery").
Recovered == Unfinished ~> ~Unfinished \/ edits > 0

\* The common protocol number never goes back: a marker is permanent, and a
\* board is never beyond it (storage_gate.go, archive_gate.go).
ProtocolPermanent ==
  [][common'.protocol >= common.protocol]_vars

=============================================================================
