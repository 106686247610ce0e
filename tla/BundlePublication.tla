------------------------- MODULE BundlePublication -------------------------
(***************************************************************************)
(* The publication of a task bundle: several new cards and the batch that  *)
(* names them (internal/taskstore: bundle_*.go).                           *)
(*                                                                         *)
(* The first command of a request allocates every identifier and records   *)
(* the whole result in the board's bundle journal as pending.  From there  *)
(* on it only repeats what the record says: reserve the identifiers in the *)
(* common state, with a marker that stops all other worktrees; write the   *)
(* board's ledger; link each card; link the batch; complete the record;    *)
(* clear the marker.  A killed command is taken up by the same request     *)
(* with --resume, which allocates nothing.                                 *)
(*                                                                         *)
(* The record comes before the marker, so that a worktree may be given the *)
(* same identifiers in between; the resumption then fails for good         *)
(* (docs/task-bundles.md).  Identifiers are numbers, and a card's path     *)
(* follows from its identifier.                                            *)
(***************************************************************************)
EXTENDS Naturals, FiniteSets

CONSTANTS
  Board,
  Request,
  Explicit,   \* the identifiers each request asks for
  Automatic,  \* how many more it leaves to the tool
  MaxId,      \* bound: identifiers
  Plain, Foreign, Gone,  \* a card of create, an editor's file, nothing
  NoMarker, NoSession, Missing,
  MaxCreated, \* bound: identifiers that create gives out
  MaxStops,   \* bound: commands that are killed or fail
  MaxEdits    \* bound: acts of editors

VARIABLES
  common,    \* state.json: bundle protocol, reserved identifiers, marker
  ids,       \* each board's ids.json
  protocol,  \* bundleProtocol in each board's transition journal
  journal,   \* each board's bundle journal
  file,      \* what is at the path of each identifier on each board
  batch,     \* the batches on each board
  created,   \* what create gave out on each board
  session, stops, edits

boards == <<ids, protocol, journal>>
files == <<file, batch, created>>
bounds == <<stops, edits>>
vars == <<common, ids, protocol, journal, file, batch, created, session, stops, edits>>

Id == 1..MaxId

-----------------------------------------------------------------------------
(* Types.                                                                  *)

\* A record binds the identifiers of its cards and the ledger before and after.
Record ==
  [request : Request, status : {"pending", "completed"}, cards : SUBSET Id,
   original : SUBSET Id, target : SUBSET Id]

Marker == [owner : Board, request : Request, cards : SUBSET Id]

Steps == {"adopt", "record", "resume", "reserve", "ledger", "cards", "batch",
          "complete", "clear"}

Session == [board : Board, request : Request, at : Steps, done : SUBSET Id]

\* validateBundleRecord and the decoders: a request is recorded once, at most
\* one record is pending, and the target is the original with more.
Decoded(j) ==
  /\ \A x, y \in j : x.request = y.request => x = y
  /\ Cardinality({x \in j : x.status = "pending"}) <= 1
  /\ \A x \in j : x.original \subseteq x.target /\ x.cards \subseteq x.target \ x.original

TypeOK ==
  /\ common \in [on : BOOLEAN, protocol : 0..1, reserved : SUBSET Id,
                 pending : Marker \cup {NoMarker}]
  /\ ids \in [Board -> SUBSET Id]
  /\ protocol \in [Board -> 0..1]
  /\ \A b \in Board : journal[b] = Missing \/ (journal[b] \subseteq Record /\ Decoded(journal[b]))
  /\ file \in [Board -> [Id -> Request \cup {Plain, Foreign, Gone}]]
  /\ batch \in [Board -> SUBSET Request]
  /\ created \in [Board -> SUBSET Id]
  /\ session \in Session \cup {NoSession}
  /\ stops \in 0..MaxStops /\ edits \in 0..MaxEdits

-----------------------------------------------------------------------------
(* What commands read.                                                     *)

Records(b) == IF journal[b] = Missing THEN {} ELSE journal[b]

Found(b, r) == {x \in Records(b) : x.request = r}

Pending(b) == {x \in Records(b) : x.status = "pending"}

\* observedIDs and merge: the board's ledger, its cards and the common state.
Ledger(b) ==
  ids[b] \cup {i \in Id : file[b][i] # Gone} \cup (IF common.on THEN common.reserved ELSE {})

\* checkBundleGate and validateSharedStateAdmission, before other commands.
GateOpen(b) ==
  /\ common.on => common.pending = NoMarker
  /\ IF journal[b] = Missing THEN protocol[b] = 0
     ELSE protocol[b] = 1 /\ Pending(b) = {}

\* openBundleSession.
Admitted(b) ==
  IF journal[b] = Missing THEN protocol[b] = 0
  ELSE protocol[b] = 0 => journal[b] = {}

\* verifyBundleOwner.
OwnMarker(b, r) ==
  common.pending # NoMarker =>
    common.pending.owner = b /\ common.pending.request = r

-----------------------------------------------------------------------------
(* Allocation.                                                             *)

Greatest(s) == IF s = {} THEN 0 ELSE CHOOSE i \in s : \A j \in s : j <= i

\* allocateID in prepareTaskBundle: what is asked for by name comes first, the
\* others follow the greatest identifier there is.
Allocated(r, ledger) ==
  LET named == Explicit[r]
      top == Greatest(ledger \cup named)
  IN  named \cup (top + 1)..(top + Automatic[r])

\* Whether the request can be prepared on this ledger.
Allocatable(r, ledger) ==
  /\ Explicit[r] \cap ledger = {}
  /\ Allocated(r, ledger) \subseteq Id

\* prepareRecord.
Prepared(b, r) ==
  LET cards == Allocated(r, Ledger(b)) IN
  [request |-> r, status |-> "pending", cards |-> cards,
   original |-> ids[b], target |-> Ledger(b) \cup cards]

-----------------------------------------------------------------------------
(* The steps of a publication.                                             *)

Init ==
  /\ common \in [on : BOOLEAN, protocol : {0}, reserved : {{}}, pending : {NoMarker}]
  /\ ids = [b \in Board |-> {}] /\ protocol = [b \in Board |-> 0]
  /\ journal = [b \in Board |-> Missing]
  /\ file = [b \in Board |-> [i \in Id |-> Gone]]
  /\ batch = [b \in Board |-> {}] /\ created = [b \in Board |-> {}]
  /\ session = NoSession /\ stops = 0 /\ edits = 0

Open(b, r, at) ==
  /\ session = NoSession /\ Admitted(b)
  /\ session' = [board |-> b, request |-> r, at |-> at, done |-> {}]
  /\ UNCHANGED <<common, boards, files, bounds>>

OpenNew(b, r) ==
  /\ Found(b, r) = {} /\ Pending(b) = {} /\ common.pending = NoMarker
  /\ r \notin batch[b]
  /\ Allocatable(r, Ledger(b))
  /\ Open(b, r, "adopt")

OpenPending(b, r) == Found(b, r) \cap Pending(b) # {} /\ Open(b, r, "resume")

\* A completed request only clears its own marker.
OpenCompleted(b, r) ==
  /\ Found(b, r) # {} /\ Pending(b) = {}
  /\ common.pending # NoMarker /\ OwnMarker(b, r)
  /\ Open(b, r, "clear")

Step(at) == session # NoSession /\ session.at = at

B == session.board
R == session.request
Rec == CHOOSE x \in Found(B, R) : TRUE

Go(at) == session' = [session EXCEPT !.at = at]

AdoptJournal ==
  /\ Step("adopt") /\ journal[B] = Missing
  /\ journal' = [journal EXCEPT ![B] = {}]
  /\ UNCHANGED <<common, ids, protocol, files, session, bounds>>

AdoptLocal ==
  /\ Step("adopt") /\ journal[B] # Missing /\ protocol[B] = 0
  /\ protocol' = [protocol EXCEPT ![B] = 1]
  /\ UNCHANGED <<common, ids, journal, files, session, bounds>>

AdoptCommon ==
  /\ Step("adopt") /\ protocol[B] = 1 /\ common.on /\ common.protocol = 0
  /\ common' = [common EXCEPT !.protocol = 1]
  /\ UNCHANGED <<boards, files, session, bounds>>

\* The record is prepared before the adoption and saved after it; both happen
\* under the locks, and nothing an allocation reads changes in between.
SavePending ==
  /\ Step("adopt") /\ journal[B] # Missing
  /\ protocol[B] = 1 /\ (common.on => common.protocol = 1)
  /\ Allocatable(R, Ledger(B))
  /\ journal' = [journal EXCEPT ![B] = @ \cup {Prepared(B, R)}]
  /\ Go("resume")
  /\ UNCHANGED <<common, ids, protocol, files, bounds>>

\* validateResume: the board is where the record left it.
Resumable(b, x) ==
  /\ protocol[b] = 1 /\ OwnMarker(b, x.request)
  /\ ids[b] \in {x.original, x.target}
  /\ \A i \in x.cards : file[b][i] \in {Gone, x.request}

Resume ==
  /\ Step("resume") /\ Resumable(B, Rec)
  /\ Go("reserve")
  /\ UNCHANGED <<common, boards, files, bounds>>

\* Mutant of Reservable: identifiers of others are not looked for.
ReservableAnyway(x) == common.pending = NoMarker

\* prepareBundleReservation: none of the identifiers is another's.
Reservable(x) == common.pending = NoMarker /\ x.cards \cap common.reserved = {}

\* reserveBundle.
Reserve ==
  /\ Step("reserve")
  /\ \/ /\ ~common.on \/ common.pending # NoMarker
        /\ UNCHANGED common
     \/ /\ common.on /\ Reservable(Rec)
        /\ common' = [common EXCEPT !.reserved = @ \cup Rec.target,
             !.pending = [owner |-> B, request |-> R, cards |-> Rec.cards]]
  /\ Go("ledger")
  /\ UNCHANGED <<boards, files, bounds>>

PublishLedger ==
  /\ Step("ledger")
  /\ ids' = [ids EXCEPT ![B] = Rec.target]
  /\ Go("cards")
  /\ UNCHANGED <<common, protocol, journal, files, bounds>>

\* publishBundleFile: the card is linked, or is there already.
PublishCard ==
  /\ Step("cards")
  /\ \E i \in Rec.cards \ session.done :
       /\ file[B][i] \in {Gone, R}
       /\ file' = [file EXCEPT ![B][i] = R]
       /\ session' = [session EXCEPT !.done = @ \cup {i}]
  /\ UNCHANGED <<common, boards, batch, created, bounds>>

PublishBatch ==
  /\ Step("cards") /\ session.done = Rec.cards
  /\ batch' = [batch EXCEPT ![B] = @ \cup {R}]
  /\ Go("complete")
  /\ UNCHANGED <<common, boards, file, created, bounds>>

Complete ==
  /\ Step("complete")
  /\ journal' = [journal EXCEPT ![B] =
       (@ \ {Rec}) \cup {[Rec EXCEPT !.status = "completed"]}]
  /\ Go("clear")
  /\ UNCHANGED <<common, ids, protocol, files, bounds>>

\* finishBundle.
Clear ==
  /\ Step("clear") /\ OwnMarker(B, R)
  /\ common' = [common EXCEPT !.pending = NoMarker]
  /\ session' = NoSession
  /\ UNCHANGED <<boards, files, bounds>>

-----------------------------------------------------------------------------
(* What else happens.                                                      *)

\* A check of the publication fails; what is written stays.
Refused ==
  CASE session.at = "resume" -> ~Resumable(B, Rec)
    [] session.at = "reserve" ->
         common.on /\ common.pending = NoMarker /\ ~Reservable(Rec)
    [] session.at = "cards" ->
         \E i \in Rec.cards \ session.done : file[B][i] \notin {Gone, R}
    [] session.at = "adopt" -> ~Allocatable(R, Ledger(B))
    [] OTHER -> FALSE

Refuse ==
  /\ session # NoSession /\ Refused
  /\ session' = NoSession
  /\ UNCHANGED <<common, boards, files, bounds>>

\* A write fails, or the process is killed; its locks are removed by hand.
Stop ==
  /\ session # NoSession /\ stops < MaxStops
  /\ session' = NoSession /\ stops' = stops + 1
  /\ UNCHANGED <<common, boards, files, edits>>

\* Any other command that gives out an identifier (SharedIds has its steps).
CreateCard(b, i) ==
  /\ session = NoSession /\ GateOpen(b) /\ i \notin Ledger(b)
  /\ Cardinality(UNION {created[c] : c \in Board}) < MaxCreated
  /\ ids' = [ids EXCEPT ![b] = Ledger(b) \cup {i}]
  /\ common' = IF common.on THEN [common EXCEPT !.reserved = @ \cup Ledger(b) \cup {i}]
               ELSE common
  /\ file' = [file EXCEPT ![b][i] = Plain]
  /\ created' = [created EXCEPT ![b] = @ \cup {i}]
  /\ UNCHANGED <<protocol, journal, batch, session, bounds>>

\* An editor writes a file where a card is or will be, or deletes one.
Edit(b, i) ==
  /\ edits < MaxEdits /\ edits' = edits + 1
  /\ \E c \in {Foreign, Gone} \ {file[b][i]} : file' = [file EXCEPT ![b][i] = c]
  /\ UNCHANGED <<common, boards, batch, created, session, stops>>

Work ==
  \/ AdoptJournal \/ AdoptLocal \/ AdoptCommon \/ SavePending
  \/ Resume \/ Reserve \/ PublishLedger \/ PublishCard \/ PublishBatch
  \/ Complete \/ Clear \/ Refuse

Next ==
  \/ Work \/ Stop
  \/ \E b \in Board, r \in Request :
       OpenNew(b, r) \/ OpenPending(b, r) \/ OpenCompleted(b, r)
  \/ \E b \in Board, i \in Id : CreateCard(b, i) \/ Edit(b, i)

\* A command goes on until it ends, and the same request is sent again while
\* it is not answered.
Fairness ==
  /\ WF_vars(Work)
  /\ \A b \in Board, r \in Request :
       WF_vars(OpenPending(b, r)) /\ WF_vars(OpenCompleted(b, r))

Spec == Init /\ [][Next]_vars /\ Fairness

-----------------------------------------------------------------------------
(* Properties.                                                             *)

\* Other commands never meet half a bundle: where they are let in, a request
\* has all its cards, its batch and its identifiers in the ledgers, or none of
\* it, unless an editor was there (checkBundleGate, acquireShared).
OthersSeeWhole ==
  edits = 0 => \A b \in Board : GateOpen(b) => \A x \in Records(b) :
    /\ \A i \in x.cards : file[b][i] = x.request
    /\ x.request \in batch[b]
    /\ x.cards \subseteq ids[b] \cap (IF common.on THEN common.reserved ELSE ids[b])

\* What a publication promises: each request once, whole, with identifiers
\* nobody else was given, in whichever worktree, and through kills and
\* resumptions (TaskIssue; prepareRecord, reserveBundle, validateResume).
Issue == INSTANCE TaskIssue WITH
  Create <- Plain,
  shared <- common.on,
  issued <- [b \in Board |->
     [id : created[b], to : {Plain}] \cup
     UNION {[id : x.cards, to : {x.request}] : x \in Records(b) \ Pending(b)}]

ImplementsIssue == Issue!Spec

\* Some pending record has lost its identifiers to another worktree before its
\* marker was published.
Outrun ==
  common.on /\ \E b \in Board : \E x \in Pending(b) :
    common.pending = NoMarker /\ x.cards \cap common.reserved # {}

Unfinished == common.pending # NoMarker \/ \E b \in Board : Pending(b) # {}

Settled == ~Unfinished \/ Outrun \/ edits > 0

\* What was recorded is published in the end, unless an editor stands against
\* it or its identifiers were given to another (--resume).
Resumed == Unfinished ~> Settled

=============================================================================
