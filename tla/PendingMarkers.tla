--------------------------- MODULE PendingMarkers ---------------------------
(***************************************************************************)
(* The operations that leave a pending marker in the common state: those   *)
(* of storage, and the publication of a bundle.  A behaviour is that of    *)
(* one of them, and the files of the other rest; that a pending one        *)
(* refuses the other is in neither module.  The variables of storage have  *)
(* no prefix.                                                              *)
(***************************************************************************)
EXTENDS StorageOperations

CONSTANTS
  BundleRequest, Explicit, Automatic, MaxId, MaxCreated, Plain, Foreign, NoMarker

VARIABLES
  which,   \* the operations of this behaviour
  b_common, b_ids, b_protocol, b_journal, b_file, b_batch, b_created, b_session,
  b_stops, b_edits

bundles == <<b_common, b_ids, b_protocol, b_journal, b_file, b_batch, b_created,
             b_session, b_stops, b_edits>>
all == <<which, vars, bundles>>

Bundle == INSTANCE BundlePublication WITH
  Request <- BundleRequest,
  common <- b_common, ids <- b_ids, protocol <- b_protocol, journal <- b_journal,
  file <- b_file, batch <- b_batch, created <- b_created, session <- b_session,
  stops <- b_stops, edits <- b_edits

-----------------------------------------------------------------------------
ForStorage == which = "storage" /\ UNCHANGED <<which, bundles>>
ForBundle == which = "bundle" /\ UNCHANGED <<which, vars>>

Begins ==
  /\ which \in {"storage", "bundle"}
  /\ Init /\ (which # "storage" => ~common.on)
  /\ Bundle!Init /\ (which # "bundle" => ~b_common.on)

Continues == (ForStorage /\ Next) \/ (ForBundle /\ Bundle!Next)

\* The fairness of each module; at rest no bundle is pending.
Fairly ==
  /\ WF_all(ForStorage /\ Work)
  /\ \A b \in Board : WF_all(ForStorage /\ ResumeUpgrade(b))
  /\ \A b \in Board, r \in Request : WF_all(ForStorage /\ Begin(b, r))
  /\ Bundle!Fairness

Behaviour == Begins /\ [][Continues]_all /\ Fairly

-----------------------------------------------------------------------------
(* Properties; EditsKept is that of StorageOperations.                     *)

\* Types, and ordinary commands never meet half an operation of storage, or
\* half a bundle (checkStorageGate, checkBundleGate).
OthersSeeWhole ==
  IF which = "storage" THEN StorageHolds ELSE Bundle!TypeOK /\ Bundle!OthersSeeWhole

\* A publication implements the abstract issuing of identifiers (TaskIssue,
\* prepareRecord, reserveBundle).
ImplementsIssue == Bundle!ImplementsIssue

\* What was begun is finished by its own request, whatever was killed (Recover*,
\* --resume), unless an editor or a lost file stands against it.
Finished == Recovered /\ Bundle!Resumed

=============================================================================
