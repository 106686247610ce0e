----------------------- MODULE PendingMarkers_proofs -----------------------
(***************************************************************************)
(* Proofs about the operations that leave a pending marker in the common   *)
(* state (PendingMarkers): those of storage, and the publication of a      *)
(* bundle; for any boards, requests, places, identifiers, *)
(* kills, edits and lost journals.  The names of BundlePublication begin   *)
(* with Bundle!, and those of its variables with b_.                       *)
(***************************************************************************)
EXTENDS PendingMarkers, FiniteSetTheorems, WellFoundedInduction, TLAPS

-----------------------------------------------------------------------------
(* Storage operations.                                                     *)

\* At most one marker, of an operation or of an upgrade, and only under sharing.
OneMarker ==
  /\ \A m, n \in common.pending : m = n
  /\ \A b, c \in common.upgrade : b = c
  /\ common.pending = {} \/ common.upgrade = {}
  /\ ~common.on => common.pending = {} /\ common.upgrade = {}

\* The types, but for the number of markers.
Typed ==
  /\ common \in CommonState
  /\ journal \in [Board -> [Family -> Journal \cup {Missing}]]
  /\ marker \in [Board -> 0..5]
  /\ schema \in [Board -> 1..2]
  /\ capacity \in [Board -> {"absent", "pending", "completed"}]
  /\ file \in [Board -> [Place -> Content \cup {Edited, Gone}]]
  /\ claim \in [Board -> Owner \cup {NoClaim}]
  /\ session \in Session \cup {NoSession}
  /\ stops \in 0..MaxStops /\ edits \in 0..MaxEdits
  /\ \A b \in Board, f \in Family : journal[b][f] = Missing \/ Decoded(f, journal[b][f])

\* A marker is good for writing its journal again, whenever that happens.
MarkerFits(m) ==
  /\ m.family = Operation[m.request].family
  /\ Decoded(m.family, m.original) /\ m.original.pending = NoRequest
  /\ m.request \notin m.original.completed
  /\ claim[m.owner] = Operation[m.request].claim

Of(m, b, r) == m.owner = b /\ m.request = r

\* A pending record has its marker, and the claim it was granted for.
Marked == common.on =>
  \A b \in Board, r \in Request : Recorded(b, r) => \E m \in common.pending : Of(m, b, r)
Granted == \A b \in Board, r \in Request : Recorded(b, r) => claim[b] = Operation[r].claim

\* Without a pending record, a card is at one place unless an editor was there.
Single(b) == \E p \in Place : At(b) = {p}
Whole == edits = 0 =>
  \A b \in Board : Single(b) \/ \E r \in Request : Recorded(b, r)

\* What the session has established at each step.
Fits(s) ==
  LET b == s.board
      r == s.request
      f == Operation[r].family
  IN  /\ s.at \in {"adopt", "record"} =>
           /\ claim[b] = Operation[r].claim
           /\ ~Completed(b, r) /\ ~Pending(b, f)
      /\ s.at = "adopt" => common.pending = {} /\ common.upgrade = {}
      /\ s.at = "record" => Exists(b, f) /\ (common.on => common.pending # {})
      /\ s.at \in {"record", "resume", "clear"} => \A m \in common.pending : Of(m, b, r)
      /\ s.at = "remove" => ~InPlace(r)
      /\ s.at = "clear" => Completed(b, r)
      /\ s.at \in UpgradeSteps => common.pending = {}
      /\ s.at = "mark" => common.upgrade \subseteq {b}

SessionFits == session # NoSession => Fits(session)

StorageInv ==
  /\ Typed /\ OneMarker /\ Marked /\ Granted /\ Whole
  /\ \A m \in common.pending : MarkerFits(m)
  /\ SessionFits

-----------------------------------------------------------------------------
\* What a request asks for.
LEMMA OperationTyped ==
  ASSUME NEW r \in Request
  PROVE  /\ Operation[r].family \in Family
         /\ Operation[r].from \in Place /\ Operation[r].to \in Place
         /\ Operation[r].old \in Content /\ Operation[r].new \in Content
         /\ Gone \notin Content /\ Edited \notin Content /\ Edited # Gone
         /\ NoRequest \notin Request
  BY StorageAssumption

\* What a session is about.
LEMMA SessionTyped ==
  ASSUME Typed, session # NoSession
  PROVE  /\ B \in Board
         /\ session.at \in OperationSteps =>
              /\ session \in [board : Board, request : Request, at : OperationSteps]
              /\ R \in Request /\ F \in Family
         /\ session.at \in UpgradeSteps =>
              /\ session \in [board : Board, request : {NoRequest}, at : UpgradeSteps]
              /\ R = NoRequest
<1>1. session \in Session
  BY DEF Typed
<1>2. CASE session \in [board : Board, request : Request, at : OperationSteps]
  <2>1. session.at \notin UpgradeSteps
    BY <1>2 DEF OperationSteps, UpgradeSteps
  <2> QED BY <1>2, <2>1, OperationTyped DEF B, R, F
<1>3. CASE session \in [board : Board, request : {NoRequest}, at : UpgradeSteps]
  <2>1. session.at \notin OperationSteps
    BY <1>3 DEF OperationSteps, UpgradeSteps
  <2> QED BY <1>3, <2>1 DEF B, R
<1> QED BY <1>1, <1>2, <1>3 DEF Session

\* One journal is written.
LEMMA JournalWritten ==
  ASSUME Typed, NEW b \in Board, NEW f \in Family, NEW j \in Journal \cup {Missing},
         j = Missing \/ Decoded(f, j), journal' = [journal EXCEPT ![b][f] = j]
  PROVE  /\ journal' \in [Board -> [Family -> Journal \cup {Missing}]]
         /\ \A c \in Board, e \in Family :
              /\ journal'[c][e] = IF c = b /\ e = f THEN j ELSE journal[c][e]
              /\ journal'[c][e] = Missing \/ Decoded(e, journal'[c][e])
<1>1. journal \in [Board -> [Family -> Journal \cup {Missing}]]
  BY DEF Typed
<1>2. journal[b] \in [Family -> Journal \cup {Missing}]
  BY <1>1
<1>3. journal' = [journal EXCEPT ![b] = [journal[b] EXCEPT ![f] = j]]
  BY <1>1
<1>4. [journal[b] EXCEPT ![f] = j] \in [Family -> Journal \cup {Missing}]
  BY <1>2
<1>5. journal' \in [Board -> [Family -> Journal \cup {Missing}]]
  BY <1>1, <1>3, <1>4
<1>6. \A c \in Board, e \in Family :
        journal'[c][e] = IF c = b /\ e = f THEN j ELSE journal[c][e]
  BY <1>1, <1>2, <1>3
<1>7. \A c \in Board, e \in Family : journal[c][e] = Missing \/ Decoded(e, journal[c][e])
  BY DEF Typed
<1> QED BY <1>5, <1>6, <1>7

\* The steps that a session goes to.
LEMMA GoesTo ==
  ASSUME Typed, session # NoSession, NEW at, Go(at),
         \/ session.at \in OperationSteps /\ at \in OperationSteps
         \/ session.at \in UpgradeSteps /\ at \in UpgradeSteps
  PROVE  /\ session' \in Session
         /\ session'.board = B /\ session'.request = R /\ session'.at = at
<1>1. CASE session.at \in OperationSteps /\ at \in OperationSteps
  BY <1>1, SessionTyped DEF Go, Session, B, R
<1>2. CASE session.at \in UpgradeSteps /\ at \in UpgradeSteps
  BY <1>2, SessionTyped DEF Go, Session, B, R
<1> QED BY <1>1, <1>2

\* Steps that take up no record and leave markers and cards alone.
LEMMA QuietKeeps ==
  ASSUME StorageInv, Typed', UNCHANGED <<file, claim, common.on, common.pending>>,
         \A b \in Board, r \in Request : Recorded(b, r)' => Recorded(b, r),
         edits' = 0 => edits = 0 /\ \A b \in Board, r \in Request :
                                      Recorded(b, r) => Recorded(b, r)',
         \A b, c \in common'.upgrade : b = c,
         common'.upgrade # {} => common.on /\ common.pending = {},
         SessionFits'
  PROVE  StorageInv'
<1>1. OneMarker'
  BY DEF StorageInv, OneMarker
<1>2. \A m : MarkerFits(m)' <=> MarkerFits(m)
  BY DEF MarkerFits, Decoded
<1>3. \A m, b, r : Of(m, b, r)' <=> Of(m, b, r)
  BY DEF Of
<1>4. Marked' /\ Granted'
  BY <1>3 DEF StorageInv, Marked, Granted
<1>5. \A b : Single(b)' <=> Single(b)
  BY DEF At, Single
<1>6. Whole'
  <2>1. Whole
    BY DEF StorageInv
  <2> QED BY <1>5, <2>1 DEF Whole
<1> QED BY <1>1, <1>2, <1>4, <1>6 DEF StorageInv

\* A session that does not concern the marker of an operation.
LEMMA IdleFits ==
  ASSUME StorageInv, UNCHANGED <<common, journal, claim>>, NEW s, Fits(s)
  PROVE  Fits(s)'
  BY DEF Fits, Completed, Pending, Exists, Of, InPlace

\* A command opens, on a new request or on one that is pending or completed.
LEMMA OpenKeeps ==
  ASSUME StorageInv, NEW b \in Board, NEW r \in Request,
         OpenReserved(b, r) \/ OpenRecorded(b, r) \/ OpenCompleted(b, r) \/ OpenNew(b, r)
  PROVE  StorageInv'
<1>1. PICK at \in {"resume", "publish", "clear", "adopt"} :
        /\ Open(b, r, at)
        /\ at = "clear" => Completed(b, r)
        /\ at = "adopt" => /\ ~Recorded(b, r) /\ ~Completed(b, r) /\ common.pending = {}
                           /\ Prepared(b, r)
  BY DEF OpenReserved, OpenRecorded, OpenCompleted, OpenNew
<1>2. /\ UNCHANGED <<common, boards, cards, bounds>> /\ session = NoSession
      /\ Admitted(b, r)
      /\ session' = [board |-> b, request |-> r, at |-> at]
  BY <1>1 DEF Open
<1>3. Operation[r].family \in Family
  BY OperationTyped
<1>4. \A m \in common.pending : Of(m, b, r)
  BY <1>2 DEF Admitted, ReservationAdmitted, Of
<1>5. at = "adopt" =>
        /\ common.upgrade = {} /\ claim[b] = Operation[r].claim
        /\ ~Completed(b, r) /\ ~Pending(b, Operation[r].family)
  BY <1>1, <1>2, <1>3 DEF Admitted, NoOtherMarker, Prepared, Recorded, Pending, Exists
<1>6. PICK s : s = session'
  OBVIOUS
<1>7. Fits(s)'
  <2>1. Fits(s)
    BY <1>1, <1>2, <1>4, <1>5, <1>6 DEF Fits, UpgradeSteps
  <2> QED BY <1>2, <2>1, IdleFits DEF boards, cards
<1>8. Typed'
  <2>1. session' \in Session
    BY <1>2 DEF Session, OperationSteps
  <2> QED BY <1>2, <2>1 DEF StorageInv, Typed, Decoded, boards, cards, bounds
<1>9. \A c \in Board, q \in Request : Recorded(c, q)' <=> Recorded(c, q)
  BY <1>2 DEF Recorded, Exists, boards
<1>10. SessionFits'
  BY <1>6, <1>7 DEF SessionFits
<1> QED BY <1>2, <1>8, <1>9, <1>10, QuietKeeps DEF boards, cards, bounds, StorageInv, OneMarker

\* A session that ends without having written anything.
LEMMA LeavesKeeps ==
  ASSUME StorageInv, Refuse \/ Stop PROVE StorageInv'
<1>1. /\ UNCHANGED <<common, boards, cards, edits>> /\ session' = NoSession
      /\ stops' \in 0..MaxStops
  BY StorageAssumption DEF Refuse, Stop, bounds, StorageInv, Typed
<1>2. Typed' /\ SessionFits'
  BY <1>1 DEF StorageInv, Typed, Decoded, boards, cards, SessionFits
<1>3. \A c \in Board, q \in Request : Recorded(c, q)' <=> Recorded(c, q)
  BY <1>1 DEF Recorded, Exists, boards
<1> QED BY <1>1, <1>2, <1>3, QuietKeeps DEF boards, cards, StorageInv, OneMarker

\* adopt, adoptRelocation, adoptArchive: an empty journal and two numbers.
LEMMA AdoptKeeps ==
  ASSUME StorageInv, NEW f \in Family, AdoptJournal(f) \/ AdoptCommon(f) \/ AdoptMarker(f)
  PROVE  StorageInv'
<1>1. /\ session # NoSession /\ session.at = "adopt"
      /\ UNCHANGED <<schema, capacity, cards, session, bounds>>
  BY DEF AdoptJournal, AdoptCommon, AdoptMarker, Adopting, Step
<1>2. B \in Board /\ R \in Request /\ F \in Family
  BY <1>1, SessionTyped DEF StorageInv, OperationSteps
<1>3. Level(f) \in 0..5
  BY DEF Family, Level
<1>4. common' \in CommonState /\ marker' \in [Board -> 0..5]
        /\ common'.on = common.on /\ common'.pending = common.pending
        /\ common'.upgrade = common.upgrade
  <2> USE DEF StorageInv, Typed, CommonState
  <2>1. CASE AdoptJournal(f)
    BY <2>1 DEF AdoptJournal
  <2>2. CASE AdoptCommon(f)
    BY <1>3, <2>2 DEF AdoptCommon
  <2>3. CASE AdoptMarker(f)
    BY <1>3, <2>3 DEF AdoptMarker
  <2> QED BY <2>1, <2>2, <2>3
<1>5. EmptyJournal \in Journal /\ Decoded(f, EmptyJournal)
  BY DEF EmptyJournal, Journal, Decoded, StorageAssumption
<1>6. \/ journal' = journal
      \/ journal[B][f] = Missing /\ journal' = [journal EXCEPT ![B][f] = EmptyJournal]
  BY DEF AdoptJournal, AdoptCommon, AdoptMarker, Exists
<1>7. \A c \in Board, e \in Family :
        \/ journal'[c][e] = journal[c][e]
        \/ journal[c][e] = Missing /\ e = f /\ journal'[c][e] = EmptyJournal
  <2>1. PICK b \in Board : b = B
    BY <1>2
  <2>2. CASE journal' = [journal EXCEPT ![b][f] = EmptyJournal] /\ journal[b][f] = Missing
    BY <1>5, <2>2, JournalWritten DEF StorageInv
  <2> QED BY <1>6, <2>1, <2>2
<1>8. /\ journal' \in [Board -> [Family -> Journal \cup {Missing}]]
      /\ \A c \in Board, e \in Family :
           journal'[c][e] = Missing \/ Decoded(e, journal'[c][e])
  <2>1. CASE journal' = journal
    BY <2>1 DEF StorageInv, Typed
  <2>2. CASE journal' = [journal EXCEPT ![B][f] = EmptyJournal]
    BY <1>2, <1>5, <2>2, JournalWritten DEF StorageInv
  <2> QED BY <1>6, <2>1, <2>2
<1>9. Typed'
  BY <1>1, <1>4, <1>8 DEF StorageInv, Typed, cards, bounds, Decoded
<1>10. \A c \in Board, q \in Request : Recorded(c, q)' <=> Recorded(c, q)
  <2> SUFFICES ASSUME NEW c \in Board, NEW q \in Request
               PROVE  Recorded(c, q)' <=> Recorded(c, q)
    OBVIOUS
  <2>1. Operation[q].family \in Family /\ NoRequest # q
    BY OperationTyped
  <2> QED BY <1>7, <2>1 DEF Recorded, Exists, EmptyJournal
<1>11. SessionFits'
  <2>1. ~Completed(B, R)' /\ ~Pending(B, F)'
    BY <1>1, <1>2, <1>7 DEF StorageInv, SessionFits, Fits, Completed, Pending, Exists,
       EmptyJournal, B, R, F
  <2>2. Fits(session)
    BY <1>1 DEF StorageInv, SessionFits
  <2> QED BY <1>1, <1>4, <2>1, <2>2 DEF SessionFits, Fits, UpgradeSteps, cards, B, R, F
<1> QED BY <1>1, <1>4, <1>9, <1>10, <1>11, QuietKeeps DEF cards, bounds, StorageInv, OneMarker

\* A journal that is lost takes its record along.
LEMMA LoseKeeps ==
  ASSUME StorageInv, NEW b \in Board, NEW f \in Family, Lose(b, f)
  PROVE  StorageInv'
<1>1. /\ session = NoSession /\ journal' = [journal EXCEPT ![b][f] = Missing]
      /\ UNCHANGED <<common, marker, schema, capacity, cards, session, stops>>
      /\ edits' = edits + 1 /\ edits < MaxEdits
  BY DEF Lose
<1>2. \A c \in Board, e \in Family :
        journal'[c][e] = journal[c][e] \/ journal'[c][e] = Missing
  BY <1>1 DEF StorageInv, Typed
<1>3. journal' \in [Board -> [Family -> Journal \cup {Missing}]]
  BY <1>1 DEF StorageInv, Typed
<1>4. edits' \in 0..MaxEdits /\ edits' # 0
  BY <1>1, StorageAssumption DEF StorageInv, Typed
<1>5. Typed'
  BY <1>1, <1>2, <1>3, <1>4 DEF StorageInv, Typed, cards, Decoded
<1>6. \A c \in Board, q \in Request : Recorded(c, q)' => Recorded(c, q)
  BY <1>2, OperationTyped DEF Recorded, Exists
<1> QED
  BY <1>1, <1>4, <1>5, <1>6, QuietKeeps DEF cards, StorageInv, OneMarker, SessionFits

\* The upgrade of an archive journal writes no record and no card.
LEMMA UpgradeKeeps ==
  ASSUME StorageInv,
         \/ \E b \in Board : StartUpgrade(b) \/ ResumeUpgrade(b)
         \/ MarkUpgrade \/ RaiseMarker \/ Convert \/ CompleteUpgrade \/ UnmarkUpgrade
  PROVE  StorageInv'
<1>1. /\ UNCHANGED <<journal, cards, bounds, common.on, common.pending>>
      /\ common.pending = {}
  <2>1. CASE \E b \in Board : StartUpgrade(b) \/ ResumeUpgrade(b)
    BY <2>1 DEF StartUpgrade, ResumeUpgrade, UpgradeAdmitted, boards
  <2>2. CASE MarkUpgrade \/ RaiseMarker \/ Convert \/ CompleteUpgrade \/ UnmarkUpgrade
    <3>1. session # NoSession /\ session.at \in UpgradeSteps
      BY <2>2 DEF MarkUpgrade, RaiseMarker, Convert, CompleteUpgrade, UnmarkUpgrade, Step,
         UpgradeSteps
    <3>2. common.pending = {}
      BY <3>1 DEF StorageInv, SessionFits, Fits
    <3> QED BY <2>2, <3>2 DEF MarkUpgrade, RaiseMarker, Convert, CompleteUpgrade,
               UnmarkUpgrade, boards, StorageInv, Typed, CommonState
  <2> QED BY <2>1, <2>2
<1>2. /\ common' \in CommonState /\ marker' \in [Board -> 0..5] /\ schema' \in [Board -> 1..2]
      /\ capacity' \in [Board -> {"absent", "pending", "completed"}]
      /\ session' \in Session \cup {NoSession}
      /\ session' # NoSession => session'.at \in UpgradeSteps
      /\ \A b, c \in common'.upgrade : b = c
      /\ common'.upgrade # {} => common.on
      /\ session' # NoSession /\ session'.at = "mark" => common'.upgrade \subseteq {session'.board}
  <2> USE DEF StorageInv, Typed, OneMarker, UpgradeSteps, boards, B
  <2>1. ASSUME NEW b \in Board, OpenUpgrade(b)
        PROVE  /\ session' \in Session /\ session'.at = "mark" /\ session'.board = b
    BY <2>1 DEF OpenUpgrade, Session
  <2>2. CASE \E b \in Board : StartUpgrade(b)
    BY <2>1, <2>2 DEF StartUpgrade
  <2>3. CASE \E b \in Board : ResumeUpgrade(b)
    BY <2>1, <2>3 DEF ResumeUpgrade
  <2>4. CASE MarkUpgrade
    <3>1. session # NoSession /\ session.at = "mark" /\ common.upgrade \subseteq {B}
      BY <2>4 DEF MarkUpgrade, Step, SessionFits, Fits
    <3>2. B \in Board
      BY <3>1, SessionTyped
    <3>3. /\ session' \in Session /\ session'.board = B /\ session'.at = "raise"
      BY <2>4, <3>1, GoesTo DEF MarkUpgrade
    <3>4. \/ common' = common
          \/ common.on /\ common' = [common EXCEPT !.protocol = 5, !.upgrade = {B}]
      BY <2>4 DEF MarkUpgrade
    <3>5. common' \in CommonState /\ common'.upgrade \subseteq {B}
            /\ (common'.upgrade # {} => common.on)
      <4> HIDE DEF B
      <4>1. CASE common' = common
        BY <3>1, <4>1
      <4>2. CASE common.on /\ common' = [common EXCEPT !.protocol = 5, !.upgrade = {B}]
        <5>1. {B} \in SUBSET Board /\ 5 \in 0..5
          BY <3>2
        <5>2. common \in CommonState
          BY DEF Typed
        <5> QED BY <4>2, <5>1, <5>2 DEF CommonState
      <4> QED BY <3>4, <4>1, <4>2
    <3> QED BY <2>4, <3>3, <3>5 DEF MarkUpgrade
  <2>5. CASE RaiseMarker
    BY <2>5, SessionTyped, GoesTo DEF RaiseMarker, Step
  <2>6. CASE Convert
    BY <2>6, SessionTyped, GoesTo DEF Convert, Step
  <2>7. CASE CompleteUpgrade
    BY <2>7, SessionTyped, GoesTo DEF CompleteUpgrade, Step
  <2>8. CASE UnmarkUpgrade
    BY <2>8 DEF UnmarkUpgrade, CommonState
  <2> QED BY <2>2, <2>3, <2>4, <2>5, <2>6, <2>7, <2>8
<1>3. Typed'
  BY <1>1, <1>2 DEF StorageInv, Typed, cards, bounds, Decoded
<1>4. SessionFits'
  BY <1>1, <1>2 DEF SessionFits, Fits, UpgradeSteps
<1>5. \A c \in Board, q \in Request : Recorded(c, q)' <=> Recorded(c, q)
  BY <1>1 DEF Recorded, Exists
<1> QED BY <1>1, <1>2, <1>3, <1>4, <1>5, QuietKeeps DEF cards, bounds

\* A record that is taken up was granted, and has its marker under sharing.
LEMMA TakesUp ==
  ASSUME StorageInv, session # NoSession, session.at \in {"resume", "record"},
         NEW j \in Journal, Decoded(F, j), j.pending = R, SaveJournal(j), Go("publish"),
         UNCHANGED <<common, cards, bounds>>,
         claim[B] = Operation[R].claim,
         common.on => \E m \in common.pending : Of(m, B, R)
  PROVE  StorageInv'
<1>1. PICK b \in Board, r \in Request : b = B /\ r = R
  BY SessionTyped DEF StorageInv, OperationSteps
<1>2. PICK f \in Family : f = F /\ f = Operation[r].family
  BY <1>1, SessionTyped DEF StorageInv, OperationSteps, F
<1>3. /\ journal' \in [Board -> [Family -> Journal \cup {Missing}]]
      /\ \A c \in Board, e \in Family :
           /\ journal'[c][e] = IF c = b /\ e = f THEN j ELSE journal[c][e]
           /\ journal'[c][e] = Missing \/ Decoded(e, journal'[c][e])
  BY <1>1, <1>2, JournalWritten DEF StorageInv, SaveJournal
<1>4. /\ session' \in Session /\ session'.board = b /\ session'.request = r
      /\ session'.at = "publish"
  BY <1>1, GoesTo DEF StorageInv, OperationSteps
<1>5. Typed'
  BY <1>3, <1>4 DEF StorageInv, Typed, SaveJournal, cards, bounds
<1>6. \A c \in Board, q \in Request :
        /\ Recorded(c, q) => Recorded(c, q)' \/ c = b
        /\ Recorded(c, q)' => Recorded(c, q) \/ (c = b /\ q = r)
        /\ Recorded(b, r)'
  <2> SUFFICES ASSUME NEW c \in Board, NEW q \in Request
               PROVE  /\ Recorded(c, q) => Recorded(c, q)' \/ c = b
                      /\ Recorded(c, q)' => Recorded(c, q) \/ (c = b /\ q = r)
                      /\ Recorded(b, r)'
    OBVIOUS
  <2>1. Operation[q].family \in Family
    BY OperationTyped
  <2> QED BY <1>1, <1>2, <1>3, <2>1, MissingAssumption DEF Recorded, Exists
<1>7. Marked' /\ Granted'
  BY <1>1, <1>6 DEF StorageInv, Marked, Granted, Of, cards
<1>8. Whole'
  <2>1. \A c : Single(c)' <=> Single(c)
    BY DEF Single, At, cards
  <2>2. Whole /\ edits' = edits
    BY DEF StorageInv, bounds
  <2> QED BY <1>6, <2>1, <2>2 DEF Whole
<1>9. OneMarker' /\ \A m \in common'.pending : MarkerFits(m)'
  BY DEF StorageInv, OneMarker, MarkerFits, Decoded, cards
<1>10. SessionFits'
  BY <1>4 DEF SessionFits, Fits, UpgradeSteps
<1> QED BY <1>5, <1>7, <1>8, <1>9, <1>10 DEF StorageInv

\* resumeCommon, resumeRelocation, resumeArchive, resumeArchiveDelta: the
\* record is written from the marker.
LEMMA ResumeKeeps ==
  ASSUME StorageInv, Resume PROVE StorageInv'
<1>1. /\ session # NoSession /\ session.at = "resume" /\ Go("publish")
      /\ UNCHANGED <<common, cards, bounds>>
  BY DEF Resume, Step
<1>2. PICK m \in common.pending : SaveJournal(Target(m))
  BY DEF Resume
<1>3. B \in Board /\ R \in Request /\ F \in Family
  BY <1>1, SessionTyped DEF StorageInv, OperationSteps
<1>4. Of(m, B, R) /\ MarkerFits(m) /\ m \in Marker
  BY <1>1, <1>2 DEF StorageInv, SessionFits, Fits, Typed, CommonState, B, R
<1>5. m.family = F /\ m.original \in Journal
  BY <1>4 DEF MarkerFits, Of, F, Marker
<1>6. Target(m) \in Journal /\ Target(m).pending = R /\ Decoded(F, Target(m))
  BY <1>3, <1>4, <1>5 DEF Target, Journal, Decoded, MarkerFits, Of, F
<1> QED BY <1>1, <1>2, <1>4, <1>6, TakesUp DEF MarkerFits, Of

\* saveRepairJournal and its siblings: a pending record is written for a marker
\* or, without sharing, for what the session prepared.
LEMMA RecordKeeps ==
  ASSUME StorageInv, Record PROVE StorageInv'
<1>1. /\ session # NoSession /\ session.at = "record" /\ Go("publish")
      /\ UNCHANGED <<common, cards, bounds>>
  BY DEF Record, Step
<1>2. PICK b \in Board, r \in Request, f \in Family :
        b = B /\ r = R /\ f = F /\ f = Operation[r].family
  BY <1>1, SessionTyped DEF StorageInv, OperationSteps, F
<1>3. /\ claim[b] = Operation[r].claim /\ ~Completed(b, r) /\ Exists(b, f)
      /\ common.on => \E m \in common.pending : Of(m, b, r)
  BY <1>1, <1>2 DEF StorageInv, SessionFits, Fits, B, R
<1>4. journal[b][f] \in Journal /\ Decoded(f, journal[b][f]) /\ r \notin journal[b][f].completed
  BY <1>2, <1>3 DEF StorageInv, Typed, Exists, Completed
<1>5. PICK j : j = [journal[b][f] EXCEPT !.pending = r]
  OBVIOUS
<1>6. j \in Journal /\ Decoded(f, j) /\ j.pending = r
  BY <1>2, <1>4, <1>5 DEF Journal, Decoded
<1>7. SaveJournal(j)
  BY <1>2, <1>5 DEF Record
<1> QED BY <1>1, <1>2, <1>3, <1>6, <1>7, TakesUp

\* reserveCommon, reserveRelocation, reserveArchive: the marker is that of a
\* request that was prepared and never recorded.
LEMMA ReserveKeeps ==
  ASSUME StorageInv, Reserve PROVE StorageInv'
<1>1. /\ session # NoSession /\ session.at = "adopt" /\ Go("record")
      /\ UNCHANGED <<boards, cards, bounds>>
  BY DEF Reserve, Step
<1>2. PICK b \in Board, r \in Request, f \in Family :
        b = B /\ r = R /\ f = F /\ f = Operation[r].family
  BY <1>1, SessionTyped DEF StorageInv, OperationSteps, F
<1>3. /\ claim[b] = Operation[r].claim /\ ~Completed(b, r) /\ ~Pending(b, f)
      /\ common.pending = {} /\ common.upgrade = {}
  BY <1>1, <1>2 DEF StorageInv, SessionFits, Fits, B, R
<1>4. Exists(b, f)
  <2>1. Level(f) <= Level(f)
    BY DEF Level, Family
  <2> QED BY <1>2, <2>1 DEF Reserve, Reached
<1>5. /\ journal[b][f] \in Journal /\ Decoded(f, journal[b][f])
      /\ journal[b][f].pending = NoRequest /\ r \notin journal[b][f].completed
  BY <1>2, <1>3, <1>4 DEF StorageInv, Typed, Exists, Completed, Pending
<1>6. PICK m : m = [family |-> f, owner |-> b, request |-> r, original |-> journal[b][f]]
  OBVIOUS
<1>7. m \in Marker /\ Of(m, b, r) /\ MarkerFits(m)
  BY <1>2, <1>3, <1>5, <1>6 DEF Marker, Of, MarkerFits
<1>8. ReservedProtocol \in 0..5
  BY DEF ReservedProtocol, StorageInv, Typed, CommonState
<1>9. \/ ~common.on /\ common' = common
      \/ /\ common.on
         /\ common' = [common EXCEPT !.protocol = ReservedProtocol, !.pending = {m}]
  BY <1>2, <1>6 DEF Reserve
<1>10. /\ common' \in CommonState /\ common'.on = common.on /\ common'.upgrade = {}
       /\ common'.pending = IF common.on THEN {m} ELSE {}
  <2>1. common \in CommonState
    BY DEF StorageInv, Typed
  <2> HIDE DEF ReservedProtocol
  <2> QED BY <1>3, <1>7, <1>8, <1>9, <2>1 DEF CommonState
<1>11. /\ session' \in Session /\ session'.board = b /\ session'.request = r
       /\ session'.at = "record"
  BY <1>1, <1>2, GoesTo DEF StorageInv, OperationSteps
<1>12. Typed'
  BY <1>1, <1>10, <1>11 DEF StorageInv, Typed, boards, cards, bounds, Decoded
<1>13. \A c \in Board, q \in Request : Recorded(c, q)' <=> Recorded(c, q)
  BY <1>1 DEF Recorded, Exists, boards
<1>14. Marked' /\ Granted' /\ Whole'
  <2>1. \A c : Single(c)' <=> Single(c)
    BY <1>1 DEF Single, At, cards
  <2>2. Marked /\ Granted /\ Whole
    BY DEF StorageInv
  <2>3. Whole'
    BY <1>1, <1>13, <2>1, <2>2 DEF Whole, bounds
  <2> QED BY <1>1, <1>3, <1>10, <1>13, <2>2, <2>3 DEF Marked, Granted, cards
<1>15. OneMarker' /\ \A n \in common'.pending : MarkerFits(n)'
  BY <1>1, <1>7, <1>10 DEF OneMarker, MarkerFits, Decoded, cards
<1>16. SessionFits'
  <2>1. ~Completed(b, r)' /\ ~Pending(b, f)' /\ Exists(b, f)'
    BY <1>1, <1>3, <1>4 DEF Completed, Pending, Exists, boards
  <2> QED BY <1>1, <1>2, <1>3, <1>7, <1>10, <1>11, <2>1
          DEF SessionFits, Fits, UpgradeSteps, Of, cards
<1> QED BY <1>12, <1>14, <1>15, <1>16 DEF StorageInv

\* Publication and removal change the files of a pending record only.
LEMMA FilesKeep ==
  ASSUME StorageInv, session # NoSession, session.at \in {"publish", "remove"},
         Recorded(B, R), NEW at \in {"remove", "receipt"}, Go(at),
         at = "remove" => ~InPlace(R),
         NEW p \in Place, NEW x \in Content \cup {Gone},
         file' = [file EXCEPT ![B][p] = x],
         UNCHANGED <<common, boards, claim, bounds>>
  PROVE  StorageInv'
<1>1. PICK b \in Board, r \in Request : b = B /\ r = R
  BY SessionTyped DEF StorageInv, OperationSteps
<1>2. /\ session' \in Session /\ session'.board = b /\ session'.request = r
      /\ session'.at = at
  BY <1>1, GoesTo DEF StorageInv, OperationSteps
<1>3. file' \in [Board -> [Place -> Content \cup {Edited, Gone}]]
        /\ \A c \in Board : c # b => file'[c] = file[c]
  BY <1>1 DEF StorageInv, Typed
<1>4. Typed'
  BY <1>2, <1>3 DEF StorageInv, Typed, boards, bounds, Decoded
<1>5. \A c \in Board, q \in Request : Recorded(c, q)' <=> Recorded(c, q)
  BY DEF Recorded, Exists, boards
<1>6. Marked' /\ Granted' /\ OneMarker' /\ \A m \in common'.pending : MarkerFits(m)'
  BY <1>5 DEF StorageInv, Marked, Granted, OneMarker, MarkerFits, Decoded, Of
<1>7. Whole'
  <2>1. \A c \in Board : c # b => (Single(c)' <=> Single(c))
    BY <1>3 DEF Single, At
  <2>2. Whole /\ edits' = edits /\ Recorded(b, r)
    BY <1>1 DEF StorageInv, bounds
  <2> QED BY <1>5, <2>1, <2>2 DEF Whole
<1>8. SessionFits'
  BY <1>1, <1>2 DEF SessionFits, Fits, UpgradeSteps, InPlace
<1> QED BY <1>4, <1>6, <1>7, <1>8 DEF StorageInv

\* The card is written at its target.
LEMMA PublishKeeps ==
  ASSUME StorageInv, Publish PROVE StorageInv'
<1>1. session # NoSession /\ session.at = "publish" /\ Recorded(B, R)
  BY DEF Publish, Step, Authorized
<1>2. R \in Request
  BY <1>1, SessionTyped DEF StorageInv, OperationSteps
<1>3. PICK at \in {"remove", "receipt"} : Go(at) /\ (at = "remove" => ~InPlace(R))
  BY DEF Publish
<1> QED BY <1>1, <1>2, <1>3, FilesKeep, OperationTyped DEF Publish

\* The card is removed from where it was.
LEMMA RemoveSourceKeeps ==
  ASSUME StorageInv, RemoveSource PROVE StorageInv'
<1>1. session # NoSession /\ session.at = "remove" /\ Recorded(B, R)
  BY DEF RemoveSource, Step, Authorized
<1>2. R \in Request
  BY <1>1, SessionTyped DEF StorageInv, OperationSteps
<1> QED BY <1>1, <1>2, FilesKeep, OperationTyped DEF RemoveSource

\* finishRepair, finishRelocation, finishArchive, finishLegacy: when the record
\* is completed, the card is at its target alone.
LEMMA CompleteKeeps ==
  ASSUME StorageInv, Complete PROVE StorageInv'
<1>1. /\ session # NoSession /\ session.at = "receipt" /\ Go("clear")
      /\ UNCHANGED <<common, cards, bounds>>
      /\ Authorized(B, R) /\ Applied(B, R)
  BY DEF Complete, Step
<1>2. PICK b \in Board, r \in Request, f \in Family :
        b = B /\ r = R /\ f = F /\ f = Operation[r].family
  BY <1>1, SessionTyped DEF StorageInv, OperationSteps, F
<1>3. Recorded(b, r)
  BY <1>1, <1>2 DEF Authorized
<1>4. journal[b][f] \in Journal /\ Decoded(f, journal[b][f])
  BY <1>2, <1>3 DEF StorageInv, Typed, Recorded, Exists
<1>5. PICK j : j = [journal[b][f] EXCEPT !.pending = NoRequest, !.completed = @ \cup {r}]
  OBVIOUS
<1>6. j \in Journal /\ Decoded(f, j) /\ j.pending = NoRequest /\ r \in j.completed
  <2>1. NoRequest \notin Request
    BY StorageAssumption
  <2> QED BY <1>2, <1>4, <1>5, <2>1 DEF Journal, Decoded
<1>7. /\ journal' \in [Board -> [Family -> Journal \cup {Missing}]]
      /\ \A c \in Board, e \in Family :
           /\ journal'[c][e] = IF c = b /\ e = f THEN j ELSE journal[c][e]
           /\ journal'[c][e] = Missing \/ Decoded(e, journal'[c][e])
  <2>1. journal' = [journal EXCEPT ![b][f] = j] /\ UNCHANGED <<marker, schema, capacity>>
    BY <1>2, <1>5 DEF Complete, SaveJournal
  <2> QED BY <1>6, <2>1, JournalWritten DEF StorageInv
<1>8. /\ session' \in Session /\ session'.board = b /\ session'.request = r
      /\ session'.at = "clear"
  BY <1>1, <1>2, GoesTo DEF StorageInv, OperationSteps
<1>9. Typed'
  BY <1>1, <1>7, <1>8 DEF StorageInv, Typed, Complete, SaveJournal, cards, bounds
<1>10. \A c \in Board, q \in Request :
         /\ Recorded(c, q)' => Recorded(c, q)
         /\ Recorded(c, q) => Recorded(c, q)' \/ c = b
  <2> SUFFICES ASSUME NEW c \in Board, NEW q \in Request
               PROVE  /\ Recorded(c, q)' => Recorded(c, q)
                      /\ Recorded(c, q) => Recorded(c, q)' \/ c = b
    OBVIOUS
  <2>1. Operation[q].family \in Family /\ q # NoRequest
    BY OperationTyped
  <2> QED BY <1>6, <1>7, <2>1 DEF Recorded, Exists
<1>11. Marked' /\ Granted'
  BY <1>1, <1>10 DEF StorageInv, Marked, Granted, Of, cards
<1>12. Whole'
  <2>1. Single(b)
    <3>1. Operation[r].to \in Place /\ Operation[r].new # Gone
      BY OperationTyped
    <3>2. /\ file[b][Operation[r].to] = Operation[r].new
          /\ Operation[r].from = Operation[r].to \/ file[b][Operation[r].from] = Gone
          /\ At(b) \subseteq {Operation[r].from, Operation[r].to}
      BY <1>1, <1>2 DEF Applied, Authorized, InPlace
    <3>3. At(b) = {Operation[r].to}
      BY <3>1, <3>2 DEF At
    <3> QED BY <3>1, <3>3 DEF Single
  <2>2. \A c : Single(c)' <=> Single(c)
    BY <1>1 DEF Single, At, cards
  <2>3. Whole /\ edits' = edits
    BY <1>1 DEF StorageInv, bounds
  <2> QED BY <1>10, <2>1, <2>2, <2>3 DEF Whole
<1>13. OneMarker' /\ \A m \in common'.pending : MarkerFits(m)'
  BY <1>1 DEF StorageInv, OneMarker, MarkerFits, Decoded, cards
<1>14. SessionFits'
  <2>1. Completed(b, r)'
    BY <1>2, <1>6, <1>7, MissingAssumption DEF Completed, Exists
  <2>2. \A m \in common.pending : Of(m, b, r)
    BY <1>3 DEF StorageInv, Marked, OneMarker
  <2> QED BY <1>1, <1>8, <2>1, <2>2 DEF SessionFits, Fits, UpgradeSteps, Of
<1> QED BY <1>9, <1>11, <1>12, <1>13, <1>14 DEF StorageInv

\* A request is not both pending and completed.
LEMMA OnceRecorded ==
  ASSUME Typed, NEW b \in Board, NEW r \in Request
  PROVE  ~(Recorded(b, r) /\ Completed(b, r))
<1>1. Operation[r].family \in Family
  BY OperationTyped
<1> QED BY <1>1 DEF Typed, Recorded, Completed, Exists, Decoded

\* clearCommon, clearRelocation, clearArchive, clearArchiveDelta: the marker
\* that goes is that of a completed record.
LEMMA ClearKeeps ==
  ASSUME StorageInv, Clear PROVE StorageInv'
<1>1. /\ session # NoSession /\ session.at = "clear" /\ session' = NoSession
      /\ common' = [common EXCEPT !.pending = {}] /\ UNCHANGED <<boards, cards, bounds>>
  BY DEF Clear, Step
<1>2. PICK b \in Board, r \in Request : b = B /\ r = R
  BY <1>1, SessionTyped DEF StorageInv, OperationSteps
<1>3. Completed(b, r) /\ \A m \in common.pending : Of(m, b, r)
  BY <1>1, <1>2 DEF StorageInv, SessionFits, Fits, B, R
<1>4. /\ common' \in CommonState /\ common'.on = common.on /\ common'.pending = {}
      /\ common'.upgrade = common.upgrade
  BY <1>1 DEF StorageInv, Typed, CommonState
<1>5. Typed'
  BY <1>1, <1>4 DEF StorageInv, Typed, boards, cards, bounds, Decoded
<1>6. \A c \in Board, q \in Request : Recorded(c, q)' <=> Recorded(c, q)
  BY <1>1 DEF Recorded, Exists, boards
<1>7. ASSUME common.on, NEW c \in Board, NEW q \in Request PROVE ~Recorded(c, q)
  <2>1. Recorded(c, q) => c = b /\ q = r
    BY <1>3, <1>7 DEF StorageInv, Marked, Of
  <2> QED BY <1>3, <2>1, OnceRecorded DEF StorageInv
<1>8. Whole'
  <2>1. \A c : Single(c)' <=> Single(c)
    BY <1>1 DEF Single, At, cards
  <2>2. Whole /\ edits' = edits
    BY <1>1 DEF StorageInv, bounds
  <2> QED BY <1>6, <2>1, <2>2 DEF Whole
<1> QED BY <1>1, <1>4, <1>5, <1>6, <1>7, <1>8
        DEF StorageInv, Marked, Granted, OneMarker, SessionFits, cards

\* GateOpen lets other commands in only where no record is pending.
LEMMA GateShut ==
  ASSUME Typed, NEW b \in Board, GateOpen(b)
  PROVE  /\ common.pending = {} /\ \A f \in Family : ~Pending(b, f)
         /\ \A r \in Request : ~Recorded(b, r)
<1>1. common.pending = {}
  BY DEF GateOpen, NoOtherMarker
<1>2. \A f \in Family : ~Pending(b, f)
  BY DEF GateOpen, ArchiveIdle, Idle, Family
<1> QED BY <1>1, <1>2, OperationTyped DEF Recorded, Pending

\* The claims of other commands.
LEMMA OrdinaryKeeps ==
  ASSUME StorageInv, NEW b \in Board, Ordinary(b) PROVE StorageInv'
<1>1. /\ session = NoSession /\ GateOpen(b)
      /\ UNCHANGED <<common, boards, file, session, bounds>>
  BY DEF Ordinary
<1>2. /\ claim' \in [Board -> Owner \cup {NoClaim}]
      /\ \A c \in Board : c # b => claim'[c] = claim[c]
  BY DEF Ordinary, StorageInv, Typed
<1>3. common.pending = {} /\ \A r \in Request : ~Recorded(b, r)
  BY <1>1, GateShut DEF StorageInv
<1>4. Typed'
  BY <1>1, <1>2 DEF StorageInv, Typed, boards, bounds, Decoded
<1>5. \A c \in Board, q \in Request : Recorded(c, q)' <=> Recorded(c, q)
  BY <1>1 DEF Recorded, Exists, boards
<1>6. Whole'
  <2>1. \A c : Single(c)' <=> Single(c)
    BY <1>1 DEF Single, At
  <2>2. Whole /\ edits' = edits
    BY <1>1 DEF StorageInv, bounds
  <2> QED BY <1>5, <2>1, <2>2 DEF Whole
<1>7. Marked' /\ Granted'
  BY <1>1, <1>2, <1>3, <1>5 DEF StorageInv, Marked, Granted
<1> QED BY <1>1, <1>3, <1>4, <1>6, <1>7 DEF StorageInv, OneMarker, SessionFits

\* An editor's act leaves a trace in the number of edits.
LEMMA EditKeeps ==
  ASSUME StorageInv, NEW b \in Board, NEW p \in Place, Edit(b, p) PROVE StorageInv'
<1>1. /\ UNCHANGED <<common, boards, claim, session, stops>>
      /\ edits' = edits + 1 /\ edits < MaxEdits
  BY DEF Edit
<1>2. edits' \in 0..MaxEdits /\ edits' # 0
  BY <1>1, StorageAssumption DEF StorageInv, Typed
<1>3. file' \in [Board -> [Place -> Content \cup {Edited, Gone}]]
  BY DEF Edit, StorageInv, Typed
<1>4. Typed'
  BY <1>1, <1>2, <1>3 DEF StorageInv, Typed, boards, Decoded
<1>5. \A c \in Board, q \in Request : Recorded(c, q)' <=> Recorded(c, q)
  BY <1>1 DEF Recorded, Exists, boards
<1>6. SessionFits'
  <2>1. PICK s : s = session
    OBVIOUS
  <2>2. s # NoSession => Fits(s)'
    BY <1>1, <2>1, IdleFits DEF StorageInv, SessionFits, boards
  <2> QED BY <1>1, <2>1, <2>2 DEF SessionFits
<1> QED BY <1>1, <1>2, <1>4, <1>5, <1>6
        DEF StorageInv, OneMarker, Marked, Granted, Whole, MarkerFits, Decoded, Of

-----------------------------------------------------------------------------
\* The invariant holds at first, is kept by every step, and so holds always.
LEMMA StorageBegins == Init => StorageInv
<1> SUFFICES ASSUME Init PROVE StorageInv
  OBVIOUS
<1>1. Typed
  BY StorageAssumption DEF Init, Typed, CommonState
<1>2. \A b \in Board, r \in Request : ~Recorded(b, r)
  BY OperationTyped DEF Init, Recorded, Exists
<1>3. \A b \in Board : At(b) = {First}
  BY StorageAssumption DEF Init, At
<1> QED BY <1>1, <1>2, <1>3, StorageAssumption
        DEF Init, StorageInv, OneMarker, Marked, Granted, Whole, Single, SessionFits

LEMMA StorageSteps == StorageInv /\ [Next]_vars => StorageInv'
<1> SUFFICES ASSUME StorageInv, [Next]_vars PROVE StorageInv'
  OBVIOUS
<1>1. CASE \E b \in Board, r \in Request : Begin(b, r) \/ OpenNew(b, r)
  BY <1>1, OpenKeeps DEF Begin
<1>2. CASE Work
  BY <1>2, ResumeKeeps, ReserveKeeps, RecordKeeps, PublishKeeps, RemoveSourceKeeps,
     CompleteKeeps, ClearKeeps, AdoptKeeps, UpgradeKeeps, LeavesKeeps DEF Work
<1>3. CASE \E b \in Board : StartUpgrade(b) \/ ResumeUpgrade(b) \/ Ordinary(b)
  BY <1>3, UpgradeKeeps, OrdinaryKeeps
<1>4. CASE \E b \in Board, p \in Place : Edit(b, p)
  BY <1>4, EditKeeps
<1>5. CASE \E b \in Board, f \in Family : Lose(b, f)
  BY <1>5, LoseKeeps
<1>6. CASE Stop
  BY <1>6, LeavesKeeps
<1>7. CASE UNCHANGED vars
  <2>1. SessionFits'
    <3>1. PICK s : s = session
      OBVIOUS
    <3>2. s # NoSession => Fits(s)'
      BY <1>7, <3>1, IdleFits DEF StorageInv, SessionFits, vars
    <3> QED BY <1>7, <3>1, <3>2 DEF SessionFits, vars
  <2>2. Typed'
    BY <1>7 DEF StorageInv, Typed, Decoded, vars
  <2>3. \A c \in Board, q \in Request : Recorded(c, q)' <=> Recorded(c, q)
    BY <1>7 DEF Recorded, Exists, vars
  <2> QED BY <1>7, <2>1, <2>2, <2>3, QuietKeeps DEF StorageInv, OneMarker, vars
<1> QED BY <1>1, <1>2, <1>3, <1>4, <1>5, <1>6, <1>7 DEF Next

LEMMA StorageInvAlways == Spec => []StorageInv
  BY StorageBegins, StorageSteps, PTL DEF Spec

\* The invariant implies what is promised.
LEMMA InvHolds ==
  ASSUME StorageInv PROVE StorageHolds
<1>1. Cardinality(common.pending) + Cardinality(common.upgrade) <= 1
  <2>1. \/ common.pending = {} /\ common.upgrade = {}
        \/ common.pending = {} /\ \E b : common.upgrade = {b}
        \/ common.upgrade = {} /\ \E m : common.pending = {m}
    BY DEF StorageInv, OneMarker
  <2>2. \A S : S = {} => Cardinality(S) = 0
    BY FS_EmptySet
  <2>3. \A S, x : S = {x} => Cardinality(S) = 1
    BY FS_Singleton
  <2>4. ASSUME NEW n, n = Cardinality(common.pending),
               NEW m, m = Cardinality(common.upgrade)
        PROVE  \/ n = 0 /\ m = 0
               \/ n = 0 /\ m = 1
               \/ n = 1 /\ m = 0
    BY <2>1, <2>2, <2>3, <2>4
  <2> QED BY <2>4
<1>2. TypeOK
  BY <1>1 DEF StorageInv, Typed, TypeOK
<1>3. PendingMarked
  <2> SUFFICES ASSUME common.on, NEW b \in Board, NEW r \in Request, Recorded(b, r)
               PROVE  /\ \E m \in common.pending : m.owner = b /\ m.request = r
                      /\ \A c \in Board, f \in Family : Pending(c, f) => c = b
    BY DEF PendingMarked
  <2>1. PICK m \in common.pending : Of(m, b, r)
    BY DEF StorageInv, Marked
  <2>2. ASSUME NEW c \in Board, NEW f \in Family, Pending(c, f) PROVE c = b
    <3>1. PICK q \in Request : q = journal[c][f].pending
      BY <2>2 DEF StorageInv, Typed, Pending, Exists, Journal
    <3>2. Operation[q].family = f
      BY <2>2, <3>1, OperationTyped DEF StorageInv, Typed, Pending, Exists, Decoded
    <3>3. Recorded(c, q)
      BY <2>2, <3>1, <3>2 DEF Recorded, Pending
    <3>4. PICK n \in common.pending : Of(n, c, q)
      BY <3>3 DEF StorageInv, Marked
    <3> QED BY <2>1, <3>4 DEF StorageInv, OneMarker, Of
  <2> QED BY <2>1, <2>2 DEF Of
<1>4. OrdinarySeesWhole
  <2>1. ASSUME NEW b \in Board, edits = 0, GateOpen(b) PROVE Cardinality(At(b)) = 1
    <3>1. Single(b)
      BY <2>1, GateShut DEF StorageInv, Whole
    <3> QED BY <3>1, FS_Singleton DEF Single
  <2> QED BY <2>1, GateShut DEF OrdinarySeesWhole, StorageInv, Granted
<1> QED BY <1>2, <1>3, <1>4 DEF StorageHolds

\* In every reachable state of StorageOperations the types hold, under sharing a
\* pending record has its marker, and an ordinary command is let in only where no
\* operation is half done (reserveCommon, saveRepairJournal, clearCommon,
\* checkStorageGate, acquireShared, verifyPending*).
THEOREM StorageHoldsAlways == Spec => []StorageHolds
<1>1. StorageInv => StorageHolds
  BY InvHolds
<1> QED BY <1>1, StorageInvAlways, PTL

\* No step but an editor's own removes or overwrites what an editor wrote, and none
\* makes a card vanish (inspectRepairFile, relocateFiles).
THEOREM EditsKeptAlways == Spec => EditsKept
<1> DEFINE Keeps == edits' = edits => \A b \in Board :
             /\ \A p \in Place : file[b][p] = Edited => file'[b][p] = Edited
             /\ At(b) # {} => At(b)' # {}
<1>1. ASSUME StorageInv, [Next]_vars PROVE [Keeps]_vars
  <2>1. CASE Publish \/ RemoveSource
    <3>1. session # NoSession /\ session.at \in {"publish", "remove"}
      BY <2>1 DEF Publish, RemoveSource, Step
    <3>2. PICK b \in Board, r \in Request : b = B /\ r = R
      BY <1>1, <3>1, SessionTyped DEF StorageInv, OperationSteps
    <3>3. /\ Operation[r].from \in Place /\ Operation[r].to \in Place
          /\ Operation[r].new \in Content /\ Operation[r].old \in Content
          /\ Gone \notin Content /\ Edited \notin Content /\ Edited # Gone
      BY OperationTyped
    <3>4. file \in [Board -> [Place -> Content \cup {Edited, Gone}]]
      BY <1>1 DEF StorageInv, Typed
    <3>5. CASE Publish
      <4>1. /\ file' = [file EXCEPT ![b][Operation[r].to] = Operation[r].new]
            /\ file[b][Operation[r].to] # Edited
        BY <3>2, <3>3, <3>5 DEF Publish, Applicable, InPlace
      <4> QED BY <3>3, <3>4, <4>1 DEF At
    <3>6. CASE RemoveSource
      <4>1. ~InPlace(r)
        BY <1>1, <3>1, <3>2, <3>6 DEF StorageInv, SessionFits, Fits, RemoveSource, Step, R
      <4>2. /\ file' = [file EXCEPT ![b][Operation[r].from] = Gone]
            /\ file[b][Operation[r].from] # Edited
            /\ file[b][Operation[r].to] = Operation[r].new
            /\ Operation[r].from # Operation[r].to
        BY <3>2, <3>3, <3>6, <4>1 DEF RemoveSource, Applicable, InPlace
      <4> QED BY <3>3, <3>4, <4>2 DEF At
    <3> QED BY <2>1, <3>5, <3>6
  <2>2. CASE \E b \in Board, p \in Place : Edit(b, p)
    BY <1>1, <2>2 DEF Edit, StorageInv, Typed
  <2>3. CASE UNCHANGED vars
    BY <2>3
  <2>4. CASE file' = file
    BY <2>4 DEF At
  <2> QED
    BY <1>1, <2>1, <2>2, <2>3, <2>4
    DEF Next, Begin, OpenNew, OpenReserved, OpenRecorded, OpenCompleted, Open, Work, Resume,
        Reserve, Record, Complete, Clear, AdoptJournal, AdoptCommon, AdoptMarker, Adopting,
        StartUpgrade, ResumeUpgrade, MarkUpgrade, RaiseMarker, Convert, CompleteUpgrade,
        UnmarkUpgrade, Refuse, Stop, Ordinary, Lose, cards
<1> QED BY <1>1, StorageInvAlways, PTL DEF Spec, EditsKept

-----------------------------------------------------------------------------
(* The publication of a bundle (BundlePublication).                        *)

\* A set of the first numbers has a greatest one.
LEMMA HasGreatest ==
  ASSUME NEW n \in Nat, NEW s \in SUBSET (1..n), s # {}
  PROVE  \E m \in s : \A i \in s : i <= m
<1> DEFINE T == {n - i : i \in s}
<1>0. T \subseteq Nat
  OBVIOUS
<1>1. T # {}
  OBVIOUS
<1>2. PICK x \in T : \A y \in T : ~ (<<y, x>> \in OpToRel(<, Nat))
  <2> HIDE DEF T
  <2> QED BY <1>0, <1>1, NatLessThanWellFounded, WFMin
<1>3. \A y \in T : ~(y < x)
  BY <1>0, <1>2 DEF OpToRel
<1>4. PICK m \in s : x = n - m
  BY <1>2
<1>5. \A i \in s : i <= m
  BY <1>3, <1>4
<1> QED BY <1>5

\* What TLC's instance gives: requests for identifiers, and values for the
\* contents of a path, for no marker and for no journal that are not others.
BundleParameters ==
  /\ Explicit \in [BundleRequest -> SUBSET Bundle!Id] /\ Automatic \in [BundleRequest -> Nat]
  /\ MaxId \in Nat
  /\ Plain \notin BundleRequest /\ Gone \notin BundleRequest
  /\ NoMarker \notin Bundle!Marker /\ Missing \notin SUBSET Bundle!Record

\* The records that are completed: requests that were served.
Served(b) == Bundle!Records(b) \ Bundle!Pending(b)

\* The identifiers given out on a board.
Given(b) ==
  b_created[b] \cup UNION {x.cards : x \in Bundle!Records(b) \ Bundle!Pending(b)}

MarkedFor(b, r) ==
  b_common.pending # NoMarker /\ b_common.pending.owner = b /\ b_common.pending.request = r

JournalFits(j) ==
  /\ j \subseteq Bundle!Record
  /\ \A x, y \in j : x.request = y.request => x = y
  /\ \A x, y \in j : x.status = "pending" /\ y.status = "pending" => x = y
  /\ \A x \in j : x.original \subseteq x.target /\ x.cards \subseteq x.target \ x.original

\* The types.
BundleTyped ==
  /\ b_common \in [on : BOOLEAN, protocol : 0..1, reserved : SUBSET Bundle!Id,
                   pending : Bundle!Marker \cup {NoMarker}]
  /\ b_ids \in [Board -> SUBSET Bundle!Id]
  /\ b_protocol \in [Board -> 0..1]
  /\ b_journal = [b \in Board |-> b_journal[b]]
  /\ \A b \in Board : JournalFits(Bundle!Records(b))
  /\ b_file \in [Board -> [Bundle!Id -> BundleRequest \cup {Plain, Foreign, Gone}]]
  /\ b_batch \in [Board -> SUBSET BundleRequest]
  /\ b_created \in [Board -> SUBSET Bundle!Id]
  /\ b_session \in Bundle!Session \cup {NoSession}
  /\ b_stops \in 0..MaxStops /\ b_edits \in 0..MaxEdits

\* A pending record can be repeated as it stands: its board's ledger is what it
\* was before or after it, it takes no identifier given out on the board, and
\* with its marker none given out on any board.
PendingFits(b, x) ==
  /\ b_ids[b] \in {x.original, x.target} /\ Given(b) \subseteq x.original
  /\ b_common.on /\ MarkedFor(b, x.request) =>
       /\ x.target \subseteq b_common.reserved
       /\ \A c \in Board : x.cards \cap Given(c) = {}

\* A completed record's cards and batch are there, but for an editor.
CompletedFits(b, x) ==
  b_edits = 0 => /\ \A i \in x.cards : b_file[b][i] = x.request
                 /\ x.request \in b_batch[b]

BoardFits(b) ==
  /\ Given(b) \subseteq b_ids[b]
  /\ b_common.on => Given(b) \subseteq b_common.reserved
  /\ \A x \in Bundle!Records(b) :
       IF x.status = "pending" THEN PendingFits(b, x) ELSE CompletedFits(b, x)

\* What the session has established of its record x.
Stage(s, x) ==
  LET b == s.board
      r == s.request
  IN  /\ x.request = r /\ x.status = "pending"
      /\ s.at \in {"resume", "reserve", "ledger"} => s.done = {}
      /\ s.at = "reserve" => Bundle!OwnMarker(b, r)
      /\ s.at \in {"ledger", "cards", "complete"} /\ b_common.on => MarkedFor(b, r)
      /\ s.at \in {"cards", "complete"} => b_ids[b] = x.target
      /\ b_edits = 0 /\ s.at = "cards" => \A i \in s.done : b_file[b][i] = r
      /\ b_edits = 0 /\ s.at = "complete" =>
           (\A i \in x.cards : b_file[b][i] = r) /\ r \in b_batch[b]

Repeating == {"resume", "reserve", "ledger", "cards", "complete"}

Established(s) ==
  /\ s.at # "batch"
  /\ s.at = "adopt" => /\ Bundle!Found(s.board, s.request) = {}
                       /\ Bundle!Pending(s.board) = {}
                       /\ b_common.pending = NoMarker /\ s.done = {}
  /\ s.at \in Repeating => \E x \in Bundle!Records(s.board) : Stage(s, x)

BundleSession == b_session # NoSession => Established(b_session)

BundleInv == BundleTyped /\ BundleSession /\ \A b \in Board : BoardFits(b)

-----------------------------------------------------------------------------
\* What a session is about.
LEMMA BundleSessionTyped ==
  ASSUME BundleTyped, b_session # NoSession
  PROVE  /\ b_session \in Bundle!Session
         /\ Bundle!B \in Board /\ Bundle!R \in BundleRequest
         /\ b_session.board = Bundle!B /\ b_session.request = Bundle!R
  BY DEF BundleTyped, Bundle!Session, Bundle!B, Bundle!R

\* The step that a session goes to.
LEMMA BundleGoesTo ==
  ASSUME BundleTyped, b_session # NoSession, NEW at \in Bundle!Steps, Bundle!Go(at)
  PROVE  /\ b_session' \in Bundle!Session
         /\ b_session'.board = Bundle!B /\ b_session'.request = Bundle!R
         /\ b_session'.at = at /\ b_session'.done = b_session.done
  BY BundleSessionTyped DEF Bundle!Session, Bundle!Go

\* The greatest identifier of a set that has one.
LEMMA GreatestIsGreatest ==
  ASSUME NEW s \in SUBSET Bundle!Id, MaxId \in Nat
  PROVE  Bundle!Greatest(s) \in Nat /\ \A i \in s : i <= Bundle!Greatest(s)
<1>1. s \in SUBSET (1..MaxId)
  BY DEF Bundle!Id
<1>2. CASE s = {}
  BY <1>2 DEF Bundle!Greatest
<1>3. CASE s # {}
  <2>1. PICK m \in s : \A i \in s : i <= m
    BY <1>1, <1>3, HasGreatest
  <2>2. \E k \in s : \A i \in s : i <= k
    BY <2>1
  <2>3. (CHOOSE k \in s : \A i \in s : i <= k) \in s
        /\ \A i \in s : i <= (CHOOSE k \in s : \A j \in s : j <= k)
    BY <2>2
  <2>4. Bundle!Greatest(s) \in s /\ \A i \in s : i <= Bundle!Greatest(s)
    BY <1>3, <2>3 DEF Bundle!Greatest
  <2>5. Bundle!Greatest(s) \in 1..MaxId
    BY <1>1, <2>4
  <2> QED BY <2>4, <2>5
<1> QED BY <1>2, <1>3

\* allocateID gives identifiers that are in no ledger it was shown.
LEMMA AllocatedIsNew ==
  ASSUME BundleParameters, NEW r \in BundleRequest, NEW ledger \in SUBSET Bundle!Id,
         Bundle!Allocatable(r, ledger)
  PROVE  Bundle!Allocated(r, ledger) \subseteq Bundle!Id \ ledger
<1> DEFINE named == Explicit[r]
           top == Bundle!Greatest(ledger \cup named)
<1>1. named \in SUBSET Bundle!Id /\ MaxId \in Nat /\ Automatic[r] \in Nat
  BY DEF BundleParameters
<1>2. top \in Nat /\ \A i \in ledger : i <= top
  BY <1>1, GreatestIsGreatest
<1>3. Bundle!Allocated(r, ledger) = named \cup (top + 1)..(top + Automatic[r])
  BY DEF Bundle!Allocated
<1> HIDE DEF top
<1>4. \A i \in (top + 1)..(top + Automatic[r]) : i \notin ledger
  BY <1>1, <1>2 DEF Bundle!Id
<1> QED BY <1>3, <1>4 DEF Bundle!Allocatable

\* The record a session repeats.
LEMMA TheRecord ==
  ASSUME BundleInv, b_session # NoSession, b_session.at \in Repeating
  PROVE  /\ Bundle!Rec \in Bundle!Records(Bundle!B) /\ Stage(b_session, Bundle!Rec)
         /\ Bundle!Rec.status = "pending" /\ Bundle!Rec.request = Bundle!R
         /\ Bundle!Rec \in Bundle!Record
         /\ Bundle!Rec.original \subseteq Bundle!Rec.target
         /\ Bundle!Rec.cards \subseteq Bundle!Rec.target \ Bundle!Rec.original
         /\ Bundle!Found(Bundle!B, Bundle!R) = {Bundle!Rec}
         /\ Bundle!Pending(Bundle!B) = {Bundle!Rec}
         /\ PendingFits(Bundle!B, Bundle!Rec)
<1>1. PICK b \in Board, r \in BundleRequest : b = Bundle!B /\ r = Bundle!R
  BY BundleSessionTyped DEF BundleInv
<1>2. PICK x \in Bundle!Records(b) : Stage(b_session, x)
  BY <1>1, BundleSessionTyped DEF BundleInv, BundleSession, Established
<1>3. x.request = r /\ x.status = "pending"
  BY <1>1, <1>2, BundleSessionTyped DEF BundleInv, Stage
<1>4. JournalFits(Bundle!Records(b))
  BY DEF BundleInv, BundleTyped
<1>5. Bundle!Found(b, r) = {x} /\ Bundle!Pending(b) = {x}
  BY <1>2, <1>3, <1>4 DEF Bundle!Found, Bundle!Pending, JournalFits
<1>6. Bundle!Rec = x
  BY <1>1, <1>5 DEF Bundle!Rec
<1>7. PendingFits(b, x)
  BY <1>2, <1>3 DEF BundleInv, BoardFits
<1> QED BY <1>1, <1>2, <1>3, <1>4, <1>5, <1>6, <1>7 DEF JournalFits

\* Steps that give nothing out and take no record up: ledgers may grow to what
\* a pending record says, and files change where no completed record is about
\* them or an editor was.
LEMMA BoardsKeep ==
  ASSUME BundleInv,
         \A b \in Board : Bundle!Records(b)' = Bundle!Records(b),
         UNCHANGED <<b_created, b_common.on, b_common.reserved>>,
         b_common'.pending \in {b_common.pending, NoMarker},
         \A b \in Board : /\ b_ids[b] \subseteq b_ids'[b]
                          /\ \A x \in Bundle!Pending(b) :
                               b_ids'[b] \in {x.original, x.target},
         \A b \in Board : b_batch[b] \subseteq b_batch'[b],
         b_edits' = 0 =>
           /\ b_edits = 0
           /\ \A b \in Board, x \in Bundle!Record :
                x \in Bundle!Records(b) /\ x.status # "pending" =>
                  \A i \in x.cards : b_file'[b][i] = x.request \/ b_file'[b][i] = b_file[b][i]
  PROVE  \A b \in Board : BoardFits(b)'
<1> SUFFICES ASSUME NEW b \in Board PROVE BoardFits(b)'
  OBVIOUS
<1>1. \A c \in Board : Given(c)' = Given(c)
  BY DEF Given, Bundle!Pending
<1>2. ASSUME NEW x \in Bundle!Records(b), x.status = "pending" PROVE PendingFits(b, x)'
  <2>1. PendingFits(b, x) /\ x \in Bundle!Pending(b)
    BY <1>2 DEF BundleInv, BoardFits, Bundle!Pending
  <2>2. MarkedFor(b, x.request)' => MarkedFor(b, x.request)
    BY DEF MarkedFor
  <2> QED BY <1>1, <2>1, <2>2 DEF PendingFits
<1>3. ASSUME NEW x \in Bundle!Records(b), x.status # "pending" PROVE CompletedFits(b, x)'
  <2>1. CompletedFits(b, x) /\ x \in Bundle!Record
    BY <1>3 DEF BundleInv, BoardFits, BundleTyped, JournalFits
  <2> QED BY <1>3, <2>1 DEF CompletedFits
<1> QED BY <1>1, <1>2, <1>3 DEF BoardFits, BundleInv

\* Steps that leave ledgers, files and what was given out alone.
LEMMA BoardsQuiet ==
  ASSUME BundleInv,
         \A b \in Board : Bundle!Records(b)' = Bundle!Records(b),
         UNCHANGED <<b_ids, b_file, b_batch, b_created, b_edits,
                     b_common.on, b_common.reserved>>,
         b_common'.pending \in {b_common.pending, NoMarker}
  PROVE  \A b \in Board : BoardFits(b)'
<1>1. \A b \in Board : \A x \in Bundle!Pending(b) : b_ids[b] \in {x.original, x.target}
  BY DEF BundleInv, BoardFits, Bundle!Pending, PendingFits
<1> QED BY <1>1, BoardsKeep

\* A command opens on a board.
LEMMA BundleOpens ==
  ASSUME BundleInv, NEW b \in Board, NEW r \in BundleRequest,
         Bundle!OpenNew(b, r) \/ Bundle!OpenPending(b, r) \/ Bundle!OpenCompleted(b, r)
  PROVE  BundleInv'
<1>1. PICK at \in {"adopt", "resume", "clear"} : Bundle!Open(b, r, at)
  BY DEF Bundle!OpenNew, Bundle!OpenPending, Bundle!OpenCompleted
<1>2. UNCHANGED <<b_common, b_ids, b_protocol, b_journal, b_file, b_batch, b_created,
                  b_stops, b_edits>>
  BY <1>1 DEF Bundle!Open, Bundle!boards, Bundle!files, Bundle!bounds
<1>3. \A c \in Board : Bundle!Records(c)' = Bundle!Records(c)
  BY <1>2 DEF Bundle!Records
<1>4. PICK s \in Bundle!Session : /\ s = b_session' /\ s.board = b /\ s.request = r
                                 /\ s.done = {}
  BY <1>1 DEF Bundle!Open, Bundle!Session, Bundle!Steps
<1>5. BundleTyped'
  BY <1>2, <1>3, <1>4 DEF BundleInv, BundleTyped
<1>6. \A c \in Board : BoardFits(c)'
  BY <1>2, <1>3, BoardsQuiet
<1>7. BundleSession'
  <2>1. CASE Bundle!OpenNew(b, r)
    <3>1. s.at = "adopt" /\ Bundle!Found(b, r) = {} /\ Bundle!Pending(b) = {}
          /\ b_common.pending = NoMarker
      BY <1>4, <2>1 DEF Bundle!OpenNew, Bundle!Open
    <3>2. Bundle!Found(b, r)' = {} /\ Bundle!Pending(b)' = {}
      BY <1>3, <3>1 DEF Bundle!Found, Bundle!Pending
    <3> QED BY <1>2, <1>4, <3>1, <3>2 DEF BundleSession, Established, Repeating
  <2>2. CASE Bundle!OpenPending(b, r)
    <3>1. s.at = "resume" /\ Bundle!Found(b, r) \cap Bundle!Pending(b) # {}
      BY <1>4, <2>2 DEF Bundle!OpenPending, Bundle!Open
    <3>2. PICK x \in Bundle!Records(b)' : x.request = r /\ x.status = "pending"
      BY <1>3, <3>1 DEF Bundle!Found, Bundle!Pending
    <3>3. Stage(b_session, x)'
      BY <1>4, <3>1, <3>2 DEF Stage
    <3> QED BY <1>4, <3>1, <3>2, <3>3 DEF BundleSession, Established, Repeating
  <2>3. CASE Bundle!OpenCompleted(b, r)
    <3>1. s.at = "clear"
      BY <1>4, <2>3 DEF Bundle!OpenCompleted, Bundle!Open
    <3> QED BY <1>4, <3>1 DEF BundleSession, Established, Repeating
  <2> QED BY <2>1, <2>2, <2>3
<1> QED BY <1>5, <1>6, <1>7 DEF BundleInv

\* The journal, the transition journal and the common state take the protocol.
LEMMA BundleAdopts ==
  ASSUME BundleParameters, BundleInv,
         Bundle!AdoptJournal \/ Bundle!AdoptLocal \/ Bundle!AdoptCommon
  PROVE  BundleInv'
<1>1. b_session # NoSession /\ b_session.at = "adopt"
  BY DEF Bundle!AdoptJournal, Bundle!AdoptLocal, Bundle!AdoptCommon, Bundle!Step
<1>2. PICK b \in Board, r \in BundleRequest : /\ b = Bundle!B /\ r = Bundle!R
                                       /\ b_session.board = b /\ b_session.request = r
  BY <1>1, BundleSessionTyped DEF BundleInv
<1>3. UNCHANGED <<b_ids, b_file, b_batch, b_created, b_session, b_stops, b_edits>>
  BY DEF Bundle!AdoptJournal, Bundle!AdoptLocal, Bundle!AdoptCommon, Bundle!boards,
         Bundle!files, Bundle!bounds
<1>4. /\ b_journal' = [c \in Board |-> b_journal'[c]]
      /\ \A c \in Board : Bundle!Records(c)' = Bundle!Records(c)
  <2>1. CASE Bundle!AdoptJournal
    BY <1>2, <2>1 DEF Bundle!AdoptJournal, Bundle!Records, BundleInv, BundleTyped
  <2>2. CASE UNCHANGED b_journal
    BY <2>2 DEF Bundle!Records, BundleInv, BundleTyped
  <2> QED BY <2>1, <2>2 DEF Bundle!AdoptLocal, Bundle!AdoptCommon, Bundle!boards
<1>5. /\ b_protocol' \in [Board -> 0..1]
      /\ b_common' \in [on : BOOLEAN, protocol : 0..1, reserved : SUBSET Bundle!Id,
                        pending : Bundle!Marker \cup {NoMarker}]
      /\ UNCHANGED <<b_common.on, b_common.reserved, b_common.pending>>
  <2>1. CASE Bundle!AdoptJournal
    BY <2>1 DEF Bundle!AdoptJournal, BundleInv, BundleTyped
  <2>2. CASE Bundle!AdoptLocal
    BY <1>2, <2>2 DEF Bundle!AdoptLocal, BundleInv, BundleTyped
  <2>3. CASE Bundle!AdoptCommon
    <3>1. b_common' = [b_common EXCEPT !.protocol = 1] /\ UNCHANGED b_protocol
      BY <2>3 DEF Bundle!AdoptCommon, Bundle!boards
    <3>2. /\ b_common \in [on : BOOLEAN, protocol : 0..1, reserved : SUBSET Bundle!Id,
                          pending : Bundle!Marker \cup {NoMarker}]
          /\ b_protocol \in [Board -> 0..1]
      BY DEF BundleInv, BundleTyped
    <3> QED BY <3>1, <3>2
  <2> QED BY <2>1, <2>2, <2>3
<1>6. BundleTyped'
  BY <1>3, <1>4, <1>5 DEF BundleInv, BundleTyped
<1>7. \A c \in Board : BoardFits(c)'
  BY <1>3, <1>4, <1>5, BoardsQuiet
<1>8. BundleSession'
  <2>1. Bundle!Found(b, r)' = Bundle!Found(b, r) /\ Bundle!Pending(b)' = Bundle!Pending(b)
    BY <1>4 DEF Bundle!Found, Bundle!Pending
  <2> QED BY <1>1, <1>2, <1>3, <1>5, <2>1 DEF BundleInv, BundleSession, Established, Repeating
<1> QED BY <1>6, <1>7, <1>8 DEF BundleInv

\* The record a first command saves.
LEMMA BundleSaves ==
  ASSUME BundleParameters, BundleInv, Bundle!SavePending
  PROVE  BundleInv' /\ \A c \in Board : Served(c)' = Served(c)
<1>1. b_session # NoSession /\ b_session.at = "adopt"
  BY DEF Bundle!SavePending, Bundle!Step
<1>2. PICK b \in Board, r \in BundleRequest : /\ b = Bundle!B /\ r = Bundle!R
                                       /\ b_session.board = b /\ b_session.request = r
  BY <1>1, BundleSessionTyped DEF BundleInv
<1>3. /\ Bundle!Found(b, r) = {} /\ Bundle!Pending(b) = {}
      /\ b_common.pending = NoMarker /\ b_session.done = {}
  BY <1>1, <1>2 DEF BundleInv, BundleSession, Established
<1>4. PICK ledger \in SUBSET Bundle!Id : ledger = Bundle!Ledger(b)
  BY DEF Bundle!Ledger, BundleInv, BundleTyped
<1>5. PICK x : x = Bundle!Prepared(b, r)
  OBVIOUS
<1>6. /\ Bundle!Allocatable(r, ledger) /\ b_journal[b] # Missing
      /\ b_journal' = [b_journal EXCEPT ![b] = @ \cup {x}]
      /\ Bundle!Go("resume")
      /\ UNCHANGED <<b_common, b_ids, b_protocol, b_file, b_batch, b_created, b_stops, b_edits>>
  BY <1>2, <1>4, <1>5 DEF Bundle!SavePending, Bundle!files, Bundle!bounds
<1>7. Bundle!Allocated(r, ledger) \subseteq Bundle!Id \ ledger
  BY <1>6, AllocatedIsNew
<1>8. b_ids[b] \in SUBSET Bundle!Id /\ b_ids[b] \subseteq ledger
  BY <1>4 DEF Bundle!Ledger, BundleInv, BundleTyped
<1>9. /\ x \in Bundle!Record /\ x.request = r /\ x.status = "pending"
      /\ x.original = b_ids[b] /\ x.original \subseteq x.target
      /\ x.cards \subseteq x.target \ x.original
  BY <1>4, <1>5, <1>7, <1>8 DEF Bundle!Prepared, Bundle!Record
<1>10. /\ b_journal' = [c \in Board |-> b_journal'[c]]
       /\ \A c \in Board \ {b} : Bundle!Records(c)' = Bundle!Records(c)
  BY <1>6 DEF Bundle!Records, BundleInv, BundleTyped
<1>11. JournalFits(Bundle!Records(b))
  BY DEF BundleInv, BundleTyped
<1>12. Bundle!Records(b)' = Bundle!Records(b) \cup {x}
  <2>1. b_journal'[b] = b_journal[b] \cup {x}
    BY <1>6 DEF BundleInv, BundleTyped
  <2>2. b_journal[b] = Bundle!Records(b)
    BY <1>6 DEF Bundle!Records
  <2>3. b_journal'[b] \subseteq Bundle!Record
    BY <1>9, <1>11, <2>1, <2>2 DEF JournalFits
  <2>4. b_journal'[b] # Missing
    BY <2>3 DEF BundleParameters
  <2> QED BY <2>1, <2>2, <2>4 DEF Bundle!Records
<1>13. JournalFits(Bundle!Records(b))'
  <2>1. \A y \in Bundle!Records(b) : y.request # r /\ y.status # "pending"
    BY <1>3 DEF Bundle!Found, Bundle!Pending
  <2> QED BY <1>9, <1>11, <1>12, <2>1 DEF JournalFits
<1>14. /\ b_session' \in Bundle!Session /\ b_session'.board = b /\ b_session'.request = r
       /\ b_session'.at = "resume" /\ b_session'.done = {}
  BY <1>1, <1>2, <1>3, <1>6, BundleGoesTo DEF Bundle!Steps, BundleInv
<1>15. BundleTyped'
  <2>1. \A c \in Board : JournalFits(Bundle!Records(c))'
    BY <1>10, <1>13 DEF BundleInv, BundleTyped
  <2> QED BY <1>6, <1>10, <1>14, <2>1 DEF BundleInv, BundleTyped
<1>16. \A c \in Board : Given(c)' = Given(c)
  <2>1. Given(b)' = Given(b)
    BY <1>6, <1>9, <1>12 DEF Given, Bundle!Pending
  <2>2. ASSUME NEW c \in Board, c # b PROVE Given(c)' = Given(c)
    BY <1>6, <1>10, <2>2 DEF Given, Bundle!Pending
  <2> QED BY <2>1, <2>2
<1>17. ASSUME NEW c \in Board PROVE BoardFits(c)'
  <2>1. BoardFits(c)
    BY DEF BundleInv
  <2>2. ASSUME NEW y \in Bundle!Records(c), y.status = "pending" PROVE PendingFits(c, y)'
    BY <1>6, <1>16, <2>1, <2>2 DEF BoardFits, PendingFits, MarkedFor
  <2>3. ASSUME NEW y \in Bundle!Records(c), y.status # "pending" PROVE CompletedFits(c, y)'
    BY <1>6, <2>1, <2>3 DEF BoardFits, CompletedFits
  <2>4. ASSUME c = b PROVE PendingFits(c, x)'
    BY <1>3, <1>6, <1>9, <1>16, <2>1, <2>4 DEF BoardFits, PendingFits, MarkedFor
  <2>5. \A y \in Bundle!Records(c)' : y \in Bundle!Records(c) \/ (c = b /\ y = x)
    BY <1>10, <1>12
  <2> QED BY <1>6, <1>9, <1>16, <2>1, <2>2, <2>3, <2>4, <2>5 DEF BoardFits
<1>18. BundleSession'
  <2>1. Stage(b_session, x)'
    BY <1>9, <1>14 DEF Stage
  <2> QED BY <1>12, <1>14, <2>1 DEF BundleSession, Established, Repeating
<1>19. \A c \in Board : Served(c)' = Served(c)
  BY <1>9, <1>10, <1>12 DEF Served, Bundle!Pending
<1> QED BY <1>15, <1>17, <1>18, <1>19 DEF BundleInv

\* validateResume lets the repetition begin.
LEMMA BundleResumes ==
  ASSUME BundleInv, Bundle!Resume
  PROVE  BundleInv'
<1>1. b_session # NoSession /\ b_session.at = "resume"
  BY DEF Bundle!Resume, Bundle!Step
<1>2. PICK b \in Board, r \in BundleRequest, x \in Bundle!Record :
        b = Bundle!B /\ r = Bundle!R /\ x = Bundle!Rec
  BY <1>1, BundleSessionTyped, TheRecord DEF Repeating, BundleInv
<1>3. /\ x \in Bundle!Records(b) /\ x.request = r /\ x.status = "pending"
      /\ b_session.done = {}
  BY <1>1, <1>2, TheRecord DEF Repeating, Stage
<1>4. /\ Bundle!OwnMarker(b, r) /\ Bundle!Go("reserve")
      /\ UNCHANGED <<b_common, b_ids, b_protocol, b_journal, b_file, b_batch, b_created,
                     b_stops, b_edits>>
  BY <1>2, <1>3 DEF Bundle!Resume, Bundle!Resumable, Bundle!boards, Bundle!files, Bundle!bounds
<1>5. /\ b_session' \in Bundle!Session /\ b_session'.board = b /\ b_session'.request = r
      /\ b_session'.at = "reserve" /\ b_session'.done = {}
  BY <1>1, <1>2, <1>3, <1>4, BundleGoesTo DEF Bundle!Steps, BundleInv
<1>6. \A c \in Board : Bundle!Records(c)' = Bundle!Records(c)
  BY <1>4 DEF Bundle!Records
<1>7. BundleTyped'
  BY <1>4, <1>5, <1>6 DEF BundleInv, BundleTyped
<1>8. \A c \in Board : BoardFits(c)'
  BY <1>4, <1>6, BoardsQuiet
<1>9. BundleSession'
  <2>1. Stage(b_session, x)'
    BY <1>3, <1>4, <1>5 DEF Stage, Bundle!OwnMarker
  <2> QED BY <1>3, <1>5, <1>6, <2>1 DEF BundleSession, Established, Repeating
<1> QED BY <1>7, <1>8, <1>9 DEF BundleInv

\* reserveBundle reserves the identifiers and sets the marker, or finds it set.
LEMMA BundleReserves ==
  ASSUME BundleParameters, BundleInv, Bundle!Reserve
  PROVE  BundleInv'
<1>1. b_session # NoSession /\ b_session.at = "reserve"
  BY DEF Bundle!Reserve, Bundle!Step
<1>2. PICK b \in Board, r \in BundleRequest, x \in Bundle!Record :
        b = Bundle!B /\ r = Bundle!R /\ x = Bundle!Rec
  BY <1>1, BundleSessionTyped, TheRecord DEF Repeating, BundleInv
<1>3. /\ x \in Bundle!Records(b) /\ x.request = r /\ x.status = "pending"
      /\ x \in Bundle!Record /\ b_session.done = {}
      /\ Bundle!Pending(b) = {x}
  BY <1>1, <1>2, TheRecord DEF Repeating, Stage
<1>4. Bundle!OwnMarker(b, r)
  BY <1>1, <1>2, TheRecord, BundleSessionTyped DEF Repeating, Stage, BundleInv
<1>5. /\ Bundle!Go("ledger")
      /\ UNCHANGED <<b_ids, b_protocol, b_journal, b_file, b_batch, b_created, b_stops, b_edits>>
  BY DEF Bundle!Reserve, Bundle!boards, Bundle!files, Bundle!bounds
<1>6. /\ b_session' \in Bundle!Session /\ b_session'.board = b /\ b_session'.request = r
      /\ b_session'.at = "ledger" /\ b_session'.done = {}
  BY <1>1, <1>2, <1>3, <1>5, BundleGoesTo DEF Bundle!Steps, BundleInv
<1>7. \A c \in Board : Bundle!Records(c)' = Bundle!Records(c)
  BY <1>5 DEF Bundle!Records
<1>8. ASSUME /\ b_common' \in [on : BOOLEAN, protocol : 0..1, reserved : SUBSET Bundle!Id,
                              pending : Bundle!Marker \cup {NoMarker}]
             /\ b_common'.on => MarkedFor(b, r)'
             /\ \A c \in Board : BoardFits(c)'
      PROVE  BundleInv'
  <2>1. BundleTyped'
    BY <1>5, <1>6, <1>7, <1>8 DEF BundleInv, BundleTyped
  <2>2. Stage(b_session, x)'
    BY <1>3, <1>6, <1>8 DEF Stage
  <2>3. BundleSession'
    BY <1>3, <1>6, <1>7, <2>2 DEF BundleSession, Established, Repeating
  <2> QED BY <1>8, <2>1, <2>3 DEF BundleInv
<1>9. CASE /\ ~b_common.on \/ b_common.pending # NoMarker
           /\ UNCHANGED b_common
  <2>1. b_common' \in [on : BOOLEAN, protocol : 0..1, reserved : SUBSET Bundle!Id,
                       pending : Bundle!Marker \cup {NoMarker}]
    BY <1>9 DEF BundleInv, BundleTyped
  <2>2. b_common'.on => MarkedFor(b, r)'
    BY <1>4, <1>9 DEF Bundle!OwnMarker, MarkedFor
  <2>3. \A c \in Board : BoardFits(c)'
    BY <1>5, <1>7, <1>9, BoardsQuiet
  <2> QED BY <1>8, <2>1, <2>2, <2>3
<1>10. CASE b_common.on /\ Bundle!Reservable(x)
            /\ b_common' = [b_common EXCEPT !.reserved = @ \cup x.target,
                 !.pending = [owner |-> b, request |-> r, cards |-> x.cards]]
  <2>0. PICK m : m = [owner |-> b, request |-> r, cards |-> x.cards]
    OBVIOUS
  <2>1. m \in Bundle!Marker /\ m.owner = b /\ m.request = r
    <3>1. x.cards \in SUBSET Bundle!Id
      BY <1>3 DEF Bundle!Record
    <3> QED BY <2>0, <3>1 DEF Bundle!Marker
  <2>2. x.target \subseteq Bundle!Id /\ x.cards \cap b_common.reserved = {}
    BY <1>3, <1>10 DEF Bundle!Record, Bundle!Reservable
  <2>3. b_common \in [on : BOOLEAN, protocol : 0..1, reserved : SUBSET Bundle!Id,
                      pending : Bundle!Marker \cup {NoMarker}]
    BY DEF BundleInv, BundleTyped
  <2>4. /\ b_common'.on = b_common.on /\ b_common'.protocol = b_common.protocol
        /\ b_common'.reserved = b_common.reserved \cup x.target /\ b_common'.pending = m
        /\ b_common' \in [on : BOOLEAN, protocol : 0..1, reserved : SUBSET Bundle!Id,
                          pending : Bundle!Marker \cup {NoMarker}]
    BY <1>10, <2>0, <2>1, <2>2, <2>3
  <2>5. m # NoMarker
    BY <2>1 DEF BundleParameters
  <2>6. MarkedFor(b, r)'
    BY <2>1, <2>4, <2>5 DEF MarkedFor
  <2>7. ASSUME NEW c \in Board PROVE BoardFits(c)'
    <3>1. BoardFits(c) /\ Given(c)' = Given(c)
      BY <1>5, <1>7 DEF BundleInv, Given, Bundle!Pending
    <3>2. \A d \in Board : Given(d) \subseteq b_common.reserved /\ Given(d)' = Given(d)
      BY <1>5, <1>7, <1>10 DEF BundleInv, BoardFits, Given, Bundle!Pending
    <3>3. ASSUME NEW y \in Bundle!Records(c), y.status = "pending" PROVE PendingFits(c, y)'
      <4>1. PendingFits(c, y) /\ y \in Bundle!Pending(c)
        BY <3>1, <3>3 DEF BoardFits, Bundle!Pending
      <4>2. MarkedFor(c, y.request)' => y = x
        BY <1>3, <2>1, <2>4, <4>1 DEF MarkedFor
      <4>3. b_ids'[c] \in {y.original, y.target} /\ Given(c)' \subseteq y.original
        BY <1>5, <3>1, <4>1 DEF PendingFits
      <4>4. y = x => /\ y.target \subseteq b_common'.reserved
                     /\ \A d \in Board : y.cards \cap Given(d)' = {}
        BY <2>2, <2>4, <3>2
      <4> QED BY <4>2, <4>3, <4>4 DEF PendingFits
    <3>4. ASSUME NEW y \in Bundle!Records(c), y.status # "pending" PROVE CompletedFits(c, y)'
      BY <1>5, <3>1, <3>4 DEF BoardFits, CompletedFits
    <3>5. Given(c)' \subseteq b_ids'[c] /\ Given(c)' \subseteq b_common'.reserved
      BY <1>5, <2>4, <3>1, <3>2 DEF BoardFits
    <3> QED BY <1>7, <3>3, <3>4, <3>5 DEF BoardFits
  <2> QED BY <1>8, <2>4, <2>6, <2>7
<1> QED BY <1>2, <1>9, <1>10 DEF Bundle!Reserve

\* The board's ledger becomes what the record says.
LEMMA BundlePublishesLedger ==
  ASSUME BundleInv, Bundle!PublishLedger
  PROVE  BundleInv'
<1>1. b_session # NoSession /\ b_session.at = "ledger"
  BY DEF Bundle!PublishLedger, Bundle!Step
<1>2. PICK b \in Board, r \in BundleRequest, x \in Bundle!Record :
        b = Bundle!B /\ r = Bundle!R /\ x = Bundle!Rec
  BY <1>1, BundleSessionTyped, TheRecord DEF Repeating, BundleInv
<1>3. /\ x \in Bundle!Records(b) /\ x.request = r /\ x.status = "pending"
      /\ x \in Bundle!Record /\ x.original \subseteq x.target /\ b_session.done = {}
      /\ Bundle!Pending(b) = {x} /\ b_ids[b] \in {x.original, x.target}
  BY <1>1, <1>2, TheRecord DEF Repeating, Stage, PendingFits
<1>4. b_common.on => MarkedFor(b, r)
  BY <1>1, <1>2, TheRecord, BundleSessionTyped DEF Repeating, Stage, BundleInv
<1>5. /\ b_ids' = [b_ids EXCEPT ![b] = x.target] /\ Bundle!Go("cards")
      /\ UNCHANGED <<b_common, b_protocol, b_journal, b_file, b_batch, b_created,
                     b_stops, b_edits>>
  BY <1>2 DEF Bundle!PublishLedger, Bundle!files, Bundle!bounds
<1>6. /\ b_session' \in Bundle!Session /\ b_session'.board = b /\ b_session'.request = r
      /\ b_session'.at = "cards" /\ b_session'.done = {}
  BY <1>1, <1>2, <1>3, <1>5, BundleGoesTo DEF Bundle!Steps, BundleInv
<1>7. \A c \in Board : Bundle!Records(c)' = Bundle!Records(c)
  BY <1>5 DEF Bundle!Records
<1>8. /\ b_ids' \in [Board -> SUBSET Bundle!Id] /\ b_ids'[b] = x.target
      /\ \A c \in Board \ {b} : b_ids'[c] = b_ids[c]
  BY <1>3, <1>5 DEF BundleInv, BundleTyped, Bundle!Record
<1>9. BundleTyped'
  BY <1>5, <1>6, <1>7, <1>8 DEF BundleInv, BundleTyped
<1>10. \A c \in Board : /\ b_ids[c] \subseteq b_ids'[c]
                        /\ \A y \in Bundle!Pending(c) : b_ids'[c] \in {y.original, y.target}
  <2>1. ASSUME NEW c \in Board, c # b
        PROVE  /\ b_ids[c] \subseteq b_ids'[c]
               /\ \A y \in Bundle!Pending(c) : b_ids'[c] \in {y.original, y.target}
    BY <1>8, <2>1 DEF BundleInv, BoardFits, Bundle!Pending, PendingFits
  <2> QED BY <1>3, <1>8, <2>1
<1>11. \A c \in Board : BoardFits(c)'
  BY <1>5, <1>7, <1>10, BoardsKeep
<1>12. BundleSession'
  <2>1. Stage(b_session, x)'
    BY <1>3, <1>4, <1>5, <1>6, <1>8 DEF Stage, MarkedFor
  <2> QED BY <1>3, <1>6, <1>7, <2>1 DEF BundleSession, Established, Repeating
<1> QED BY <1>9, <1>11, <1>12 DEF BundleInv

\* A card is linked where its record says.
LEMMA BundlePublishesCard ==
  ASSUME BundleParameters, BundleInv, Bundle!PublishCard
  PROVE  BundleInv'
<1>1. b_session # NoSession /\ b_session.at = "cards"
  BY DEF Bundle!PublishCard, Bundle!Step
<1>2. PICK b \in Board, r \in BundleRequest, x \in Bundle!Record :
        b = Bundle!B /\ r = Bundle!R /\ x = Bundle!Rec
  BY <1>1, BundleSessionTyped, TheRecord DEF Repeating, BundleInv
<1>3. /\ x \in Bundle!Records(b) /\ x.request = r /\ x.status = "pending"
      /\ x \in Bundle!Record
  BY <1>1, <1>2, TheRecord DEF Repeating
<1>4. Stage(b_session, x) /\ b_session.board = b /\ b_session.request = r
      /\ b_session \in Bundle!Session
  BY <1>1, <1>2, TheRecord, BundleSessionTyped DEF Repeating, BundleInv
<1>5. PICK i \in x.cards : /\ b_file[b][i] \in {Gone, r}
                           /\ b_file' = [b_file EXCEPT ![b][i] = r]
                           /\ b_session' = [b_session EXCEPT !.done = @ \cup {i}]
  BY <1>2 DEF Bundle!PublishCard
<1>6. UNCHANGED <<b_common, b_ids, b_protocol, b_journal, b_batch, b_created, b_stops, b_edits>>
  BY DEF Bundle!PublishCard, Bundle!boards, Bundle!bounds
<1>7. i \in Bundle!Id
  BY <1>3, <1>5 DEF Bundle!Record
<1>8. /\ b_session' \in Bundle!Session /\ b_session'.board = b /\ b_session'.request = r
      /\ b_session'.at = "cards" /\ b_session'.done = b_session.done \cup {i}
  BY <1>1, <1>4, <1>5, <1>7 DEF Bundle!Session
<1>9. /\ b_file' \in [Board -> [Bundle!Id -> BundleRequest \cup {Plain, Foreign, Gone}]]
      /\ b_file'[b][i] = r
      /\ \A c \in Board, j \in Bundle!Id : c # b \/ j # i => b_file'[c][j] = b_file[c][j]
  <2>1. b_file \in [Board -> [Bundle!Id -> BundleRequest \cup {Plain, Foreign, Gone}]]
    BY DEF BundleInv, BundleTyped
  <2> QED BY <1>5, <1>7, <2>1
<1>10. \A c \in Board : Bundle!Records(c)' = Bundle!Records(c)
  BY <1>6 DEF Bundle!Records
<1>11. BundleTyped'
  BY <1>6, <1>8, <1>9, <1>10 DEF BundleInv, BundleTyped
<1>12. \A c \in Board : BoardFits(c)'
  <2>1. ASSUME b_edits = 0, NEW c \in Board, NEW y \in Bundle!Record,
               y \in Bundle!Records(c), y.status # "pending", NEW j \in y.cards
        PROVE  b_file'[c][j] = y.request \/ b_file'[c][j] = b_file[c][j]
    <3>1. b_file[c][j] = y.request /\ j \in Bundle!Id /\ y.request # Gone
      BY <2>1 DEF BundleInv, BoardFits, CompletedFits, Bundle!Record, BundleParameters
    <3> QED BY <1>5, <1>9, <3>1
  <2>2. \A c \in Board : \A y \in Bundle!Pending(c) : b_ids'[c] \in {y.original, y.target}
    BY <1>6 DEF BundleInv, BoardFits, Bundle!Pending, PendingFits
  <2> QED BY <1>6, <1>10, <2>1, <2>2, BoardsKeep
<1>13. BundleSession'
  <2>1. b_edits = 0 => \A j \in b_session'.done : b_file'[b][j] = r
    <3>1. b_session.done \subseteq Bundle!Id
      BY <1>4 DEF Bundle!Session
    <3>2. b_edits = 0 => \A j \in b_session.done : b_file[b][j] = r
      BY <1>1, <1>4 DEF Stage
    <3> QED BY <1>8, <1>9, <3>1, <3>2
  <2>2. (b_common.on => MarkedFor(b, r)) /\ b_ids[b] = x.target
    BY <1>1, <1>4 DEF Stage
  <2>3. Stage(b_session, x)'
    BY <1>3, <1>6, <1>8, <2>1, <2>2 DEF Stage, MarkedFor
  <2> QED BY <1>3, <1>8, <1>10, <2>3 DEF BundleSession, Established, Repeating
<1> QED BY <1>11, <1>12, <1>13 DEF BundleInv

\* The batch is linked when every card is.
LEMMA BundlePublishesBatch ==
  ASSUME BundleInv, Bundle!PublishBatch
  PROVE  BundleInv'
<1>1. b_session # NoSession /\ b_session.at = "cards"
  BY DEF Bundle!PublishBatch, Bundle!Step
<1>2. PICK b \in Board, r \in BundleRequest, x \in Bundle!Record :
        b = Bundle!B /\ r = Bundle!R /\ x = Bundle!Rec
  BY <1>1, BundleSessionTyped, TheRecord DEF Repeating, BundleInv
<1>3. /\ x \in Bundle!Records(b) /\ x.request = r /\ x.status = "pending"
  BY <1>1, <1>2, TheRecord DEF Repeating
<1>4. Stage(b_session, x) /\ b_session.board = b /\ b_session.request = r
  BY <1>1, <1>2, TheRecord, BundleSessionTyped DEF Repeating, BundleInv
<1>5. /\ b_session.done = x.cards /\ Bundle!Go("complete")
      /\ b_batch' = [b_batch EXCEPT ![b] = @ \cup {r}]
      /\ UNCHANGED <<b_common, b_ids, b_protocol, b_journal, b_file, b_created, b_stops, b_edits>>
  BY <1>2 DEF Bundle!PublishBatch, Bundle!boards, Bundle!bounds
<1>6. /\ b_session' \in Bundle!Session /\ b_session'.board = b /\ b_session'.request = r
      /\ b_session'.at = "complete"
  BY <1>1, <1>2, <1>5, BundleGoesTo DEF Bundle!Steps, BundleInv
<1>7. /\ b_batch' \in [Board -> SUBSET BundleRequest] /\ r \in b_batch'[b]
      /\ \A c \in Board : b_batch[c] \subseteq b_batch'[c]
  BY <1>5 DEF BundleInv, BundleTyped
<1>8. \A c \in Board : Bundle!Records(c)' = Bundle!Records(c)
  BY <1>5 DEF Bundle!Records
<1>9. BundleTyped'
  BY <1>5, <1>6, <1>7, <1>8 DEF BundleInv, BundleTyped
<1>10. \A c \in Board : BoardFits(c)'
  <2>1. \A c \in Board : \A y \in Bundle!Pending(c) : b_ids'[c] \in {y.original, y.target}
    BY <1>5 DEF BundleInv, BoardFits, Bundle!Pending, PendingFits
  <2> QED BY <1>5, <1>7, <1>8, <2>1, BoardsKeep
<1>11. BundleSession'
  <2>1. /\ b_common.on => MarkedFor(b, r)
        /\ b_ids[b] = x.target
        /\ b_edits = 0 => \A j \in x.cards : b_file[b][j] = r
    BY <1>1, <1>4, <1>5 DEF Stage
  <2>2. Stage(b_session, x)'
    BY <1>3, <1>5, <1>6, <1>7, <2>1 DEF Stage, MarkedFor
  <2> QED BY <1>3, <1>6, <1>8, <2>2 DEF BundleSession, Established, Repeating
<1> QED BY <1>9, <1>10, <1>11 DEF BundleInv

\* What Complete writes: the record, completed.
LEMMA RecordCompletes ==
  ASSUME BundleParameters, BundleInv, Bundle!Complete,
         NEW b \in Board, b = Bundle!B, NEW x, x = Bundle!Rec
  PROVE  \E z \in Bundle!Record :
           /\ z.request = x.request /\ z.status = "completed" /\ z.cards = x.cards
           /\ z.original = x.original /\ z.target = x.target
           /\ Bundle!Records(b)' = (Bundle!Records(b) \ {x}) \cup {z}
           /\ b_journal' = [c \in Board |-> b_journal'[c]]
           /\ \A c \in Board \ {b} : Bundle!Records(c)' = Bundle!Records(c)
<1>1. b_session # NoSession /\ b_session.at = "complete"
  BY DEF Bundle!Complete, Bundle!Step
<1>2. x \in Bundle!Records(b) /\ x \in Bundle!Record
  BY <1>1, TheRecord DEF Repeating
<1>0. PICK z : z = [x EXCEPT !.status = "completed"]
  OBVIOUS
<1>3. /\ z.request = x.request /\ z.status = "completed" /\ z.cards = x.cards
      /\ z.original = x.original /\ z.target = x.target
      /\ z \in Bundle!Record
  <2>1. x \in [request : BundleRequest, status : {"pending", "completed"}, cards : SUBSET Bundle!Id,
               original : SUBSET Bundle!Id, target : SUBSET Bundle!Id]
    BY <1>2 DEF Bundle!Record
  <2> QED BY <1>0, <2>1 DEF Bundle!Record
<1>4. b_journal' = [b_journal EXCEPT ![b] = (b_journal[b] \ {x}) \cup {z}]
  BY <1>0 DEF Bundle!Complete
<1>5. b_journal' = [c \in Board |-> b_journal'[c]]
      /\ \A c \in Board \ {b} : Bundle!Records(c)' = Bundle!Records(c)
  BY <1>4 DEF Bundle!Records, BundleInv, BundleTyped
<1>6. Bundle!Records(b)' = (Bundle!Records(b) \ {x}) \cup {z}
  <2>1. b_journal'[b] = (b_journal[b] \ {x}) \cup {z}
    BY <1>4 DEF BundleInv, BundleTyped
  <2>2. b_journal[b] = Bundle!Records(b)
    BY <1>2 DEF Bundle!Records
  <2>3. b_journal'[b] \subseteq Bundle!Record
    BY <1>3, <2>1, <2>2 DEF BundleInv, BundleTyped, JournalFits
  <2>4. b_journal'[b] # Missing
    BY <2>3 DEF BundleParameters
  <2> QED BY <2>1, <2>2, <2>4 DEF Bundle!Records
<1> QED BY <1>3, <1>5, <1>6

\* The record is completed: its identifiers are given out.
LEMMA BundleCompletes ==
  ASSUME BundleParameters, BundleInv, Bundle!Complete
  PROVE  BundleInv'
<1>1. b_session # NoSession /\ b_session.at = "complete"
  BY DEF Bundle!Complete, Bundle!Step
<1>2. PICK b \in Board, r \in BundleRequest, x \in Bundle!Record :
        b = Bundle!B /\ r = Bundle!R /\ x = Bundle!Rec
  BY <1>1, BundleSessionTyped, TheRecord DEF Repeating, BundleInv
<1>3. /\ x \in Bundle!Records(b) /\ x.request = r /\ x.status = "pending"
      /\ x.original \subseteq x.target /\ x.cards \subseteq x.target \ x.original
      /\ Bundle!Pending(b) = {x} /\ PendingFits(b, x)
  BY <1>1, <1>2, TheRecord DEF Repeating
<1>4. Stage(b_session, x) /\ b_session.board = b /\ b_session.request = r
  BY <1>1, <1>2, TheRecord, BundleSessionTyped DEF Repeating, BundleInv
<1>5. /\ b_common.on => MarkedFor(b, r)
      /\ b_ids[b] = x.target
      /\ b_edits = 0 => (\A i \in x.cards : b_file[b][i] = r) /\ r \in b_batch[b]
  BY <1>1, <1>4 DEF Stage
<1>6. /\ Bundle!Go("clear")
      /\ UNCHANGED <<b_common, b_ids, b_protocol, b_file, b_batch, b_created, b_stops, b_edits>>
  BY DEF Bundle!Complete, Bundle!files, Bundle!bounds
<1>7. PICK z \in Bundle!Record :
        /\ z.request = r /\ z.status = "completed" /\ z.cards = x.cards
        /\ z.original = x.original /\ z.target = x.target
        /\ Bundle!Records(b)' = (Bundle!Records(b) \ {x}) \cup {z}
        /\ b_journal' = [c \in Board |-> b_journal'[c]]
        /\ \A c \in Board \ {b} : Bundle!Records(c)' = Bundle!Records(c)
  BY <1>2, <1>3, RecordCompletes
<1>8. /\ b_session' \in Bundle!Session /\ b_session'.board = b /\ b_session'.request = r
      /\ b_session'.at = "clear"
  BY <1>1, <1>2, <1>6, BundleGoesTo DEF Bundle!Steps, BundleInv
<1>9. JournalFits(Bundle!Records(b))'
  <2>1. JournalFits(Bundle!Records(b))
    BY DEF BundleInv, BundleTyped
  <2>2. \A y \in Bundle!Records(b) \ {x} : y.request # r
    BY <1>3, <2>1 DEF JournalFits
  <2> QED BY <1>3, <1>7, <2>1, <2>2 DEF JournalFits
<1>10. BundleTyped'
  <2>1. \A c \in Board : JournalFits(Bundle!Records(c))'
    BY <1>7, <1>9 DEF BundleInv, BundleTyped
  <2> QED BY <1>6, <1>7, <1>8, <2>1 DEF BundleInv, BundleTyped
<1>11. Given(b)' = Given(b) \cup x.cards
  <2>1. Bundle!Pending(b)' = {}
    BY <1>3, <1>7 DEF Bundle!Pending
  <2>2. Bundle!Records(b)' \ Bundle!Pending(b)' =
          (Bundle!Records(b) \ Bundle!Pending(b)) \cup {z}
    BY <1>3, <1>7, <2>1
  <2> QED BY <1>6, <1>7, <2>2 DEF Given
<1>12. \A c \in Board \ {b} : Given(c)' = Given(c)
  BY <1>6, <1>7 DEF Given, Bundle!Pending
<1>13. BoardFits(b)'
  <2>1. BoardFits(b)
    BY DEF BundleInv
  <2>2. Given(b)' \subseteq b_ids'[b]
    BY <1>3, <1>5, <1>6, <1>11, <2>1 DEF BoardFits
  <2>3. b_common'.on => Given(b)' \subseteq b_common'.reserved
    BY <1>3, <1>5, <1>6, <1>11, <2>1 DEF BoardFits, PendingFits
  <2>4. \A y \in Bundle!Records(b)' : y.status # "pending"
    BY <1>3, <1>7 DEF Bundle!Pending
  <2>5. CompletedFits(b, z)'
    BY <1>5, <1>6, <1>7 DEF CompletedFits
  <2>6. ASSUME NEW y \in Bundle!Records(b) \ {x} PROVE CompletedFits(b, y)'
    BY <1>3, <1>6, <2>1, <2>6 DEF BoardFits, CompletedFits, Bundle!Pending
  <2> QED BY <1>7, <2>2, <2>3, <2>4, <2>5, <2>6 DEF BoardFits
<1>14. ASSUME NEW c \in Board, c # b PROVE BoardFits(c)'
  <2>1. BoardFits(c)
    BY DEF BundleInv
  <2>2. ASSUME NEW y \in Bundle!Records(c), y.status = "pending" PROVE PendingFits(c, y)'
    <3>1. ~(b_common'.on /\ MarkedFor(c, y.request)')
      BY <1>5, <1>6, <1>14 DEF MarkedFor
    <3> QED BY <1>6, <1>12, <1>14, <2>1, <2>2, <3>1 DEF BoardFits, PendingFits
  <2>3. ASSUME NEW y \in Bundle!Records(c), y.status # "pending" PROVE CompletedFits(c, y)'
    BY <1>6, <2>1, <2>3 DEF BoardFits, CompletedFits
  <2> QED BY <1>6, <1>7, <1>12, <1>14, <2>1, <2>2, <2>3 DEF BoardFits
<1>15. BundleSession'
  BY <1>8 DEF BundleSession, Established, Repeating
<1> QED BY <1>10, <1>13, <1>14, <1>15 DEF BundleInv

\* A command ends: it has cleared its marker, or a check, a failure or a kill
\* stops it.
LEMMA BundleEnds ==
  ASSUME BundleInv, Bundle!Clear \/ Bundle!Refuse \/ Bundle!Stop
  PROVE  BundleInv'
<1>1. /\ UNCHANGED <<b_ids, b_protocol, b_journal, b_file, b_batch, b_created, b_edits>>
      /\ b_session' = NoSession
  BY DEF Bundle!Clear, Bundle!Refuse, Bundle!Stop, Bundle!boards, Bundle!files, Bundle!bounds
<1>2. b_stops' \in 0..MaxStops
  <2>1. b_stops \in 0..MaxStops /\ MaxStops \in Nat
    BY StorageAssumption DEF BundleInv, BundleTyped
  <2>2. b_stops' = b_stops \/ (b_stops < MaxStops /\ b_stops' = b_stops + 1)
    BY DEF Bundle!Clear, Bundle!Refuse, Bundle!Stop, Bundle!bounds
  <2> QED BY <2>1, <2>2
<1>3. /\ b_common' \in [on : BOOLEAN, protocol : 0..1, reserved : SUBSET Bundle!Id,
                        pending : Bundle!Marker \cup {NoMarker}]
      /\ UNCHANGED <<b_common.on, b_common.reserved>>
      /\ b_common'.pending \in {b_common.pending, NoMarker}
  <2>1. b_common \in [on : BOOLEAN, protocol : 0..1, reserved : SUBSET Bundle!Id,
                      pending : Bundle!Marker \cup {NoMarker}]
    BY DEF BundleInv, BundleTyped
  <2>2. b_common' = b_common \/ b_common' = [b_common EXCEPT !.pending = NoMarker]
    BY DEF Bundle!Clear, Bundle!Refuse, Bundle!Stop
  <2> QED BY <2>1, <2>2
<1>4. \A c \in Board : Bundle!Records(c)' = Bundle!Records(c)
  BY <1>1 DEF Bundle!Records
<1>5. BundleTyped'
  BY <1>1, <1>2, <1>3, <1>4 DEF BundleInv, BundleTyped
<1>6. \A c \in Board : BoardFits(c)'
  BY <1>1, <1>3, <1>4, BoardsQuiet
<1> QED BY <1>1, <1>5, <1>6 DEF BundleInv, BundleSession

\* Another command gives out an identifier.
LEMMA BundleCreates ==
  ASSUME BundleParameters, BundleInv, NEW b \in Board, NEW i \in Bundle!Id,
         Bundle!CreateCard(b, i)
  PROVE  BundleInv' /\ Given(b)' = Given(b) \cup {i}
                    /\ \A c \in Board \ {b} : Given(c)' = Given(c)
<1>1. PICK ledger \in SUBSET Bundle!Id : ledger = Bundle!Ledger(b)
  BY DEF Bundle!Ledger, BundleInv, BundleTyped
<1>2. /\ b_session = NoSession /\ i \notin ledger
      /\ b_ids' = [b_ids EXCEPT ![b] = ledger \cup {i}]
      /\ b_common' = IF b_common.on
                     THEN [b_common EXCEPT !.reserved = b_common.reserved \cup ledger \cup {i}]
                     ELSE b_common
      /\ b_file' = [b_file EXCEPT ![b][i] = Plain]
      /\ b_created' = [b_created EXCEPT ![b] = b_created[b] \cup {i}]
      /\ UNCHANGED <<b_protocol, b_journal, b_batch, b_session, b_stops, b_edits>>
  BY <1>1 DEF Bundle!CreateCard, Bundle!bounds
<1>3. (b_common.on => b_common.pending = NoMarker) /\ Bundle!Pending(b) = {}
  BY DEF Bundle!CreateCard, Bundle!GateOpen, Bundle!Pending, Bundle!Records
<1>4. b_ids[b] \subseteq ledger
  BY <1>1 DEF Bundle!Ledger
<1>5. \A c \in Board : Bundle!Records(c)' = Bundle!Records(c)
  BY <1>2 DEF Bundle!Records
<1>6. b_common \in [on : BOOLEAN, protocol : 0..1, reserved : SUBSET Bundle!Id,
                   pending : Bundle!Marker \cup {NoMarker}]
  BY DEF BundleInv, BundleTyped
<1>7. /\ b_common' \in [on : BOOLEAN, protocol : 0..1, reserved : SUBSET Bundle!Id,
                        pending : Bundle!Marker \cup {NoMarker}]
      /\ UNCHANGED <<b_common.on, b_common.pending>>
      /\ b_common.reserved \subseteq b_common'.reserved
      /\ b_common.on => ledger \cup {i} \subseteq b_common'.reserved
  <2>1. CASE b_common.on
    BY <1>1, <1>2, <1>6, <2>1
  <2>2. CASE ~b_common.on
    BY <1>2, <1>6, <2>2
  <2> QED BY <2>1, <2>2
<1>8. /\ b_ids' \in [Board -> SUBSET Bundle!Id] /\ b_ids'[b] = ledger \cup {i}
      /\ \A c \in Board \ {b} : b_ids'[c] = b_ids[c]
  BY <1>1, <1>2 DEF BundleInv, BundleTyped
<1>9. /\ b_file' \in [Board -> [Bundle!Id -> BundleRequest \cup {Plain, Foreign, Gone}]]
      /\ \A c \in Board, j \in Bundle!Id : c # b \/ j # i => b_file'[c][j] = b_file[c][j]
  <2>1. b_file \in [Board -> [Bundle!Id -> BundleRequest \cup {Plain, Foreign, Gone}]]
    BY DEF BundleInv, BundleTyped
  <2> QED BY <1>2, <2>1
<1>10. /\ b_created' \in [Board -> SUBSET Bundle!Id] /\ b_created'[b] = b_created[b] \cup {i}
       /\ \A c \in Board \ {b} : b_created'[c] = b_created[c]
  BY <1>2 DEF BundleInv, BundleTyped
<1>11. BundleTyped'
  BY <1>2, <1>5, <1>7, <1>8, <1>9, <1>10 DEF BundleInv, BundleTyped
<1>12. Given(b)' = Given(b) \cup {i}
  BY <1>5, <1>10 DEF Given, Bundle!Pending
<1>13. \A c \in Board \ {b} : Given(c)' = Given(c)
  BY <1>5, <1>10 DEF Given, Bundle!Pending
<1>14. ASSUME NEW c \in Board PROVE BoardFits(c)'
  <2>1. BoardFits(c)
    BY DEF BundleInv
  <2>2. ASSUME NEW y \in Bundle!Records(c), y.status = "pending" PROVE PendingFits(c, y)'
    <3>1. PendingFits(c, y) /\ c # b
      BY <1>3, <2>1, <2>2 DEF BoardFits, Bundle!Pending
    <3>2. ~(b_common'.on /\ MarkedFor(c, y.request)')
      BY <1>3, <1>7 DEF MarkedFor
    <3> QED BY <1>8, <1>13, <3>1, <3>2 DEF PendingFits
  <2>3. ASSUME NEW y \in Bundle!Records(c), y.status # "pending" PROVE CompletedFits(c, y)'
    <3>1. CompletedFits(c, y) /\ y.cards \subseteq Bundle!Id
      BY <2>1, <2>3 DEF BoardFits, BundleInv, BundleTyped, JournalFits, Bundle!Record
    <3>2. c = b => y.cards \subseteq b_ids[b]
      BY <2>1, <2>3 DEF BoardFits, Given, Bundle!Pending
    <3>3. \A j \in y.cards : b_file'[c][j] = b_file[c][j]
      BY <1>2, <1>4, <1>9, <3>1, <3>2
    <3> QED BY <1>2, <3>1, <3>3 DEF CompletedFits
  <2>4. Given(c)' \subseteq b_ids'[c]
    BY <1>4, <1>8, <1>12, <1>13, <2>1 DEF BoardFits
  <2>5. b_common'.on => Given(c)' \subseteq b_common'.reserved
    BY <1>7, <1>12, <1>13, <2>1 DEF BoardFits
  <2> QED BY <1>5, <2>2, <2>3, <2>4, <2>5 DEF BoardFits
<1>15. BundleSession'
  BY <1>2 DEF BundleSession
<1> QED BY <1>11, <1>12, <1>13, <1>14, <1>15 DEF BundleInv

\* An editor acts.
LEMMA BundleEdited ==
  ASSUME BundleParameters, BundleInv, NEW b \in Board, NEW i \in Bundle!Id, Bundle!Edit(b, i)
  PROVE  BundleInv'
<1>1. PICK c \in {Foreign, Gone} : b_file' = [b_file EXCEPT ![b][i] = c]
  BY DEF Bundle!Edit
<1>2. UNCHANGED <<b_common, b_ids, b_protocol, b_journal, b_batch, b_created, b_session, b_stops>>
  BY DEF Bundle!Edit, Bundle!boards
<1>3. b_edits' \in 0..MaxEdits /\ b_edits' # 0
  <2>1. b_edits \in 0..MaxEdits /\ MaxEdits \in Nat
    BY StorageAssumption DEF BundleInv, BundleTyped
  <2> QED BY <2>1 DEF Bundle!Edit
<1>4. b_file' \in [Board -> [Bundle!Id -> BundleRequest \cup {Plain, Foreign, Gone}]]
  <2>1. b_file \in [Board -> [Bundle!Id -> BundleRequest \cup {Plain, Foreign, Gone}]]
    BY DEF BundleInv, BundleTyped
  <2> QED BY <1>1, <2>1
<1>5. \A d \in Board : Bundle!Records(d)' = Bundle!Records(d)
  BY <1>2 DEF Bundle!Records
<1>6. BundleTyped'
  BY <1>2, <1>3, <1>4, <1>5 DEF BundleInv, BundleTyped
<1>7. \A d \in Board : BoardFits(d)'
  <2>1. \A d \in Board : \A y \in Bundle!Pending(d) : b_ids'[d] \in {y.original, y.target}
    BY <1>2 DEF BundleInv, BoardFits, Bundle!Pending, PendingFits
  <2> QED BY <1>2, <1>3, <1>5, <2>1, BoardsKeep
<1>8. BundleSession'
  <2>1. CASE b_session = NoSession
    BY <1>2, <2>1 DEF BundleSession
  <2>2. CASE b_session # NoSession
    <3>1. PICK d \in Board, r \in BundleRequest : b_session.board = d /\ b_session.request = r
      BY <2>2, BundleSessionTyped DEF BundleInv
    <3>2. Bundle!Found(d, r)' = Bundle!Found(d, r) /\ Bundle!Pending(d)' = Bundle!Pending(d)
      BY <1>5 DEF Bundle!Found, Bundle!Pending
    <3>3. ASSUME NEW x \in Bundle!Records(d), Stage(b_session, x) PROVE Stage(b_session, x)'
      BY <1>2, <1>3, <3>3 DEF Stage, Bundle!OwnMarker, MarkedFor
    <3>4. Established(b_session)
      BY <2>2 DEF BundleInv, BundleSession
    <3> QED BY <1>2, <1>5, <3>1, <3>2, <3>3, <3>4 DEF BundleSession, Established
  <2> QED BY <2>1, <2>2
<1> QED BY <1>6, <1>7, <1>8 DEF BundleInv

-----------------------------------------------------------------------------
(* What follows from it.                                                   *)

\* The invariant holds at first, is kept by every step, and so holds always.
LEMMA BundleBegins ==
  ASSUME BundleParameters, Bundle!Init
  PROVE  BundleInv
<1>1. \A b \in Board : Bundle!Records(b) = {}
  BY DEF Bundle!Init, Bundle!Records
<1>2. \A b \in Board : JournalFits(Bundle!Records(b))
  BY <1>1 DEF JournalFits
<1>3. BundleTyped
  <2>1. b_common \in [on : BOOLEAN, protocol : 0..1, reserved : SUBSET Bundle!Id,
                      pending : Bundle!Marker \cup {NoMarker}]
    BY DEF Bundle!Init
  <2>2. b_stops \in 0..MaxStops /\ b_edits \in 0..MaxEdits
    BY StorageAssumption DEF Bundle!Init
  <2> QED BY <1>2, <2>1, <2>2 DEF Bundle!Init, BundleTyped
<1>4. \A b \in Board : Given(b) = {}
  BY <1>1 DEF Given, Bundle!Pending, Bundle!Init
<1>5. \A b \in Board : BoardFits(b)
  BY <1>1, <1>4 DEF BoardFits
<1>6. BundleSession
  BY DEF Bundle!Init, BundleSession
<1> QED BY <1>3, <1>5, <1>6 DEF BundleInv

LEMMA BundleSteps ==
  ASSUME BundleParameters, BundleInv, [Bundle!Next]_Bundle!vars
  PROVE  BundleInv'
<1>1. CASE UNCHANGED Bundle!vars
  <2>1. UNCHANGED <<b_common, b_ids, b_protocol, b_journal, b_file, b_batch, b_created,
                    b_session, b_stops, b_edits>>
    BY <1>1 DEF Bundle!vars
  <2>2. \A b \in Board : Bundle!Records(b)' = Bundle!Records(b)
    BY <2>1 DEF Bundle!Records
  <2>3. BundleTyped'
    BY <2>1, <2>2 DEF BundleInv, BundleTyped
  <2>4. \A b \in Board : BoardFits(b)'
    BY <2>1, <2>2, BoardsQuiet
  <2>5. BundleSession'
    <3>1. Established(b_session)' = Established(b_session)
      BY <2>1 DEF Established, Stage, Bundle!Found, Bundle!Pending, Bundle!Records,
                  Bundle!OwnMarker, MarkedFor
    <3> QED BY <2>1, <3>1 DEF BundleInv, BundleSession
  <2> QED BY <2>3, <2>4, <2>5 DEF BundleInv
<1>2. CASE Bundle!Work
  <2>1. CASE Bundle!AdoptJournal \/ Bundle!AdoptLocal \/ Bundle!AdoptCommon
    BY <2>1, BundleAdopts
  <2>2. CASE Bundle!SavePending
    BY <2>2, BundleSaves
  <2>3. CASE Bundle!Resume
    BY <2>3, BundleResumes
  <2>4. CASE Bundle!Reserve
    BY <2>4, BundleReserves
  <2>5. CASE Bundle!PublishLedger
    BY <2>5, BundlePublishesLedger
  <2>6. CASE Bundle!PublishCard
    BY <2>6, BundlePublishesCard
  <2>7. CASE Bundle!PublishBatch
    BY <2>7, BundlePublishesBatch
  <2>8. CASE Bundle!Complete
    BY <2>8, BundleCompletes
  <2>9. CASE Bundle!Clear \/ Bundle!Refuse
    BY <2>9, BundleEnds
  <2> QED BY <1>2, <2>1, <2>2, <2>3, <2>4, <2>5, <2>6, <2>7, <2>8, <2>9 DEF Bundle!Work
<1>3. CASE Bundle!Stop
  BY <1>3, BundleEnds
<1>4. ASSUME NEW b \in Board, NEW r \in BundleRequest,
             Bundle!OpenNew(b, r) \/ Bundle!OpenPending(b, r) \/ Bundle!OpenCompleted(b, r)
      PROVE  BundleInv'
  BY <1>4, BundleOpens
<1>5. ASSUME NEW b \in Board, NEW i \in Bundle!Id, Bundle!CreateCard(b, i)
      PROVE  BundleInv'
  BY <1>5, BundleCreates
<1>6. ASSUME NEW b \in Board, NEW i \in Bundle!Id, Bundle!Edit(b, i)
      PROVE  BundleInv'
  BY <1>6, BundleEdited
<1> QED BY <1>1, <1>2, <1>3, <1>4, <1>5, <1>6 DEF Bundle!Next

LEMMA BundleInvAlways ==
  ASSUME BundleParameters
  PROVE  Bundle!Spec => []BundleInv
<1>1. Bundle!Init => BundleInv
  BY BundleBegins
<1>2. BundleInv /\ [Bundle!Next]_Bundle!vars => BundleInv'
  BY BundleSteps
<1> QED BY <1>1, <1>2, PTL DEF Bundle!Spec

\* The invariant implies what is promised.
LEMMA BundleInvShows ==
  ASSUME BundleInv
  PROVE  Bundle!TypeOK /\ Bundle!OthersSeeWhole
<1>1. ASSUME NEW b \in Board
      PROVE  b_journal[b] = Missing
             \/ (b_journal[b] \subseteq Bundle!Record /\ Bundle!Decoded(b_journal[b]))
  <2>1. CASE b_journal[b] # Missing
    <3>1. PICK j : j = b_journal[b] /\ JournalFits(j)
      BY <2>1 DEF BundleInv, BundleTyped, Bundle!Records
    <3>2. PICK s : s = {x \in j : x.status = "pending"}
      OBVIOUS
    <3>3. Cardinality(s) <= 1
      <4>1. CASE s = {}
        BY <4>1, FS_EmptySet
      <4>2. CASE s # {}
        <5>1. PICK x \in s : TRUE
          BY <4>2
        <5>2. s = {x}
          BY <3>1, <3>2, <5>1 DEF JournalFits
        <5>3. Cardinality(s) = 1
          BY <5>2, FS_Singleton
        <5> QED BY <5>3
      <4> QED BY <4>1, <4>2
    <3>4. Cardinality({x \in j : x.status = "pending"}) <= 1
      BY <3>2, <3>3
    <3>5. /\ \A x, y \in j : x.request = y.request => x = y
          /\ \A x \in j : x.original \subseteq x.target /\ x.cards \subseteq x.target \ x.original
      BY <3>1 DEF JournalFits
    <3>6. Bundle!Cardinality({x \in j : x.status = "pending"}) <= 1
      BY <3>4 DEF Bundle!Cardinality, Cardinality
    <3>7. Bundle!Decoded(j)
      BY <3>5, <3>6 DEF Bundle!Decoded
    <3> QED BY <3>1, <3>7 DEF JournalFits
  <2> QED BY <2>1
<1>2. Bundle!TypeOK
  <2>1. BundleTyped
    BY DEF BundleInv
  <2> QED BY <1>1, <2>1 DEF BundleTyped, Bundle!TypeOK
<1>3. ASSUME b_edits = 0, NEW b \in Board, Bundle!GateOpen(b), NEW x \in Bundle!Records(b)
      PROVE  /\ \A i \in x.cards : b_file[b][i] = x.request
             /\ x.request \in b_batch[b]
             /\ x.cards \subseteq
                  b_ids[b] \cap (IF b_common.on THEN b_common.reserved ELSE b_ids[b])
  <2>1. x.status # "pending"
    BY <1>3 DEF Bundle!GateOpen, Bundle!Pending, Bundle!Records
  <2>2. CompletedFits(b, x) /\ Given(b) \subseteq b_ids[b]
        /\ (b_common.on => Given(b) \subseteq b_common.reserved)
    BY <1>3, <2>1 DEF BundleInv, BoardFits
  <2>3. x.cards \subseteq Given(b)
    BY <1>3, <2>1 DEF Given, Bundle!Pending
  <2> QED BY <1>3, <2>2, <2>3 DEF CompletedFits
<1> QED BY <1>2, <1>3 DEF Bundle!OthersSeeWhole

\* In every reachable state of BundlePublication the types hold, and another
\* command that is let in meets every recorded request whole or not at all, unless
\* an editor was there (checkBundleGate, acquireShared, prepareRecord,
\* reserveBundle, publishBundleFile, finishBundle).
THEOREM BundleWholeAlways ==
  ASSUME BundleParameters
  PROVE  Bundle!Spec => [](Bundle!TypeOK /\ Bundle!OthersSeeWhole)
<1>1. BundleInv => Bundle!TypeOK /\ Bundle!OthersSeeWhole
  BY BundleInvShows
<1> QED BY <1>1, BundleInvAlways, PTL

-----------------------------------------------------------------------------
(* A bundle is one issue of identifiers (TaskIssue).                       *)

\* What TaskIssue calls issued, in the state of BundlePublication.
BundleIssued ==
  [b \in Board |->
     [id : b_created[b], to : {Plain}] \cup
     UNION {[id : x.cards, to : {x.request}] : x \in Bundle!Records(b) \ Bundle!Pending(b)}]

\* An issued identifier is one that was given out, to create or to a completed
\* request.
LEMMA IssuedIsGiven ==
  ASSUME NEW b \in Board, NEW i \in BundleIssued[b]
  PROVE  /\ i.id \in Given(b)
         /\ i.to = Plain \/ \E x \in Served(b) : i.to = x.request
<1>1. CASE i \in [id : b_created[b], to : {Plain}]
  BY <1>1 DEF Given
<1>2. ASSUME NEW x \in Served(b), i \in [id : x.cards, to : {x.request}]
      PROVE  /\ i.id \in Given(b)
             /\ i.to = x.request
  BY <1>2 DEF Given, Served
<1> QED BY <1>1, <1>2 DEF BundleIssued, Served

\* Steps that complete no record and create no card issue nothing.
LEMMA IssuesNothing ==
  ASSUME UNCHANGED <<b_created, b_common.on>>,
         \A b \in Board : Served(b)' = Served(b)
  PROVE  UNCHANGED <<b_common.on, BundleIssued>>
  BY DEF BundleIssued, Served

\* What is taken as far as a board is concerned was given out there or, where
\* the identifiers are shared, on some board.
LEMMA TakenIsGiven ==
  ASSUME NEW b \in Board, NEW i \in Bundle!Issue!Taken(b)
  PROVE  i \in Given(b) \/ (b_common.on /\ \E c \in Board : i \in Given(c))
<1>1. PICK c \in (IF b_common.on THEN Board ELSE {b}) : \E k \in BundleIssued[c] : i = k.id
  BY DEF Bundle!Issue!Taken, BundleIssued
<1>2. CASE b_common.on
  BY <1>1, <1>2, IssuedIsGiven
<1>3. CASE ~b_common.on
  BY <1>1, <1>3, IssuedIsGiven
<1> QED BY <1>2, <1>3

\* A step that issues identifiers on a board, as TaskIssue has it.
LEMMA IssueShows ==
  ASSUME NEW b \in Board, NEW r \in BundleRequest \cup {Plain}, NEW s \in SUBSET Bundle!Id,
         r # Plain => \A x \in Served(b) : x.request # r,
         s \cap Given(b) = {},
         b_common.on => \A c \in Board : s \cap Given(c) = {},
         BundleIssued' = [BundleIssued EXCEPT ![b] = @ \cup [id : s, to : {r}]],
         UNCHANGED b_common.on
  PROVE  Bundle!Issue!Next
<1>1. r # Plain => \A i \in BundleIssued[b] : i.to # r
  BY IssuedIsGiven
<1>2. s \cap Bundle!Issue!Taken(b) = {}
  BY TakenIsGiven
<1>3. Bundle!Issue!Issue(b, r, s)
  BY <1>1, <1>2 DEF Bundle!Issue!Issue, BundleIssued
<1> QED BY <1>3 DEF Bundle!Issue!Next, Bundle!Id

\* The completion of a record is one issue, of all of its identifiers.
LEMMA CompleteIssues ==
  ASSUME BundleParameters, BundleInv, Bundle!Complete
  PROVE  Bundle!Issue!Next
<1>1. b_session # NoSession /\ b_session.at = "complete"
  BY DEF Bundle!Complete, Bundle!Step
<1>2. PICK b \in Board, r \in BundleRequest, x \in Bundle!Record :
        b = Bundle!B /\ r = Bundle!R /\ x = Bundle!Rec
  BY <1>1, BundleSessionTyped, TheRecord DEF Repeating, BundleInv
<1>3. /\ x \in Bundle!Records(b) /\ x.request = r /\ x.status = "pending"
      /\ x \in Bundle!Record /\ x.cards \subseteq x.target \ x.original
      /\ Bundle!Pending(b) = {x} /\ PendingFits(b, x)
  BY <1>1, <1>2, TheRecord DEF Repeating
<1>4. b_common.on => MarkedFor(b, r)
  BY <1>1, <1>2, TheRecord, BundleSessionTyped DEF Repeating, Stage, BundleInv
<1>5. UNCHANGED <<b_common, b_created>>
  BY DEF Bundle!Complete, Bundle!files
<1>6. PICK z \in Bundle!Record :
        /\ z.request = r /\ z.status = "completed" /\ z.cards = x.cards
        /\ Bundle!Records(b)' = (Bundle!Records(b) \ {x}) \cup {z}
        /\ \A c \in Board \ {b} : Bundle!Records(c)' = Bundle!Records(c)
  BY <1>2, <1>3, RecordCompletes
<1>7. Served(b)' = Served(b) \cup {z}
  <2>1. Bundle!Pending(b)' = {}
    BY <1>3, <1>6 DEF Bundle!Pending
  <2> QED BY <1>3, <1>6, <2>1 DEF Served
<1>8. \A c \in Board \ {b} : Served(c)' = Served(c)
  BY <1>6 DEF Served, Bundle!Pending
<1>9. BundleIssued' = [BundleIssued EXCEPT ![b] = @ \cup [id : x.cards, to : {r}]]
  <2>1. BundleIssued'[b] = BundleIssued[b] \cup [id : x.cards, to : {r}]
    BY <1>5, <1>6, <1>7 DEF BundleIssued, Served
  <2>2. \A c \in Board \ {b} : BundleIssued'[c] = BundleIssued[c]
    BY <1>5, <1>8 DEF BundleIssued, Served
  <2>3. BundleIssued = [c \in Board |-> BundleIssued[c]]
        /\ BundleIssued' = [c \in Board |-> BundleIssued'[c]]
    BY DEF BundleIssued
  <2> QED BY <2>1, <2>2, <2>3
<1>10. \A y \in Served(b) : y.request # r
  BY <1>3 DEF Served, Bundle!Pending, BundleInv, BundleTyped, JournalFits
<1>11. x.cards \cap Given(b) = {}
       /\ (b_common.on => \A c \in Board : x.cards \cap Given(c) = {})
  BY <1>3, <1>4 DEF PendingFits
<1>12. x.cards \in SUBSET Bundle!Id
  BY <1>3 DEF Bundle!Record
<1> QED BY <1>5, <1>9, <1>10, <1>11, <1>12, IssueShows

\* A command that gives out one identifier is one issue.
LEMMA CreateIssues ==
  ASSUME BundleParameters, BundleInv, NEW b \in Board, NEW i \in Bundle!Id,
         Bundle!CreateCard(b, i)
  PROVE  Bundle!Issue!Next
<1>1. /\ i \notin Bundle!Ledger(b)
      /\ b_created' = [b_created EXCEPT ![b] = b_created[b] \cup {i}]
      /\ UNCHANGED b_journal
  BY DEF Bundle!CreateCard
<1>2. UNCHANGED b_common.on
  BY DEF Bundle!CreateCard, BundleInv, BundleTyped
<1>3. \A c \in Board : Served(c)' = Served(c)
  BY <1>1 DEF Served, Bundle!Pending, Bundle!Records
<1>4. /\ b_created'[b] = b_created[b] \cup {i}
      /\ \A c \in Board \ {b} : b_created'[c] = b_created[c]
  BY <1>1 DEF BundleInv, BundleTyped
<1>5. BundleIssued' = [BundleIssued EXCEPT ![b] = @ \cup [id : {i}, to : {Plain}]]
  <2>1. [id : b_created'[b], to : {Plain}] =
          [id : b_created[b], to : {Plain}] \cup [id : {i}, to : {Plain}]
    BY <1>4
  <2>2. BundleIssued'[b] = BundleIssued[b] \cup [id : {i}, to : {Plain}]
    BY <1>3, <2>1 DEF BundleIssued, Served
  <2>3. \A c \in Board \ {b} : BundleIssued'[c] = BundleIssued[c]
    BY <1>3, <1>4 DEF BundleIssued, Served
  <2>4. BundleIssued = [c \in Board |-> BundleIssued[c]]
        /\ BundleIssued' = [c \in Board |-> BundleIssued'[c]]
    BY DEF BundleIssued
  <2> QED BY <2>2, <2>3, <2>4
<1>6. i \notin Given(b) /\ (b_common.on => \A c \in Board : i \notin Given(c))
  BY <1>1 DEF Bundle!Ledger, BundleInv, BoardFits
<1>7. {i} \in SUBSET Bundle!Id /\ {i} \cap Given(b) = {}
      /\ (b_common.on => \A c \in Board : {i} \cap Given(c) = {})
  BY <1>6
<1> QED BY <1>2, <1>5, <1>7, IssueShows

\* The first state.
LEMMA BundleIssueBegins ==
  ASSUME Bundle!Init
  PROVE  Bundle!Issue!Init
<1>1. b_common.on \in BOOLEAN
  BY DEF Bundle!Init
<1>2. BundleIssued = [b \in Board |-> {}]
  <2>1. \A b \in Board : BundleIssued[b] = {}
    BY DEF Bundle!Init, BundleIssued, Bundle!Records, Bundle!Pending
  <2> QED BY <2>1 DEF BundleIssued
<1> QED BY <1>1, <1>2 DEF Bundle!Issue!Init, BundleIssued

\* The steps that issue nothing.
LEMMA OthersIssueNothing ==
  ASSUME BundleParameters, BundleInv, [Bundle!Next]_Bundle!vars,
         ~Bundle!Complete, \A b \in Board, i \in Bundle!Id : ~Bundle!CreateCard(b, i)
  PROVE  UNCHANGED <<b_common.on, BundleIssued>>
<1>1. ASSUME UNCHANGED <<b_created, b_common.on, b_journal>>
      PROVE  UNCHANGED <<b_common.on, BundleIssued>>
  BY <1>1, IssuesNothing DEF Served, Bundle!Records, Bundle!Pending
<1>2. CASE UNCHANGED Bundle!vars
  BY <1>1, <1>2 DEF Bundle!vars
<1>3. CASE Bundle!AdoptJournal
  <2>1. \A c \in Board : Served(c)' = Served(c)
    BY <1>3, BundleSessionTyped
       DEF Bundle!AdoptJournal, Bundle!Step, Served, Bundle!Records, Bundle!Pending,
           BundleInv, BundleTyped
  <2> QED BY <1>3, <2>1, IssuesNothing DEF Bundle!AdoptJournal, Bundle!files
<1>4. CASE Bundle!SavePending
  BY <1>4, BundleSaves, IssuesNothing DEF Bundle!SavePending, Bundle!files
<1>5. CASE Bundle!Reserve \/ Bundle!AdoptCommon \/ Bundle!Clear
  <2>1. b_common'.on = b_common.on
    BY <1>5 DEF Bundle!Reserve, Bundle!AdoptCommon, Bundle!Clear, BundleInv, BundleTyped
  <2> QED BY <1>1, <1>5, <2>1
          DEF Bundle!Reserve, Bundle!AdoptCommon, Bundle!Clear, Bundle!boards, Bundle!files
<1>6. CASE Bundle!AdoptLocal \/ Bundle!Resume \/ Bundle!PublishLedger
           \/ Bundle!PublishCard \/ Bundle!PublishBatch \/ Bundle!Refuse
  BY <1>1, <1>6 DEF Bundle!AdoptLocal, Bundle!Resume, Bundle!PublishLedger,
                    Bundle!PublishCard, Bundle!PublishBatch, Bundle!Refuse,
                    Bundle!boards, Bundle!files
<1>7. CASE Bundle!Stop
  BY <1>1, <1>7 DEF Bundle!Stop, Bundle!boards, Bundle!files
<1>8. CASE \E b \in Board, r \in BundleRequest :
             Bundle!OpenNew(b, r) \/ Bundle!OpenPending(b, r) \/ Bundle!OpenCompleted(b, r)
  BY <1>1, <1>8 DEF Bundle!OpenNew, Bundle!OpenPending, Bundle!OpenCompleted, Bundle!Open,
                    Bundle!boards, Bundle!files
<1>9. CASE \E b \in Board, i \in Bundle!Id : Bundle!Edit(b, i)
  BY <1>1, <1>9 DEF Bundle!Edit, Bundle!boards
<1> QED BY <1>2, <1>3, <1>4, <1>5, <1>6, <1>7, <1>8, <1>9 DEF Bundle!Next, Bundle!Work

\* Every step is an issue or none.
LEMMA BundleIssueSteps ==
  ASSUME BundleParameters, BundleInv, [Bundle!Next]_Bundle!vars
  PROVE  [Bundle!Issue!Next]_<<b_common.on, BundleIssued>>
  BY CompleteIssues, CreateIssues, OthersIssueNothing

\* BundlePublication implements TaskIssue: through refusals, failures, kills and
\* resumptions, a bundle's identifiers are given out all at once, once for each
\* request on a board, and to nobody else, in whichever worktree (prepareRecord,
\* reserveBundle, validateResume, finishBundle).
THEOREM BundleImplementsIssue ==
  ASSUME BundleParameters
  PROVE  Bundle!Spec => Bundle!ImplementsIssue
<1>1. Bundle!Init => Bundle!Issue!Init
  BY BundleIssueBegins
<1>2. BundleInv /\ [Bundle!Next]_Bundle!vars => [Bundle!Issue!Next]_<<b_common.on, BundleIssued>>
  BY BundleIssueSteps
<1> QED BY <1>1, <1>2, BundleInvAlways, PTL
        DEF Bundle!Spec, Bundle!ImplementsIssue, Bundle!Issue!Spec, BundleIssued

-----------------------------------------------------------------------------
(* Both together.                                                          *)

\* A step of both is one of each, or leaves it alone.
LEMMA BothStep ==
  ASSUME [Continues]_all
  PROVE  [Next]_vars /\ [Bundle!Next]_Bundle!vars /\ which' = which
<1>1. bundles' = bundles => Bundle!vars' = Bundle!vars
  BY DEF bundles, Bundle!vars
<1>2. CASE ForStorage /\ Next
  BY <1>1, <1>2 DEF ForStorage
<1>3. CASE ForBundle /\ Bundle!Next
  BY <1>3 DEF ForBundle
<1>4. CASE UNCHANGED all
  BY <1>1, <1>4 DEF all
<1> QED BY <1>2, <1>3, <1>4 DEF Continues

BothInv == which \in {"storage", "bundle"} /\ StorageInv /\ BundleInv

LEMMA BothInvAlways ==
  ASSUME BundleParameters
  PROVE  Behaviour => []BothInv
<1>1. Begins => BothInv
  BY StorageBegins, BundleBegins DEF Begins, BothInv
<1>2. BothInv /\ [Continues]_all => BothInv'
  BY BothStep, StorageSteps, BundleSteps DEF BothInv
<1> QED BY <1>1, <1>2, PTL DEF Behaviour

\* In every reachable state of PendingMarkers the types hold, and no command that is
\* let in meets half an operation of storage or half a bundle (checkStorageGate,
\* checkBundleGate).
THEOREM OthersSeeWholeAlways ==
  ASSUME BundleParameters
  PROVE  Behaviour => []OthersSeeWhole
<1>1. BothInv => OthersSeeWhole
  BY InvHolds, BundleInvShows DEF BothInv, OthersSeeWhole
<1> QED BY <1>1, BothInvAlways, PTL

\* In PendingMarkers too, bundles implement TaskIssue (prepareRecord, reserveBundle).
THEOREM ImplementsIssueAlways ==
  ASSUME BundleParameters
  PROVE  Behaviour => ImplementsIssue
<1>1. Begins => Bundle!Issue!Init
  BY BundleIssueBegins DEF Begins
<1>2. BothInv /\ [Continues]_all => [Bundle!Issue!Next]_<<b_common.on, BundleIssued>>
  BY BothStep, BundleIssueSteps DEF BothInv
<1> QED BY <1>1, <1>2, BothInvAlways, PTL
        DEF Behaviour, ImplementsIssue, Bundle!ImplementsIssue, Bundle!Issue!Spec, BundleIssued

=============================================================================
