----------------------------- MODULE ManualCards -----------------------------
(***************************************************************************)
(* Entering, leaving and reissuing a card in the manual zone               *)
(* (internal/taskflow: manual_apply.go, manual_entry_resume.go,            *)
(* manual_resume.go, manual_publish.go, manual_reissue.go;                 *)
(* internal/manualzone).                                                   *)
(*                                                                         *)
(* The three operations take no lock and are not reached by a command yet; *)
(* here one caller at a time runs them, step by step, and each step may be *)
(* the last before a kill or may fail.  A write truncates first, so a kill *)
(* in the middle of it leaves a torn file.  Between the calls a human      *)
(* writes receipts, verdicts of a review, and edits the card.              *)
(*                                                                         *)
(* A generation is the tuple it is derived from, the first one the empty   *)
(* tuple; the digest of a card is the card without its verdict.            *)
(***************************************************************************)
EXTENDS Naturals, FiniteSets

CONSTANTS
  Request,      \* request IDs of exits and reissues
  None, Torn,
  MaxCalls,     \* bound: calls, not counting repetitions
  MaxStops,     \* bound: kills and failing steps
  MaxEdits      \* bound: acts of the human on the card

VARIABLES
  files,        \* zone -> the card's file there
  inbound,      \* the zone the links of other documents lead to
  entry,        \* generation -> published entry record
  close,        \* generation -> published close record
  partial,      \* <<final name, request key>> -> what was staged
  receipt,      \* generation -> the receipt the human wrote
  call,         \* the call being run: the request and its position
  unanswered,   \* requests killed before they answered
  told,         \* what successful calls answered
  seen          \* bounds used up, and what the human and kills disturbed

vars == <<files, inbound, entry, close, partial, receipt, call, unanswered, told, seen>>

Zone == {"todo", "manual", "blocked"}
Original == << >>
Put(f, x, y) == [z \in DOMAIN f \cup {x} |-> IF z = x THEN y ELSE f[z]]
Drop(f, x) == [z \in DOMAIN f \ {x} |-> f[z]]
Get(f, x) == IF x \in DOMAIN f THEN f[x] ELSE None

\* CanonicalReviewDigest leaves the verdict out.
Digest(card) == [card EXCEPT !.verdict = FALSE]
Stamp(card, status) == [card EXCEPT !.status = status]
\* retargetOutbound: a link to a neighbour becomes one through the parent
\* directory, which is never rewritten again.
Retarget(card) == [card EXCEPT !.links = "far"]
IsCard(x) == x \notin {None, Torn}

NewEntry(card) == [gen |-> card.gen, digest |-> Digest(card), subject |-> card]
NewClose(g, id, result, to) ==
  [gen |-> g, digest |-> entry[g].digest, req |-> id, result |-> result, to |-> to]

EntryName(g) == <<"entry", g>>
CloseName(g) == <<"close", g>>
Published(name) == IF name[1] = "entry" THEN Get(entry, name[2]) ELSE Get(close, name[2])

q == call.request
Now(zone) == files[zone]

-----------------------------------------------------------------------------
(* Evidence: a partial file per request, renamed to the final name.        *)

\* refuseForeignPartials
Foreign(name, key) == \E x \in DOMAIN partial : x[1] = name /\ x[2] # key

\* stageRequestPartial
Stageable(name, key, content) ==
  IF Published(name) # None THEN Published(name) = content ELSE ~Foreign(name, key)
\* Mutant of Staged: only records are staged, never the card before its move.
StagedRecordsOnly(name, key, content) ==
  partial' = IF Published(name) # None \/ "gen" \notin DOMAIN content \/ "body" \in DOMAIN content
             THEN partial ELSE Put(partial, <<name, key>>, content)

Staged(name, key, content) ==
  partial' = IF Published(name) # None THEN partial ELSE Put(partial, <<name, key>>, content)

\* finalizeRequestPartial
Finalizable(name, key, content) ==
  IF Published(name) # None THEN Published(name) = content ELSE Get(partial, <<name, key>>) = content
Finalized(name, key, content) ==
  /\ partial' = Drop(partial, <<name, key>>)
  /\ entry' = IF name[1] = "entry" THEN Put(entry, name[2], content) ELSE entry
  /\ close' = IF name[1] = "close" THEN Put(close, name[2], content) ELSE close

-----------------------------------------------------------------------------
(* What a call brings and how it ends.                                     *)

Evidence == UNCHANGED <<entry, close>>
Human == UNCHANGED <<receipt, seen>>
At(at) == call.at = at
Goes(at) == call' = [call EXCEPT !.at = at, !.wrote = None]
\* A step that wrote a file: a kill in the middle of it leaves that file torn.
Wrote(file, at) == call' = [call EXCEPT !.at = at, !.wrote = file]

AtRest == [request |-> None, at |-> "idle", original |-> None, record |-> None,
           resumed |-> FALSE, links |-> FALSE, wrote |-> None]
Answers == call' = AtRest /\ unanswered' = unanswered \ {q}
Succeeds(answer) == Answers /\ told' = told \cup {answer}

Enter(from) == [kind |-> "enter", from |-> from, to |-> "manual", id |-> None]
Exit(to, id) == [kind |-> "exit", from |-> "manual", to |-> to, id |-> id]
\* The digests are those of the entry and the card when the human asked.
Reissue(g, id) ==
  [kind |-> "reissue", from |-> "manual", to |-> "manual", id |-> id, gen |-> g,
   prev |-> entry[g].digest, cur |-> Digest(files["manual"])]

Begin(request) ==
  /\ At("idle")
  /\ IF request \in unanswered THEN UNCHANGED seen
     ELSE seen.calls < MaxCalls /\ seen' = [seen EXCEPT !.calls = @ + 1]
  /\ call' = [AtRest EXCEPT !.request = request, !.at = "begin"]
  /\ UNCHANGED <<files, inbound, entry, close, partial, receipt, unanswered, told>>

\* A caller names a card that is there, or repeats what was not answered.
Call ==
  \/ \E from \in {"todo", "blocked"} : Now(from) # None /\ Begin(Enter(from))
  \/ \E to \in {"todo", "blocked"}, id \in Request : Begin(Exit(to, id))
  \/ \E g \in DOMAIN entry, id \in Request : IsCard(files["manual"]) /\ Begin(Reissue(g, id))
  \/ \E request \in unanswered : Begin(request)

-----------------------------------------------------------------------------
(* EnterManual                                                             *)

Key == "entry"    \* the key of an entry's partial is made of the card and its generation

\* PlanEntry, then the baseline of the resumption is staged.
BeginEntry ==
  /\ At("begin") /\ q.kind = "enter"
  /\ LET card == Now(q.from)
     IN IF card = None THEN Goes("resume entry") /\ UNCHANGED <<partial, unanswered>>
        ELSE IF IsCard(card) /\ Now("manual") = None /\ Stageable(EntryName(card.gen), Key, card)
             THEN /\ Staged(EntryName(card.gen), Key, card)
                  /\ call' = [call EXCEPT !.at = "move", !.original = card,
                                          !.wrote = <<"partial", EntryName(card.gen), Key>>]
                  /\ UNCHANGED unanswered
             ELSE Answers /\ UNCHANGED partial
  /\ UNCHANGED <<files, inbound, told>> /\ Evidence /\ Human

Settled(card) == Retarget(Stamp(card, "manual"))

\* The record of what is on the disk replaces the baseline in the partial file.
RecordEntry ==
  /\ At("record")
  /\ LET card == Now("manual")
         record == NewEntry(card)
     IN IF /\ call.resumed => card = Settled(call.original)
           /\ Stageable(EntryName(card.gen), Key, record)
        THEN /\ Staged(EntryName(card.gen), Key, record)
             /\ call' = [call EXCEPT !.at = "publish", !.record = record,
                                     !.wrote = <<"partial", EntryName(card.gen), Key>>]
        ELSE Goes(IF call.resumed THEN "undo only" ELSE "undo") /\ UNCHANGED partial
  /\ UNCHANGED <<files, inbound, unanswered, told>> /\ Evidence /\ Human

PublishEntry ==
  /\ At("publish") /\ q.kind = "enter"
  /\ LET name == EntryName(call.record.gen)
     IN IF Finalizable(name, Key, call.record)
        THEN /\ Finalized(name, Key, call.record)
             /\ Succeeds([kind |-> "enter", gen |-> call.record.gen, evidence |-> call.record, card |-> Now("manual")])
        ELSE Goes(IF call.resumed THEN "undo only" ELSE "undo") /\ Evidence /\ UNCHANGED <<partial, unanswered, told>>
  /\ UNCHANGED <<files, inbound>> /\ Human

\* The destination is the baseline with its stamp, or with its links too.
OnlySettled(card, baseline) == card \in {Stamp(baseline, "manual"), Settled(baseline)}

IsRecord(x) == x \notin {None, Torn} /\ "subject" \in DOMAIN x

\* resumeManualEntry: the source is gone, so an earlier call moved it.
ResumeEntry ==
  /\ At("resume entry")
  /\ LET card == Now("manual")
         name == EntryName(card.gen)
         found == Get(partial, <<name, Key>>)
         back == /\ files' = [files EXCEPT ![q.from] = card, !["manual"] = None]
                 /\ partial' = Drop(partial, <<name, Key>>)
                 /\ Answers /\ UNCHANGED told /\ Evidence
     IN IF ~IsCard(card) THEN Answers /\ UNCHANGED <<files, partial, told>> /\ Evidence
        ELSE IF Published(name) # None
             THEN /\ IF Published(name).digest = Digest(card)
                     THEN Succeeds([kind |-> "enter", gen |-> card.gen, evidence |-> Published(name), card |-> card])
                     ELSE Answers /\ UNCHANGED told
                  /\ UNCHANGED <<files, partial>> /\ Evidence
        ELSE IF IsRecord(found)
             THEN IF card.status # "manual" THEN back
                  ELSE IF found.digest = Digest(card)
                  THEN /\ Finalized(name, Key, found) /\ UNCHANGED files
                       /\ Succeeds([kind |-> "enter", gen |-> card.gen, evidence |-> found, card |-> card])
                  ELSE Answers /\ UNCHANGED <<files, partial, told>> /\ Evidence
        ELSE IF IsCard(found)
             THEN IF card = found THEN back
                  ELSE IF OnlySettled(card, found)
                  THEN /\ call' = [call EXCEPT !.at = "stamp", !.resumed = TRUE, !.original = found]
                       /\ UNCHANGED <<files, partial, told, unanswered>> /\ Evidence
                  ELSE Answers /\ UNCHANGED <<files, partial, told>> /\ Evidence
        ELSE IF card.status # "manual" THEN back
        ELSE Answers /\ UNCHANGED <<files, partial, told>> /\ Evidence
  /\ UNCHANGED inbound /\ Human

-----------------------------------------------------------------------------
(* ExitManual                                                              *)

Results == [done |-> "todo", rejected |-> "blocked"]

\* loadManualExit and PlanExit
PlanExit(card, g) ==
  /\ g \in DOMAIN entry /\ g \in DOMAIN receipt
  /\ Digest(card) = entry[g].digest
  /\ receipt[g].digest = Digest(card)
  /\ Results[receipt[g].result] = q.to
Closing(g) == NewClose(g, q.id, receipt[g].result, q.to)
Loads(card, g) ==
  /\ PlanExit(card, g)
  /\ Published(CloseName(g)) \in {None, Closing(g)}
  /\ Stageable(CloseName(g), q.id, Closing(g))

StageClose(g, card, resumed) ==
  /\ Staged(CloseName(g), q.id, Closing(g))
  /\ call' = [call EXCEPT !.at = IF resumed THEN "stamp" ELSE "move", !.original = card,
                          !.record = Closing(g), !.resumed = resumed,
                          !.wrote = IF Published(CloseName(g)) = None THEN <<"partial", CloseName(g), q.id>> ELSE None]
  /\ UNCHANGED unanswered

BeginExit ==
  /\ At("begin") /\ q.kind = "exit"
  /\ LET card == Now("manual")
     IN IF card = None THEN Goes("resume exit") /\ UNCHANGED <<partial, unanswered>>
        ELSE IF IsCard(card) /\ Loads(card, card.gen) /\ Now(q.to) = None
             THEN StageClose(card.gen, card, FALSE)
             ELSE Answers /\ UNCHANGED partial
  /\ UNCHANGED <<files, inbound, told>> /\ Evidence /\ Human

\* exitSubjectProjections: the subject moved, stamped, and with its links.
Projections(subject) ==
  {Digest(subject), Digest(Stamp(subject, q.to)), Digest(Retarget(Stamp(subject, q.to)))}

\* resumeManualExit: the card is at its destination already.
ResumeExit ==
  /\ At("resume exit")
  /\ LET card == Now(q.to)
     IN IF /\ IsCard(card)
           /\ card.gen \in DOMAIN entry
           /\ Digest(card) \in Projections(entry[card.gen].subject)
           /\ Loads(entry[card.gen].subject, card.gen)
        THEN StageClose(card.gen, card, TRUE)
        ELSE Answers /\ UNCHANGED partial
  /\ UNCHANGED <<files, inbound, told>> /\ Evidence /\ Human

PublishClose ==
  /\ At("publish") /\ q.kind = "exit"
  /\ LET name == CloseName(call.record.gen)
     IN IF Finalizable(name, q.id, call.record)
        THEN /\ Finalized(name, q.id, call.record)
             /\ Succeeds([kind |-> "exit", gen |-> call.record.gen, evidence |-> call.record, card |-> Now(q.to)])
        ELSE Goes(IF call.resumed THEN "refuse" ELSE "undo") /\ Evidence /\ UNCHANGED <<partial, unanswered, told>>
  /\ UNCHANGED <<files, inbound>> /\ Human

-----------------------------------------------------------------------------
(* The card moves, is stamped and its links follow; what fails is undone.  *)

MoveCard ==
  /\ At("move")
  /\ files' = [files EXCEPT ![q.from] = None, ![q.to] = Now(q.from)]
  /\ Goes("stamp")
  /\ UNCHANGED <<inbound, partial, unanswered, told>> /\ Evidence /\ Human

StampCard ==
  /\ At("stamp")
  /\ files' = [files EXCEPT ![q.to] = Stamp(@, q.to)]
  /\ Wrote(IF files' = files THEN None ELSE <<"card", q.to>>, "outbound")
  /\ UNCHANGED <<inbound, partial, unanswered, told>> /\ Evidence /\ Human

\* commitManualLinks: first the card's own links, then those of others.
RetargetOutbound ==
  /\ At("outbound")
  /\ files' = [files EXCEPT ![q.to] = Retarget(@)]
  /\ Wrote(IF files' = files THEN None ELSE <<"card", q.to>>, "inbound")
  /\ UNCHANGED <<inbound, partial, unanswered, told>> /\ Evidence /\ Human

RetargetInbound ==
  /\ At("inbound")
  /\ inbound' = IF inbound = q.from THEN q.to ELSE inbound
  /\ call' = [call EXCEPT !.at = IF q.kind = "enter" THEN "record" ELSE "publish",
                          !.links = inbound = q.from, !.wrote = None]
  /\ UNCHANGED <<files, partial, unanswered, told>> /\ Evidence /\ Human

\* A rename or a needed write fails, and the call undoes what it did or leaves
\* that to a repetition.  Reads do not fail.
Needed == CASE At("stamp") -> Now(q.to) # Stamp(Now(q.to), q.to)
            [] At("outbound") -> Now(q.to) # Retarget(Now(q.to))
            [] At("inbound") -> inbound = q.from
            [] OTHER -> TRUE
\* A first call undoes all it did, and a repetition the links.
FirstGoes ==
  CASE At("move") -> "refuse"
    [] At("stamp") /\ q.kind = "exit" -> "unstage"
    [] call.at \in {"inbound", "record", "publish"} -> "undo"
    [] OTHER -> "back"
AgainGoes ==
  CASE q.kind = "enter" /\ call.at \in {"inbound", "record", "publish"} -> "undo only"
    [] q.kind = "exit" /\ At("inbound") -> "undo only"
    [] q.kind = "exit" /\ At("stamp") -> "unstage"
    [] OTHER -> "refuse"
StepFails ==
  /\ seen.stops < MaxStops
  /\ call.at \in {"move", "stamp", "outbound", "inbound", "record", "publish"} /\ Needed
  /\ seen' = [seen EXCEPT !.stops = @ + 1]
  /\ Goes(IF call.resumed THEN AgainGoes ELSE FirstGoes)
  /\ UNCHANGED <<files, inbound, entry, close, partial, receipt, unanswered, told>>

\* The record is staged already: a repetition publishes it and does not look
\* at the links again (resumeStagedEntry).
Unlinks == q.kind = "enter" /\ call.links /\ call.record # None

UndoLinks ==
  /\ call.at \in {"undo", "undo only"}
  /\ inbound' = IF call.links THEN q.from ELSE inbound
  /\ Goes(IF At("undo") THEN "back" ELSE "refuse")
  /\ seen' = [seen EXCEPT !.undone = @ \/ (At("undo only") /\ Unlinks)]
  /\ UNCHANGED <<files, partial, receipt, unanswered, told>> /\ Evidence

Unstage ==
  /\ At("unstage")
  /\ partial' = Drop(partial, <<CloseName(call.record.gen), q.id>>)
  /\ Goes("back")
  /\ UNCHANGED <<files, inbound, unanswered, told>> /\ Evidence /\ Human

\* rollbackMoved and moveCardBack
MoveBack ==
  /\ At("back")
  /\ files' = [files EXCEPT ![q.to] = None, ![q.from] = Now(q.to)]
  /\ Goes(IF call.resumed THEN "refuse" ELSE "restore")
  /\ UNCHANGED <<inbound, partial, unanswered, told>> /\ Evidence /\ Human

RestoreBytes ==
  /\ At("restore")
  /\ files' = [files EXCEPT ![q.from] = call.original]
  /\ Wrote(<<"card", q.from>>, "refuse")
  /\ UNCHANGED <<inbound, partial, unanswered, told>> /\ Evidence /\ Human

\* A repetition that failed is repeated again.
Refuse ==
  /\ At("refuse")
  /\ call' = AtRest
  /\ unanswered' = IF call.resumed THEN unanswered \cup {q} ELSE unanswered \ {q}
  /\ UNCHANGED <<files, inbound, entry, close, partial, receipt, told, seen>>

-----------------------------------------------------------------------------
(* ReissueManual                                                           *)

\* deriveReissueGeneration: the same request always means the same generation.
Derived == <<q.id, q.gen, q.prev, q.cur>>
Rebind(card, g) == [card EXCEPT !.gen = g]

\* PlanReissue: the card is the one the human saw, or that one rewritten.
PlanReissue(card) ==
  /\ q.gen \in DOMAIN entry /\ entry[q.gen].digest = q.prev
  /\ \/ card.gen = q.gen /\ Digest(card) = q.cur
     \/ card.gen = Derived /\ Digest(Rebind(card, q.gen)) = q.cur
  /\ Published(CloseName(q.gen)) \in {None, NewClose(q.gen, q.id, "reissued", "manual")}

BeginReissue ==
  /\ At("begin") /\ q.kind = "reissue"
  /\ LET card == Now("manual")
         record == NewEntry(Rebind(card, Derived))
         name == EntryName(Derived)
     IN IF IsCard(card) /\ PlanReissue(card) /\ Stageable(name, Key, record)
        THEN /\ Staged(name, Key, record)
             /\ call' = [call EXCEPT !.at = "stage close", !.original = card, !.record = record,
                           !.wrote = IF Published(name) = None THEN <<"partial", name, Key>> ELSE None]
             /\ UNCHANGED unanswered
        ELSE Answers /\ UNCHANGED partial
  /\ UNCHANGED <<files, inbound, told>> /\ Evidence /\ Human

Retired == NewClose(q.gen, q.id, "reissued", "manual")

StageRetired ==
  /\ At("stage close")
  /\ LET name == CloseName(q.gen)
     IN IF Stageable(name, q.id, Retired)
        THEN /\ Staged(name, q.id, Retired)
             /\ Wrote(IF Published(name) = None THEN <<"partial", name, q.id>> ELSE None, "rewrite")
        ELSE Goes("refuse") /\ UNCHANGED partial
  /\ UNCHANGED <<files, inbound, unanswered, told>> /\ Evidence /\ Human

RewriteCard ==
  /\ At("rewrite")
  /\ files' = [files EXCEPT !["manual"] = Rebind(@, Derived)]
  /\ Wrote(IF files' = files THEN None ELSE <<"card", "manual">>, "publish reissue")
  /\ UNCHANGED <<inbound, partial, unanswered, told>> /\ Evidence /\ Human

PublishReissue ==
  /\ At("publish reissue")
  /\ Finalized(EntryName(Derived), Key, call.record)
  /\ Goes("publish retired")
  /\ UNCHANGED <<files, inbound, unanswered, told>> /\ Human

PublishRetired ==
  /\ At("publish retired")
  /\ Finalized(CloseName(q.gen), q.id, Retired)
  /\ Succeeds([kind |-> "reissue", gen |-> q.gen, evidence |-> Retired, card |-> Now("manual")])
  /\ UNCHANGED <<files, inbound>> /\ Human

-----------------------------------------------------------------------------
(* Kills, and the human between the calls.                                 *)

Kill(torn) ==
  /\ ~At("idle") /\ seen.stops < MaxStops
  /\ torn => call.wrote # None
  /\ files' = IF torn /\ call.wrote[1] = "card" THEN [files EXCEPT ![call.wrote[2]] = Torn] ELSE files
  /\ partial' = IF torn /\ call.wrote[1] = "partial"
                THEN Put(partial, <<call.wrote[2], call.wrote[3]>>, Torn) ELSE partial
  /\ call' = AtRest
  /\ unanswered' = unanswered \cup {q}
  /\ seen' = [seen EXCEPT !.stops = @ + 1, !.torn = @ \/ torn,
                          !.undone = @ \/ At("restore") \/ (At("back") /\ Unlinks)]
  /\ UNCHANGED <<inbound, entry, close, receipt, told>>

WriteReceipt(g, result) ==
  /\ At("idle")
  /\ receipt' = Put(receipt, g, [digest |-> entry[g].digest, result |-> result])
  /\ seen' = [seen EXCEPT !.touched = @ \/ (g \in DOMAIN receipt /\ unanswered # {})]
  /\ UNCHANGED <<files, inbound, entry, close, partial, call, unanswered, told>>

\* The body or the verdict of a review; an edit of the body in the manual zone,
\* or while a call is unanswered, disturbs what the entry says.
Edited(card, body) ==
  IF body THEN [card EXCEPT !.body = @ + 1] ELSE [card EXCEPT !.verdict = ~@]
Edit(zone, body) ==
  /\ At("idle") /\ IsCard(Now(zone)) /\ seen.edits < MaxEdits
  /\ files' = [files EXCEPT ![zone] = Edited(@, body)]
  /\ seen' = [seen EXCEPT !.edits = @ + 1,
                          !.body = IF body THEN @ + 1 ELSE @,
                          !.touched = @ \/ unanswered # {} \/ (body /\ zone = "manual")]
  /\ UNCHANGED <<inbound, entry, close, partial, receipt, call, unanswered, told>>

Work ==
  \/ BeginEntry \/ RecordEntry \/ PublishEntry \/ ResumeEntry
  \/ BeginExit \/ ResumeExit \/ PublishClose
  \/ MoveCard \/ StampCard \/ RetargetOutbound \/ RetargetInbound
  \/ UndoLinks \/ Unstage \/ MoveBack \/ RestoreBytes \/ Refuse
  \/ BeginReissue \/ StageRetired \/ RewriteCard \/ PublishReissue \/ PublishRetired

Init ==
  /\ files = [z \in Zone |-> IF z # "todo" THEN None
                ELSE [body |-> 0, status |-> "todo", links |-> "near", gen |-> Original, verdict |-> FALSE]]
  /\ inbound = "todo"
  /\ entry = << >> /\ close = << >> /\ partial = << >> /\ receipt = << >>
  /\ call = AtRest
  /\ unanswered = {} /\ told = {}
  /\ seen = [calls |-> 0, stops |-> 0, edits |-> 0, body |-> 0, torn |-> FALSE, undone |-> FALSE,
             touched |-> FALSE]

Next ==
  \/ Call \/ Work \/ StepFails
  \/ \E torn \in BOOLEAN : Kill(torn)
  \/ \E g \in DOMAIN entry, result \in DOMAIN Results : WriteReceipt(g, result)
  \/ \E zone \in Zone, body \in BOOLEAN : Edit(zone, body)

Spec == Init /\ [][Next]_vars

-----------------------------------------------------------------------------
(* Properties.                                                             *)

TypeOK ==
  /\ Cardinality({z \in Zone : Now(z) # None}) = 1
  /\ \A g \in DOMAIN entry : entry[g].gen = g /\ entry[g].subject.gen = g
  /\ \A g \in DOMAIN close : close[g].gen = g /\ close[g].digest = entry[g].digest
  /\ \A w \in told : w.evidence = IF w.kind = "enter" THEN Get(entry, w.gen) ELSE Get(close, w.gen)
  /\ At("idle") => call = AtRest

\* A card left the manual zone as its entry describes it, whatever was killed
\* and edited on the way: but for a verdict, only stamped and with its links.
LeavesAsEntered ==
  \A w \in told : w.kind = "exit" =>
    Digest(w.card) = Digest(Retarget(Stamp(entry[w.gen].subject, w.evidence.to)))

\* When every call has answered, an undisturbed card is either in the manual
\* zone, with its links and an entry that is open and describes it, or in
\* another one as if it had never moved or after its generation was closed.
\* Disturbed is also what is only half undone: a repetition of an entry that
\* undoes the links of others alone, a kill between them and the card, or one
\* between the card's move back and its bytes.
Settles ==
  At("idle") /\ unanswered = {} /\ ~seen.touched /\ ~seen.torn /\ ~seen.undone =>
    \A z \in Zone : Now(z) # None =>
      /\ Now(z).status = z /\ inbound = z
      /\ IF z = "manual"
         THEN /\ Now(z).gen \in DOMAIN entry \ DOMAIN close
              /\ entry[Now(z).gen].digest = Digest(Now(z))
         ELSE Now(z).gen \in DOMAIN entry => Now(z).gen \in DOMAIN close

\* No kill loses the text: when the card's file is torn, a partial or a
\* published entry still holds it.
Bodies ==
  {Now(z).body : z \in {x \in Zone : IsCard(Now(x))}}
    \cup {entry[g].subject.body : g \in DOMAIN entry}
    \cup {partial[x].subject.body : x \in {y \in DOMAIN partial : IsRecord(partial[y])}}
    \cup {partial[x].body : x \in {y \in DOMAIN partial : IsCard(partial[y]) /\ "body" \in DOMAIN partial[y]}}
TextSurvives == seen.body \in Bodies

\* Types and the three of them: what the human entered comes out, calls leave
\* the card settled, and its text is somewhere at every moment.
ManualKept == TypeOK /\ LeavesAsEntered /\ Settles /\ TextSurvives

=============================================================================
