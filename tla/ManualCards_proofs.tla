----------------------- MODULE ManualCards_proofs -----------------------
(***************************************************************************)
(* Proofs about the manual zone: what a human entered comes out again,     *)
(* calls that are done leave the card settled, and its text is somewhere   *)
(* at every moment, for any numbers of calls, kills, failures and edits.   *)
(*                                                                         *)
(* Nothing is locked, so the invariant (ManualInv) says what the files     *)
(* alone must show.  There is one card, whole or torn, and where it is     *)
(* torn its text is in the evidence (Data, Copied).  A call at any of its  *)
(* steps finds the card in one of the forms its record allows (StepFits).  *)
(* And if nobody edited the card, no kill tore a file or came while links  *)
(* were taken back, the card is settled or some request that was not       *)
(* answered leads on from it (StepCalm, Well).                             *)
(***************************************************************************)
EXTENDS LooseProtocols, Sequences, FiniteSetTheorems, TLAPS

-----------------------------------------------------------------------------
(* Cards, records, requests: what every state has.                         *)

\* Bounds are numbers; None and Torn are no cards, records or names.
ManualParameters ==
  /\ None # Torn /\ ManualCalls \in Nat /\ ManualStops \in Nat /\ MaxEdits \in Nat
  /\ \A b, s, l, g, v :
       [body |-> b, status |-> s, links |-> l, gen |-> g, verdict |-> v] \notin {None, Torn}
  /\ \A g, d, s : [gen |-> g, digest |-> d, subject |-> s] \notin {None, Torn}
  /\ \A g, d, i, r, t :
       [gen |-> g, digest |-> d, req |-> i, result |-> r, to |-> t] # None
  /\ \A x, y : <<x, y>> # None
  /\ \A x, y, z : <<x, y, z>> # None

\* A whole card, with each of its parts.
WholeCard(c) ==
  /\ "body" \in DOMAIN c
  /\ c = [body |-> c.body, status |-> c.status, links |-> c.links, gen |-> c.gen,
       verdict |-> c.verdict]

\* The card's only file is in zone w.
Lies(w) ==
  /\ w \in Manual!Zone
  /\ m_files = [z \in Manual!Zone |-> IF z = w THEN m_files[w] ELSE None]
  /\ m_files[w] # None
  /\ m_files[w] = Torn \/ WholeCard(m_files[w])

CardAt(w) == Lies(w) /\ m_files[w] # Torn /\ WholeCard(m_files[w])

Spot(g) == <<Manual!EntryName(g), Manual!Key>>

IsEntry(g, x) ==
  /\ "subject" \in DOMAIN x
  /\ x = [gen |-> g, digest |-> Manual!Digest(x.subject), subject |-> x.subject]
  /\ WholeCard(x.subject) /\ x.subject.gen = g

IsClose(g, x) ==
  x = [gen |-> g, digest |-> m_entry[g].digest, req |-> x.req, result |-> x.result, to |-> x.to]

\* The evidence.
Recorded ==
  /\ m_entry = [g \in DOMAIN m_entry |-> m_entry[g]]
  /\ m_close = [g \in DOMAIN m_close |-> m_close[g]]
  /\ \A g \in DOMAIN m_entry : IsEntry(g, m_entry[g])
  /\ \A g \in DOMAIN m_close : g \in DOMAIN m_entry /\ IsClose(g, m_close[g])
  /\ m_partial = [x \in DOMAIN m_partial |-> m_partial[x]]
  /\ \A x \in DOMAIN m_partial : x = <<x[1], x[2]>> /\ x[1] = <<x[1][1], x[1][2]>>
  /\ \A x \in DOMAIN m_partial : x[1][1] = "entry" =>
       /\ x[2] = Manual!Key
       /\ \/ m_partial[x] = Torn
          \/ WholeCard(m_partial[x]) /\ m_partial[x].gen = x[1][2]
          \/ IsEntry(x[1][2], m_partial[x])

\* A generation is known only after the one it was derived from, and the
\* card's own has not been followed by another.
Descends ==
  /\ \A g \in DOMAIN m_entry : g # << >> => g[2] \in DOMAIN m_entry
  /\ \A w \in Manual!Zone : CardAt(w) =>
       /\ m_files[w].gen # << >> => m_files[w].gen[2] \in DOMAIN m_entry
       /\ \A g \in DOMAIN m_entry : g # << >> => g[2] # m_files[w].gen

Told ==
  \A t \in m_told :
    IF t.kind = "enter" THEN t.gen \in DOMAIN m_entry /\ t.evidence = m_entry[t.gen]
    ELSE /\ t.gen \in DOMAIN m_close /\ t.evidence = m_close[t.gen]
         /\ t.kind = "exit" =>
              Manual!Digest(t.card) = Manual!Digest(
                Manual!Retarget(Manual!Stamp(m_entry[t.gen].subject, t.evidence.to)))

\* The texts that evidence holds.
Copies ==
  {m_entry[g].subject.body : g \in DOMAIN m_entry}
    \cup {m_partial[x].subject.body :
      x \in {y \in DOMAIN m_partial : Manual!IsRecord(m_partial[y])}}
    \cup {m_partial[x].body : x \in {y \in DOMAIN m_partial :
            Manual!IsCard(m_partial[y]) /\ "body" \in DOMAIN m_partial[y]}}

WroteCard == m_call.wrote # None /\ m_call.wrote[1] = "card"

Copied ==
  /\ \A w \in Manual!Zone : CardAt(w) => m_files[w].body = m_seen.body
  /\ \A w \in Manual!Zone : Lies(w) /\ m_files[w] = Torn => m_seen.body \in Copies
  /\ WroteCard => m_seen.body \in Copies

\* The requests that are being run or were killed.
Asked == m_unanswered \cup (IF m_call.at = "idle" THEN {} ELSE {m_call.request})

IsEnter(e) ==
  e.kind = "enter" /\ e.from \in {"todo", "blocked"}
    /\ e = [kind |-> "enter", from |-> e.from, to |-> "manual", id |-> None]
IsExit(e) ==
  e.kind = "exit" /\ e.to \in {"todo", "blocked"}
    /\ e = [kind |-> "exit", from |-> "manual", to |-> e.to, id |-> e.id]
IsReissue(e) ==
  e.kind = "reissue"
    /\ e = [kind |-> "reissue", from |-> "manual", to |-> "manual", id |-> e.id, gen |-> e.gen,
       prev |-> e.prev, cur |-> e.cur]

Fresh == DOMAIN m_entry = {}

Requests ==
  \A e \in Asked :
    /\ IsEnter(e) \/ IsExit(e) \/ IsReissue(e)
    /\ Fresh => ~IsReissue(e) /\ (IsEnter(e) => e.from = "todo")

\* Before the first entry.
FirstEntry == Fresh => Lies("todo") \/ Lies("manual")

-----------------------------------------------------------------------------
(* The card between the calls, if nothing disturbed it.                    *)

Undisturbed == ~m_seen.touched /\ ~m_seen.torn /\ ~m_seen.undone

Proper(w) ==
  LET c == m_files[w] IN
  /\ CardAt(w) /\ c.status = w /\ m_inbound = w
  /\ IF w = "manual"
     THEN /\ c.gen \in DOMAIN m_entry /\ c.gen \notin DOMAIN m_close
          /\ m_entry[c.gen].digest = Manual!Digest(c)
     ELSE \/ c.gen \in DOMAIN m_close
          \/ c.gen \notin DOMAIN m_entry /\ Fresh /\ w = "todo"

\* In the manual zone without an entry: its baseline or its record is staged.
Baseline ==
  LET c == m_files["manual"] b == m_partial[Spot(c.gen)] IN
  /\ CardAt("manual") /\ Fresh
  /\ Spot(c.gen) \in DOMAIN m_partial /\ b # Torn /\ WholeCard(b) /\ b.gen = c.gen
     /\ b.status = "todo"
  /\ c \in {b, Manual!Stamp(b, "manual"), Manual!Settled(b)}
  /\ m_inbound \in {"todo", "manual"} /\ (c = b => m_inbound = "todo")

Ready ==
  LET c == m_files["manual"] IN
  /\ CardAt("manual") /\ Fresh /\ c.status = "manual" /\ m_inbound = "manual"
  /\ Spot(c.gen) \in DOMAIN m_partial /\ m_partial[Spot(c.gen)] = Manual!NewEntry(c)

EnterTodo == [kind |-> "enter", from |-> "todo", to |-> "manual", id |-> None]
Entering(asked) == EnterTodo \in asked /\ (Ready \/ Baseline)

Unowned(g, id) == ~Manual!Foreign(Manual!CloseName(g), id)

\* Out of the manual zone, and its generation is open.
Leaving(w) ==
  LET c == m_files[w] g == c.gen s == m_entry[g].subject IN
  /\ CardAt(w) /\ w \in {"todo", "blocked"}
  /\ g \in DOMAIN m_entry /\ g \notin DOMAIN m_close
  /\ s.status = "manual"
  /\ g \in DOMAIN m_receipt /\ m_receipt[g].digest = m_entry[g].digest
  /\ Manual!Results[m_receipt[g].result] = w
  /\ Manual!Digest(c) \in {Manual!Digest(s), Manual!Digest(Manual!Stamp(s, w)),
                           Manual!Digest(Manual!Retarget(Manual!Stamp(s, w)))}
  /\ m_inbound \in {"manual", w} /\ (c.status = "manual" => m_inbound = "manual")
Exiting(asked) ==
  \E w \in Manual!Zone : /\ Leaving(w)
     /\ \E e \in asked : IsExit(e) /\ e.to = w /\ Unowned(m_files[w].gen, e.id)

\* Rewritten, and the record of its new generation is staged.
Derivation(g) == [kind |-> "reissue", from |-> "manual", to |-> "manual", id |-> g[1],
                  gen |-> g[2], prev |-> g[3], cur |-> g[4]]
Rewritten ==
  LET c == m_files["manual"] g == c.gen IN
  /\ CardAt("manual") /\ c.status = "manual" /\ m_inbound = "manual"
  /\ g # << >> /\ g = <<g[1], g[2], g[3], g[4]>>
  /\ g \notin DOMAIN m_entry /\ g[2] \in DOMAIN m_entry
  /\ m_entry[g[2]].digest = g[3]
  /\ Manual!Digest(Manual!Rebind(c, g[2])) = g[4]
  /\ g[2] \in DOMAIN m_close =>
       m_close[g[2]] = Manual!NewClose(g[2], g[1], "reissued", "manual")
  /\ Unowned(g[2], g[1])
  /\ Spot(g) \in DOMAIN m_partial /\ m_partial[Spot(g)] = Manual!NewEntry(c)
Reissuing(asked) == Rewritten /\ Derivation(m_files["manual"].gen) \in asked

Well(asked) ==
  (\E w \in Manual!Zone : Proper(w)) \/ Entering(asked) \/ Exiting(asked) \/ Reissuing(asked)

-----------------------------------------------------------------------------
(* The call at each of its steps.                                          *)

Enters == IsEnter(m_call.request)
Exits == IsExit(m_call.request)
Reissues == IsReissue(m_call.request)

Out == m_call.request.from
Into == m_call.request.to
Was == m_call.original
Note == m_call.record

CallTyped ==
  /\ DOMAIN m_call = {"request", "at", "original", "record", "resumed", "links", "wrote"}
  /\ m_call.resumed \in BOOLEAN /\ m_call.links \in BOOLEAN
  /\ m_call.at = "idle" => m_call = Manual!AtRest

\* What was written last, should a kill tear it.
WroteFits ==
  m_call.wrote # None => \E w \in Manual!Zone :
    /\ CardAt(w)
    /\ \/ m_call.wrote = <<"card", w>>
       \/ LET name == m_call.wrote[2] key == m_call.wrote[3] IN
          /\ m_call.wrote = <<"partial", name, key>> /\ name = <<name[1], name[2]>>
          /\ name[1] = "entry" => key = Manual!Key

EntryForms == {Was, Manual!Stamp(Was, "manual"), Manual!Settled(Was)}

EnterSteps == {"move", "stamp", "outbound", "inbound", "record", "publish", "undo",
               "undo only", "back", "restore"}

Staging(w) ==
  LET x == Spot(m_files[w].gen) IN
  /\ x \in DOMAIN m_partial
  /\ IF m_call.record = None THEN m_partial[x] = Was ELSE m_partial[x] = Note

\* An entry: the card goes from the original to what it will be, and the
\* partial file holds the original, then the record.
EnterFits ==
  LET at == m_call.at w == IF at \in {"move", "restore"} THEN Out ELSE "manual"
      c == m_files[w]
  IN
  /\ CardAt(w) /\ WholeCard(Was) /\ Was.gen = c.gen /\ Was.body = c.body
  /\ c.gen \notin DOMAIN m_entry
  /\ Staging(w)
  /\ Note # None => /\ at \in {"publish", "undo", "undo only", "back", "restore"}
                       /\ IsEntry(c.gen, Note) /\ Note.subject.body = c.body
  /\ at = "publish" => Note # None
  /\ c \in EntryForms
  /\ at = "move" => c = Was
  /\ at = "stamp" /\ ~m_call.resumed => c = Was
  /\ at = "outbound" => c.status = "manual"
  /\ at \in {"inbound", "record", "publish", "undo", "undo only"} => c = Manual!Settled(Was)
  /\ at \in {"move", "undo", "back", "restore"} => ~m_call.resumed
  /\ at = "undo only" => m_call.resumed
  /\ at \in {"move", "stamp", "outbound", "inbound"} => ~m_call.links /\ Note = None

\* The same of an undisturbed card.
EnterCalm ==
  LET at == m_call.at IN
  /\ Fresh /\ Out = "todo" /\ Was.status = "todo"
  /\ CASE at = "move" -> Proper("todo")
       [] at = "restore" -> m_inbound = "todo"
       [] OTHER -> IF Note = None THEN Baseline
                   ELSE /\ at = "publish" => Ready
                        /\ at = "undo" => Ready /\ m_call.links
                        /\ at = "undo only" => Ready
                        /\ at = "back" => m_call.links
  /\ at \in {"stamp", "outbound", "inbound"} /\ ~m_call.resumed => m_inbound = "todo"
  /\ at \in {"record", "publish"} => m_inbound = "manual" /\ (~m_call.resumed => m_call.links)
  /\ at = "undo" => m_inbound = IF m_call.links THEN "manual" ELSE "todo"
  /\ at = "back" => m_inbound = "todo"

ExitSteps == {"move", "stamp", "outbound", "inbound", "publish", "undo", "undo only",
              "unstage", "back", "restore"}

Forms(s, w) == {Manual!Digest(s), Manual!Digest(Manual!Stamp(s, w)),
                Manual!Digest(Manual!Retarget(Manual!Stamp(s, w)))}

ExitFits ==
  LET at == m_call.at w == IF at \in {"move", "restore"} THEN "manual" ELSE Into
      c == m_files[w] g == c.gen s == m_entry[g].subject d == Manual!Digest(c)
  IN
  /\ CardAt(w) /\ g \in DOMAIN m_entry
  /\ d \in Forms(s, Into)
  /\ Note = [gen |-> g, digest |-> m_entry[g].digest, req |-> m_call.request.id,
                result |-> Note.result, to |-> Into]
  /\ at = "move" => d = Manual!Digest(s)
  /\ at = "outbound" => c.status = Into
  /\ at \in {"inbound", "publish"} => d = Manual!Digest(Manual!Retarget(Manual!Stamp(s, Into)))
  /\ ~m_call.resumed => WholeCard(Was) /\ Manual!Digest(Was) = Manual!Digest(s)
                        /\ Was.gen = g
  /\ at \in {"move", "undo", "restore"} => ~m_call.resumed
  /\ at = "undo only" => m_call.resumed
  /\ at \in {"move", "stamp", "outbound", "inbound", "unstage", "undo only"} => ~m_call.links

ExitCalm ==
  LET at == m_call.at w == Into c == m_files[w] g == Note.gen s == m_entry[g].subject IN
  /\ CASE at = "move" ->
            /\ Proper("manual") /\ Unowned(g, m_call.request.id)
            /\ g \in DOMAIN m_receipt /\ m_receipt[g].digest = m_entry[g].digest
            /\ Manual!Results[m_receipt[g].result] = w
       [] at = "restore" -> /\ m_inbound = "manual" /\ g \notin DOMAIN m_close
       [] OTHER -> \/ Leaving(w) /\ Unowned(g, m_call.request.id)
                   \/ Proper(w) /\ m_call.resumed /\ at \notin {"unstage", "back"}
  /\ at \in {"unstage", "back"} /\ m_call.resumed => Manual!Digest(c) = Manual!Digest(s)
  /\ ~m_call.resumed => s.status = "manual" /\ Was.status = "manual"
  /\ at \in {"stamp", "outbound", "inbound"} /\ ~m_call.resumed => m_inbound = "manual"
  /\ at = "publish" => m_inbound = w /\ (~m_call.resumed => m_call.links)
  /\ at = "undo" => m_inbound = IF m_call.links THEN w ELSE "manual"
  /\ at \in {"unstage", "back"} => m_inbound = "manual"

ReissueSteps == {"stage close", "rewrite", "publish reissue", "publish retired"}

NewGen == <<m_call.request.id, m_call.request.gen, m_call.request.prev, m_call.request.cur>>

ReissueFits ==
  LET at == m_call.at c == m_files["manual"] g == m_call.request.gen IN
  /\ CardAt("manual") /\ g \in DOMAIN m_entry /\ ~m_call.resumed
  /\ c.gen \in {g, NewGen}
  /\ m_entry[g].digest = m_call.request.prev
  /\ Manual!Digest(Manual!Rebind(c, g)) = m_call.request.cur
  /\ Note = Manual!NewEntry(Manual!Rebind(c, NewGen))
  /\ IF NewGen \in DOMAIN m_entry THEN m_entry[NewGen] = Note
     ELSE Spot(NewGen) \in DOMAIN m_partial /\ m_partial[Spot(NewGen)] = Note
  /\ at \in {"publish reissue", "publish retired"} => c.gen = NewGen
  /\ at = "publish retired" => NewGen \in DOMAIN m_entry
  /\ g \in DOMAIN m_close
     => m_close[g] = Manual!NewClose(g, m_call.request.id, "reissued", "manual")

ReissueCalm ==
  LET at == m_call.at g == m_call.request.gen IN
  /\ Proper("manual") \/ Rewritten
  /\ at = "publish retired" => Proper("manual")
  /\ at = "rewrite" /\ g \notin DOMAIN m_close => Unowned(g, m_call.request.id)

StepFits ==
  LET at == m_call.at IN
  /\ at \in {"idle", "begin", "resume entry", "resume exit", "refuse"}
       \cup EnterSteps \cup ExitSteps \cup ReissueSteps
  /\ at \in {"begin", "resume entry", "resume exit"}
     => Note = None /\ ~m_call.resumed /\ ~m_call.links
  /\ at = "resume entry" => Enters
  /\ at = "resume exit" => Exits
  /\ at \in EnterSteps \cup ExitSteps => Enters \/ Exits
  /\ at \in ReissueSteps => Reissues
  /\ at \notin {"idle", "begin", "resume entry", "refuse"} /\ Enters
     => at \in EnterSteps /\ EnterFits
  /\ at \notin {"idle", "begin", "resume exit", "refuse"} /\ Exits => at \in ExitSteps /\ ExitFits
  /\ at \notin {"idle", "begin", "refuse"} /\ Reissues => at \in ReissueSteps /\ ReissueFits
  /\ at = "refuse" => \E w \in Manual!Zone : CardAt(w)

StepCalm ==
  LET at == m_call.at IN
  /\ at \in {"idle", "begin", "resume entry", "resume exit"} => Well(Asked)
  /\ at = "refuse" => Well(IF m_call.resumed THEN Asked ELSE m_unanswered \ {m_call.request})
  /\ at \in EnterSteps /\ Enters => EnterCalm
  /\ at \in ExitSteps /\ Exits => ExitCalm
  /\ at \in ReissueSteps /\ Reissues => ReissueCalm

\* The data, whatever a call does with them.
SeenTyped ==
  /\ DOMAIN m_seen = {"calls", "stops", "edits", "body", "torn", "undone", "touched"}
  /\ m_seen.body \in Nat
  /\ m_seen.torn \in BOOLEAN /\ m_seen.undone \in BOOLEAN /\ m_seen.touched \in BOOLEAN

Data ==
  (\E w \in Manual!Zone : Lies(w)) /\ Recorded /\ Descends /\ Told /\ FirstEntry /\ SeenTyped

ManualInv ==
  /\ Data /\ CallTyped /\ Copied /\ Requests /\ WroteFits /\ StepFits
  /\ Undisturbed => StepCalm

-----------------------------------------------------------------------------
(* Lemmas about cards, records and their files.                            *)

\* What the operations on a card do to its parts.
LEMMA StampIs ==
  ASSUME NEW c, NEW s, WholeCard(c)
  PROVE  /\ WholeCard(Manual!Stamp(c, s)) /\ Manual!Stamp(c, s).body = c.body
         /\ Manual!Stamp(c, s).status = s /\ Manual!Stamp(c, s).links = c.links
         /\ Manual!Stamp(c, s).gen = c.gen /\ Manual!Stamp(c, s).verdict = c.verdict
BY DEF WholeCard, Manual!Stamp

\* The links are turned, nothing else.
LEMMA RetargetIs ==
  ASSUME NEW c, WholeCard(c)
  PROVE  /\ WholeCard(Manual!Retarget(c)) /\ Manual!Retarget(c).body = c.body
         /\ Manual!Retarget(c).status = c.status /\ Manual!Retarget(c).links = "far"
         /\ Manual!Retarget(c).gen = c.gen /\ Manual!Retarget(c).verdict = c.verdict
BY DEF WholeCard, Manual!Retarget

\* A verdict is written, nothing else.
LEMMA VerdictIs ==
  ASSUME NEW c, NEW v, WholeCard(c)
  PROVE  LET d == [c EXCEPT !.verdict = v] IN
         /\ WholeCard(d) /\ d.body = c.body /\ d.status = c.status /\ d.links = c.links
         /\ d.gen = c.gen /\ d.verdict = v
BY DEF WholeCard

\* A digest is the card without its verdict.
LEMMA DigestIs ==
  ASSUME NEW c, WholeCard(c)
  PROVE  /\ WholeCard(Manual!Digest(c)) /\ Manual!Digest(c).body = c.body
         /\ Manual!Digest(c).status = c.status /\ Manual!Digest(c).links = c.links
         /\ Manual!Digest(c).gen = c.gen /\ Manual!Digest(c).verdict = FALSE
<1>1. \A v : LET d == [c EXCEPT !.verdict = v] IN
         /\ WholeCard(d) /\ d.body = c.body /\ d.status = c.status /\ d.links = c.links
         /\ d.gen = c.gen /\ d.verdict = v
  BY VerdictIs
<1> QED BY <1>1, Zenon DEF Manual!Digest

\* A card is given another generation, nothing else.
LEMMA RebindIs ==
  ASSUME NEW c, NEW g, WholeCard(c)
  PROVE  /\ WholeCard(Manual!Rebind(c, g)) /\ Manual!Rebind(c, g).body = c.body
         /\ Manual!Rebind(c, g).status = c.status /\ Manual!Rebind(c, g).links = c.links
         /\ Manual!Rebind(c, g).gen = g /\ Manual!Rebind(c, g).verdict = c.verdict
BY DEF WholeCard, Manual!Rebind

\* A card is its parts.
LEMMA SameCard ==
  ASSUME NEW c, NEW d, WholeCard(c), WholeCard(d), c.body = d.body, c.status = d.status,
         c.links = d.links, c.gen = d.gen, c.verdict = d.verdict
  PROVE  c = d
BY DEF WholeCard

\* Equal digests leave the verdict open.
LEMMA SameDigest ==
  ASSUME NEW c, NEW d, WholeCard(c), WholeCard(d)
  PROVE  Manual!Digest(c) = Manual!Digest(d) <=>
           c.body = d.body /\ c.status = d.status /\ c.links = d.links /\ c.gen = d.gen
<1>1. Manual!Digest(c) = Manual!Digest(d) =>
        c.body = d.body /\ c.status = d.status /\ c.links = d.links /\ c.gen = d.gen
  BY DigestIs
<1>2. c.body = d.body /\ c.status = d.status /\ c.links = d.links /\ c.gen = d.gen =>
        Manual!Digest(c) = Manual!Digest(d)
  BY DigestIs, SameCard
<1> QED BY <1>1, <1>2

\* Stamped for the manual zone and turned.
LEMMA SettledIs ==
  ASSUME NEW c, WholeCard(c)
  PROVE  /\ WholeCard(Manual!Settled(c)) /\ Manual!Settled(c).body = c.body
         /\ Manual!Settled(c).status = "manual" /\ Manual!Settled(c).links = "far"
         /\ Manual!Settled(c).gen = c.gen /\ Manual!Settled(c).verdict = c.verdict
BY StampIs, RetargetIs DEF Manual!Settled

\* A whole card is no record and no torn file.
LEMMA CardIsCard ==
  ASSUME ManualParameters, NEW c, WholeCard(c)
  PROVE  /\ c \notin {None, Torn} /\ Manual!IsCard(c) /\ ~Manual!IsRecord(c)
         /\ "subject" \notin DOMAIN c
BY DEF ManualParameters, WholeCard, Manual!IsCard, Manual!IsRecord

\* The record of an entry is a record, of a whole card of its generation.
LEMMA EntryIsRecord ==
  ASSUME ManualParameters, NEW g, NEW x, IsEntry(g, x)
  PROVE  /\ x \notin {None, Torn} /\ Manual!IsRecord(x) /\ ~WholeCard(x)
         /\ x = Manual!NewEntry(x.subject) /\ x.gen = g /\ x.digest = Manual!Digest(x.subject)
         /\ WholeCard(x.subject) /\ x.subject.gen = g
BY DEF ManualParameters, IsEntry, WholeCard, Manual!IsCard, Manual!IsRecord, Manual!NewEntry

\* The record that is made of a card.
LEMMA NewEntryIs ==
  ASSUME ManualParameters, NEW c, WholeCard(c)
  PROVE  IsEntry(c.gen, Manual!NewEntry(c)) /\ Manual!NewEntry(c).subject = c
         /\ Manual!NewEntry(c).digest = Manual!Digest(c)
BY DEF IsEntry, Manual!NewEntry

-----------------------------------------------------------------------------
\* Maps that are written and dropped.
LEMMA PutIs ==
  ASSUME NEW f, NEW x, NEW y
  PROVE  /\ DOMAIN Manual!Put(f, x, y) = DOMAIN f \cup {x}
         /\ Manual!Put(f, x, y)[x] = y
         /\ \A z \in DOMAIN f : z # x => Manual!Put(f, x, y)[z] = f[z]
         /\ Manual!Put(f, x, y) = [z \in DOMAIN f \cup {x} |-> Manual!Put(f, x, y)[z]]
BY DEF Manual!Put

\* A file is removed, the others stay.
LEMMA DropIs ==
  ASSUME NEW f, NEW x
  PROVE  /\ DOMAIN Manual!Drop(f, x) = DOMAIN f \ {x}
         /\ \A z \in DOMAIN f : z # x => Manual!Drop(f, x)[z] = f[z]
         /\ Manual!Drop(f, x) = [z \in DOMAIN f \ {x} |-> Manual!Drop(f, x)[z]]
BY DEF Manual!Drop

\* A map that gets what it has already, or loses what it has not.
LEMMA PutSame ==
  ASSUME NEW f, f = [z \in DOMAIN f |-> f[z]], NEW x \in DOMAIN f
  PROVE  Manual!Put(f, x, f[x]) = f
BY DEF Manual!Put

\* What is read under the name of an entry.
LEMMA EntryPublished ==
  ASSUME ManualParameters, Recorded, NEW g
  PROVE  /\ Manual!Published(Manual!EntryName(g)) = IF g \in DOMAIN m_entry THEN m_entry[g]
            ELSE None
         /\ (Manual!Published(Manual!EntryName(g)) = None) <=> g \notin DOMAIN m_entry
<1>1. g \in DOMAIN m_entry => m_entry[g] # None
  BY EntryIsRecord DEF Recorded
<1> QED BY <1>1 DEF Manual!Published, Manual!EntryName, Manual!Get

\* What is read under the name of a close record.
LEMMA ClosePublished ==
  ASSUME ManualParameters, Recorded, NEW g
  PROVE  /\ Manual!Published(Manual!CloseName(g)) = IF g \in DOMAIN m_close THEN m_close[g]
            ELSE None
         /\ (Manual!Published(Manual!CloseName(g)) = None) <=> g \notin DOMAIN m_close
<1>1. g \in DOMAIN m_close => m_close[g] # None
  BY DEF Recorded, IsClose, ManualParameters
<1> QED BY <1>1 DEF Manual!Published, Manual!CloseName, Manual!Get

\* Entries are staged by one key.
LEMMA EntryUnowned ==
  ASSUME Recorded, NEW g
  PROVE  ~Manual!Foreign(Manual!EntryName(g), Manual!Key)
BY DEF Recorded, Manual!Foreign, Manual!EntryName

\* One card.
LEMMA OneCard ==
  ASSUME NEW v, NEW w, Lies(v), Lies(w)
  PROVE  v = w
BY DEF Lies

\* The other zones have no file.
LEMMA LiesOnly ==
  ASSUME NEW w, Lies(w)
  PROVE  /\ w \in Manual!Zone /\ m_files[w] # None
         /\ \A z \in Manual!Zone \ {w} : m_files[z] = None
BY DEF Lies

-----------------------------------------------------------------------------
(* What leaves the data as they are.                                       *)

-----------------------------------------------------------------------------
\* Frames: what holds still when the files, or the evidence, do.

\* The card's place, where the files stay.
LEMMA LiesKept ==
  ASSUME UNCHANGED m_files
  PROVE  \A w : (Lies(w) <=> Lies(w)') /\ (CardAt(w) <=> CardAt(w)')
BY DEF Lies, CardAt, Manual!Zone

\* The evidence, left alone.
LEMMA RecordedKept ==
  ASSUME Recorded, UNCHANGED <<m_entry, m_close, m_partial>>
  PROVE  Recorded'
BY DEF Recorded, IsClose, IsEntry

\* The generations, left alone.
LEMMA DescendsKept ==
  ASSUME Descends, UNCHANGED <<m_files, m_entry>>
  PROVE  Descends'
BY DEF Descends, CardAt, Lies, Manual!Zone

\* The answers, left alone.
LEMMA ToldKept ==
  ASSUME Told, UNCHANGED <<m_entry, m_close, m_told>>
  PROVE  Told'
BY DEF Told

\* The state before the first entry, left alone.
LEMMA FirstKept ==
  ASSUME FirstEntry, UNCHANGED <<m_files, m_entry>>
  PROVE  FirstEntry'
BY DEF FirstEntry, Fresh, Lies, Manual!Zone

\* All the data, left alone.
LEMMA DataKept ==
  ASSUME Data, UNCHANGED <<m_files, m_entry, m_close, m_partial, m_told>>, SeenTyped'
  PROVE  Data'
<1>1. (\E w \in Manual!Zone : Lies(w))'
  BY DEF Data, Lies, Manual!Zone
<1>2. Recorded' /\ Descends' /\ Told' /\ FirstEntry'
  BY RecordedKept, DescendsKept, ToldKept, FirstKept DEF Data
<1> QED BY <1>1, <1>2 DEF Data

\* The history, left alone.
LEMMA SeenKept ==
  ASSUME Data, UNCHANGED m_seen
  PROVE  SeenTyped' /\ m_seen'.body = m_seen.body /\ (Undisturbed' => Undisturbed)
BY DEF Data, SeenTyped, Undisturbed

\* One card in the manual zone's directories.
LEMMA CardIsThere ==
  ASSUME ManualParameters, Data, NEW z \in Manual!Zone, Manual!IsCard(m_files[z])
  PROVE  CardAt(z)
<1>1. PICK w \in Manual!Zone : Lies(w)
  BY DEF Data
<1>2. z = w
  BY <1>1, LiesOnly DEF Manual!IsCard
<1> QED BY <1>1, <1>2 DEF CardAt, Lies, Manual!IsCard

\* A card at a zone is the only file.
LEMMA CardOnly ==
  ASSUME ManualParameters, NEW w, CardAt(w)
  PROVE  /\ w \in Manual!Zone /\ WholeCard(m_files[w]) /\ Manual!IsCard(m_files[w])
         /\ m_files[w] \notin {None, Torn}
         /\ \A z \in Manual!Zone : z # w
            => m_files[z] = None /\ ~CardAt(z) /\ ~Manual!IsCard(m_files[z])
BY CardIsCard, LiesOnly DEF CardAt, Manual!IsCard, Lies

\* The texts.
LEMMA CopiedFrom ==
  ASSUME NEW w, CardAt(w)', m_files'[w].body = m_seen'.body, WroteCard' => m_seen'.body \in Copies'
  PROVE  Copied'
BY DEF Copied, CardAt, Lies, WroteCard

\* The text's copies, left alone.
LEMMA CopiedKept ==
  ASSUME Copied, UNCHANGED <<m_files, m_entry, m_partial>>, m_seen'.body = m_seen.body,
         WroteCard' => WroteCard
  PROVE  Copied'
<1>1. Copies' = Copies
  BY DEF Copies, Manual!IsRecord, Manual!IsCard
<1> QED BY <1>1 DEF Copied, CardAt, Lies, WroteCard, Manual!Zone

\* Fewer requests are asked.
LEMMA RequestsKept ==
  ASSUME Requests, Asked' \subseteq Asked, Fresh' => Fresh
  PROVE  Requests'
BY DEF Requests

-----------------------------------------------------------------------------
(* From the step of a call to the invariant.                               *)

-----------------------------------------------------------------------------
\* How a call goes on.

\* The call goes on to another step.
LEMMA GoesIs ==
  ASSUME CallTyped, NEW p, NEW w, p # "idle", m_call' = [m_call EXCEPT !.at = p, !.wrote = w]
  PROVE  /\ CallTyped' /\ m_call'.at = p /\ m_call'.wrote = w
         /\ m_call'.request = m_call.request /\ m_call'.original = m_call.original
         /\ m_call'.record = m_call.record /\ m_call'.resumed = m_call.resumed
         /\ m_call'.links = m_call.links
BY DEF CallTyped

\* The call ends.
LEMMA RestIs ==
  ASSUME m_call' = Manual!AtRest
  PROVE  /\ CallTyped' /\ m_call'.at = "idle" /\ ~WroteCard' /\ WroteFits'
         /\ StepFits' /\ Asked' = m_unanswered'
<1>1. \A a, b :
        LET c == [request |-> None, at |-> "idle", original |-> None, record |-> None,
                  resumed |-> a, links |-> b, wrote |-> None] IN
        /\ DOMAIN c = {"request", "at", "original", "record", "resumed", "links", "wrote"}
        /\ c.at = "idle" /\ c.wrote = None /\ c.resumed = a /\ c.links = b
  OBVIOUS
<1>2. LET c == Manual!AtRest IN
        /\ DOMAIN c = {"request", "at", "original", "record", "resumed", "links", "wrote"}
        /\ c.at = "idle" /\ c.wrote = None /\ c.resumed = FALSE /\ c.links = FALSE
  BY <1>1, Zenon DEF Manual!AtRest
<1>3. /\ DOMAIN m_call' = {"request", "at", "original", "record", "resumed", "links", "wrote"}
      /\ m_call'.at = "idle" /\ m_call'.wrote = None
      /\ m_call'.resumed = FALSE /\ m_call'.links = FALSE
  BY <1>2, Zenon
<1>4. CallTyped'
  <2>1. m_call'.resumed \in BOOLEAN /\ m_call'.links \in BOOLEAN
    BY <1>3
  <2> QED BY <1>3, <2>1, Zenon DEF CallTyped
<1>5. ~WroteCard' /\ WroteFits'
  BY <1>3 DEF WroteCard, WroteFits
<1>6. StepFits'
  BY <1>3 DEF StepFits, EnterSteps, ExitSteps, ReissueSteps
<1>7. Asked' = m_unanswered'
  BY <1>3 DEF Asked
<1> QED BY <1>3, <1>4, <1>5, <1>6, <1>7

\* What is asked for when a call is done.
LEMMA AskedNow ==
  ASSUME m_call.at # "idle"
  PROVE  Asked = m_unanswered \cup {m_call.request}
BY DEF Asked

\* Between the calls the card is well.
LEMMA CalmAtRest ==
  ASSUME m_call'.at = "idle"
  PROVE  StepCalm' <=> Well(Asked)'
BY DEF StepCalm, EnterSteps, ExitSteps, ReissueSteps

\* Steps of the three operations are told apart by their requests.
LEMMA KindsDiffer ==
  ASSUME NEW e
  PROVE  ~(IsEnter(e) /\ IsExit(e)) /\ ~(IsEnter(e) /\ IsReissue(e)) /\ ~(IsExit(e) /\ IsReissue(e))
BY DEF IsEnter, IsExit, IsReissue

\* It is enough that the entry fits its step.
LEMMA EnterFitsThen ==
  ASSUME Enters', m_call'.at \in EnterSteps, EnterFits'
  PROVE  StepFits'
BY KindsDiffer
   DEF StepFits, EnterSteps, ExitSteps, ReissueSteps, Enters, Exits, Reissues, IsEnter, IsExit,
     IsReissue

\* It is enough that the exit fits its step.
LEMMA ExitFitsThen ==
  ASSUME Exits', m_call'.at \in ExitSteps, ExitFits'
  PROVE  StepFits'
BY KindsDiffer
   DEF StepFits, EnterSteps, ExitSteps, ReissueSteps, Enters, Exits, Reissues, IsEnter, IsExit,
     IsReissue

\* It is enough that the reissue fits its step.
LEMMA ReissueFitsThen ==
  ASSUME Reissues', m_call'.at \in ReissueSteps, ReissueFits'
  PROVE  StepFits'
BY KindsDiffer
   DEF StepFits, EnterSteps, ExitSteps, ReissueSteps, Enters, Exits, Reissues, IsEnter, IsExit,
     IsReissue

\* A refusal only needs a card.
LEMMA RefuseFitsThen ==
  ASSUME m_call'.at = "refuse", NEW w, CardAt(w)'
  PROVE  StepFits'
BY DEF StepFits, EnterSteps, ExitSteps, ReissueSteps, CardAt, Lies

\* The same of an undisturbed entry.
LEMMA EnterCalmThen ==
  ASSUME Enters', m_call'.at \in EnterSteps, EnterCalm'
  PROVE  StepCalm'
BY KindsDiffer
   DEF StepCalm, EnterSteps, ExitSteps, ReissueSteps, Enters, Exits, Reissues, IsEnter, IsExit,
     IsReissue

\* The same of an undisturbed exit.
LEMMA ExitCalmThen ==
  ASSUME Exits', m_call'.at \in ExitSteps, ExitCalm'
  PROVE  StepCalm'
BY KindsDiffer
   DEF StepCalm, EnterSteps, ExitSteps, ReissueSteps, Enters, Exits, Reissues, IsEnter, IsExit,
     IsReissue

\* The same of an undisturbed reissue.
LEMMA ReissueCalmThen ==
  ASSUME Reissues', m_call'.at \in ReissueSteps, ReissueCalm'
  PROVE  StepCalm'
BY KindsDiffer
   DEF StepCalm, EnterSteps, ExitSteps, ReissueSteps, Enters, Exits, Reissues, IsEnter, IsExit,
     IsReissue

\* The same of a refusal.
LEMMA RefuseCalmThen ==
  ASSUME m_call'.at = "refuse",
         Well(IF m_call.resumed THEN Asked ELSE m_unanswered \ {m_call.request})'
  PROVE  StepCalm'
BY DEF StepCalm, EnterSteps, ExitSteps, ReissueSteps

\* At each step, whose it is.
LEMMA StepsOfEntry ==
  ASSUME StepFits, m_call.at \in EnterSteps, Enters
  PROVE  EnterFits /\ (StepCalm => EnterCalm)
BY DEF StepFits, StepCalm, EnterSteps

\* What is known at a step of an exit.
LEMMA StepsOfExit ==
  ASSUME StepFits, m_call.at \in ExitSteps, Exits
  PROVE  ExitFits /\ (StepCalm => ExitCalm)
BY DEF StepFits, StepCalm, ExitSteps

\* What is known at a step of a reissue.
LEMMA StepsOfReissue ==
  ASSUME StepFits, m_call.at \in ReissueSteps
  PROVE  Reissues /\ ReissueFits /\ (StepCalm => ReissueCalm)
BY DEF StepFits, StepCalm, ReissueSteps

\* These steps are an entry's.
LEMMA OnlyEntries ==
  ASSUME StepFits, m_call.at \in {"record", "resume entry"}
  PROVE  Enters
BY DEF StepFits, EnterSteps, ExitSteps

\* These steps are an exit's.
LEMMA OnlyExits ==
  ASSUME StepFits, m_call.at \in {"unstage", "resume exit"}
  PROVE  Exits
BY DEF StepFits, EnterSteps, ExitSteps

\* These steps are of either.
LEMMA EntriesOrExits ==
  ASSUME StepFits, m_call.at \in {"move", "stamp", "outbound", "inbound", "publish", "undo",
         "undo only", "back", "restore"}
  PROVE  /\ m_call.at \in EnterSteps /\ m_call.at \in ExitSteps
         /\ Enters \/ Exits
BY DEF StepFits, EnterSteps, ExitSteps

\* What is asked for less is as well off, if what is missed was not needed.
LEMMA WellMore ==
  ASSUME NEW asked, NEW more, asked \subseteq more, Well(asked)
  PROVE  Well(more)
BY DEF Well, Entering, Exiting, Reissuing

-----------------------------------------------------------------------------
(* A call begins, and is refused.                                          *)

\* The parts of the invariant.
LEMMA AllTogether ==
  ASSUME Data', CallTyped', Copied', Requests', WroteFits', StepFits', Undisturbed' => StepCalm'
  PROVE  ManualInv'
BY DEF ManualInv

\* A call begins.
LEMMA BeginIs ==
  ASSUME NEW e, m_call' = [Manual!AtRest EXCEPT !.request = e, !.at = "begin"]
  PROVE  /\ CallTyped' /\ m_call'.at = "begin" /\ m_call'.request = e /\ m_call'.record = None
         /\ ~m_call'.resumed /\ ~m_call'.links /\ m_call'.wrote = None
<1>1. \A a, b :
        LET c == [[request |-> None, at |-> "idle", original |-> None, record |-> None,
                  resumed |-> a, links |-> b, wrote |-> None] EXCEPT !.request = e,
                    !.at = "begin"] IN
        /\ DOMAIN c = {"request", "at", "original", "record", "resumed", "links", "wrote"}
        /\ c.at = "begin" /\ c.request = e /\ c.record = None
        /\ c.wrote = None /\ c.resumed = a /\ c.links = b
  OBVIOUS
<1>2. LET c == [Manual!AtRest EXCEPT !.request = e, !.at = "begin"] IN
        /\ DOMAIN c = {"request", "at", "original", "record", "resumed", "links", "wrote"}
        /\ c.at = "begin" /\ c.request = e /\ c.record = None
        /\ c.wrote = None /\ c.resumed = FALSE /\ c.links = FALSE
  BY <1>1, Zenon DEF Manual!AtRest
<1>3. /\ DOMAIN m_call' = {"request", "at", "original", "record", "resumed", "links", "wrote"}
      /\ m_call'.at = "begin" /\ m_call'.request = e /\ m_call'.record = None
      /\ m_call'.wrote = None /\ m_call'.resumed = FALSE /\ m_call'.links = FALSE
  BY <1>2, Zenon
<1> QED BY <1>3 DEF CallTyped

\* What a calm card looks like depends on the card, its links and evidence.
LEMMA UnownedKept ==
  ASSUME UNCHANGED m_partial, NEW g, NEW id
  PROVE  Unowned(g, id) <=> Unowned(g, id)'
BY DEF Unowned, Manual!Foreign

\* The card's state, where files, links and evidence stay.
LEMMA CalmKept ==
  ASSUME UNCHANGED <<m_files, m_inbound, m_entry, m_close, m_partial, m_receipt>>
  PROVE  /\ Baseline <=> Baseline'
         /\ Ready <=> Ready'
         /\ Rewritten <=> Rewritten'
         /\ \A w : (Proper(w) <=> Proper(w)') /\ (Leaving(w) <=> Leaving(w)')
<1>1. Baseline <=> Baseline'
  BY DEF Baseline, CardAt, Lies, Manual!Zone, Fresh
<1>2. Ready <=> Ready'
  BY DEF Ready, CardAt, Lies, Manual!Zone, Fresh
<1>3. Rewritten <=> Rewritten'
  BY DEF Rewritten, CardAt, Lies, Manual!Zone, Unowned, Manual!Foreign, Manual!NewClose
<1>4. ASSUME NEW w PROVE Proper(w) <=> Proper(w)'
  BY DEF Proper, CardAt, Lies, Manual!Zone, Fresh
<1>5. ASSUME NEW w PROVE Leaving(w) <=> Leaving(w)'
  BY DEF Leaving, CardAt, Lies, Manual!Zone
<1> QED BY <1>1, <1>2, <1>3, <1>4, <1>5

\* The same, as one.
LEMMA WellKept ==
  ASSUME UNCHANGED <<m_files, m_inbound, m_entry, m_close, m_partial, m_receipt>>, NEW asked
  PROVE  Well(asked) <=> Well(asked)'
<1>1. Entering(asked) <=> Entering(asked)'
  BY CalmKept DEF Entering
<1>2. Exiting(asked) <=> Exiting(asked)'
  BY CalmKept DEF Exiting, Manual!Zone, Unowned, Manual!Foreign
<1>3. Reissuing(asked) <=> Reissuing(asked)'
  BY CalmKept DEF Reissuing
<1>4. (\E w \in Manual!Zone : Proper(w)) <=> (\E w \in Manual!Zone : Proper(w))'
  BY CalmKept DEF Manual!Zone
<1> QED BY <1>1, <1>2, <1>3, <1>4 DEF Well

\* A call begins for one request (EnterManual, ExitManual, ReissueManual).
LEMMA BeginStep ==
  ASSUME ManualParameters, ManualInv, NEW e, Manual!Begin(e),
         IsEnter(e) \/ IsExit(e) \/ IsReissue(e),
         Fresh => ~IsReissue(e) /\ (IsEnter(e) => e.from = "todo")
  PROVE  ManualInv'
<1>1. /\ m_call.at = "idle" /\ m_call' = [Manual!AtRest EXCEPT !.request = e, !.at = "begin"]
      /\ UNCHANGED <<m_files, m_inbound, m_entry, m_close, m_partial, m_receipt, m_unanswered,
         m_told>>
      /\ UNCHANGED m_seen \/ m_seen' = [m_seen EXCEPT !.calls = @ + 1]
  BY DEF Manual!Begin, Manual!At
<1>2. SeenTyped' /\ m_seen'.body = m_seen.body /\ (Undisturbed' => Undisturbed)
  BY <1>1 DEF ManualInv, Data, SeenTyped, Undisturbed
<1>3. Data'
  BY <1>1, <1>2, DataKept DEF ManualInv
<1>4. /\ CallTyped' /\ m_call'.at = "begin" /\ m_call'.request = e /\ m_call'.record = None
         /\ ~m_call'.resumed /\ ~m_call'.links /\ m_call'.wrote = None
  BY <1>1, BeginIs
<1>5. WroteFits' /\ ~WroteCard'
  BY <1>4 DEF WroteFits, WroteCard
<1>6. Copied'
  BY <1>1, <1>2, <1>5, CopiedKept DEF ManualInv
<1>7. Asked' = Asked \cup {e} /\ (Fresh' <=> Fresh)
  BY <1>1, <1>4 DEF Asked, Fresh
<1>8. Requests'
  BY <1>7 DEF ManualInv, Requests
<1>9. StepFits'
  BY <1>4 DEF StepFits, EnterSteps, ExitSteps, ReissueSteps, Note
<1>10. ASSUME Undisturbed' PROVE StepCalm'
  <2>1. Well(Asked)
    BY <1>1, <1>2, <1>10 DEF ManualInv, StepCalm
  <2>2. Well(Asked')
    BY <2>1, <1>7, WellMore
  <2>3. Well(Asked)'
    <3>1. PICK a : a = Asked'
      OBVIOUS
    <3>2. Well(a)
      BY <2>2, <3>1
    <3>3. Well(a)'
      BY <3>2, <1>1, WellKept
    <3> QED BY <3>1, <3>3 DEF Well, Entering, Exiting, Reissuing
  <2> QED BY <2>3, <1>4 DEF StepCalm, EnterSteps, ExitSteps, ReissueSteps
<1> QED BY <1>3, <1>4, <1>5, <1>6, <1>8, <1>9, <1>10, AllTogether

\* A request begins, for the first time or again.
LEMMA CallStep ==
  ASSUME ManualParameters, ManualInv, Manual!Call
  PROVE  ManualInv'
<1>1. CASE \E from \in {"todo", "blocked"} : Manual!Now(from) # None
        /\ Manual!Begin(Manual!Enter(from))
  <2>1. PICK from \in {"todo", "blocked"} : m_files[from] # None /\ Manual!Begin(Manual!Enter(from))
    BY <1>1 DEF Manual!Now
  <2>2. IsEnter(Manual!Enter(from)) /\ Manual!Enter(from).from = from
          /\ ~IsReissue(Manual!Enter(from))
    BY DEF Manual!Enter, IsEnter, IsReissue
  <2>3. Fresh => from = "todo"
    BY <2>1, LiesOnly DEF ManualInv, Data, FirstEntry, Manual!Zone
  <2> QED BY <2>1, <2>2, <2>3, BeginStep
<1>2. CASE \E to \in {"todo", "blocked"}, id \in ManualRequest : Manual!Begin(Manual!Exit(to, id))
  <2>1. PICK to \in {"todo", "blocked"}, id \in ManualRequest : Manual!Begin(Manual!Exit(to, id))
    BY <1>2
  <2>2. IsExit(Manual!Exit(to, id)) /\ ~IsEnter(Manual!Exit(to, id))
          /\ ~IsReissue(Manual!Exit(to, id))
    BY DEF Manual!Exit, IsExit, IsReissue, IsEnter
  <2> QED BY <2>1, <2>2, BeginStep
<1>3. CASE \E g \in DOMAIN m_entry, id \in ManualRequest :
             Manual!IsCard(m_files["manual"]) /\ Manual!Begin(Manual!Reissue(g, id))
  <2>1. PICK g \in DOMAIN m_entry, id \in ManualRequest : Manual!Begin(Manual!Reissue(g, id))
    BY <1>3
  <2>2. IsReissue(Manual!Reissue(g, id)) /\ ~IsEnter(Manual!Reissue(g, id))
    BY DEF Manual!Reissue, IsReissue, IsEnter
  <2>3. ~Fresh
    BY <2>1 DEF Fresh
  <2> QED BY <2>1, <2>2, <2>3, BeginStep
<1>4. CASE \E e \in m_unanswered : Manual!Begin(e)
  <2>1. PICK e \in m_unanswered : Manual!Begin(e)
    BY <1>4
  <2>2. e \in Asked
    BY <2>1 DEF Asked
  <2>3. /\ IsEnter(e) \/ IsExit(e) \/ IsReissue(e)
        /\ Fresh => ~IsReissue(e) /\ (IsEnter(e) => e.from = "todo")
    BY <2>2 DEF ManualInv, Requests
  <2> QED BY <2>1, <2>3, BeginStep
<1> QED BY <1>1, <1>2, <1>3, <1>4 DEF Manual!Call

\* A call is refused (manual_apply.go).
LEMMA RefuseStep ==
  ASSUME ManualParameters, ManualInv, Manual!Refuse
  PROVE  ManualInv'
<1>1. /\ m_call.at = "refuse" /\ m_call' = Manual!AtRest
      /\ m_unanswered' = IF m_call.resumed THEN m_unanswered \cup {m_call.request}
         ELSE m_unanswered \ {m_call.request}
      /\ UNCHANGED <<m_files, m_inbound, m_entry, m_close, m_partial, m_receipt, m_told, m_seen>>
  BY DEF Manual!Refuse, Manual!At, Manual!q
<1>2. SeenTyped' /\ m_seen'.body = m_seen.body /\ (Undisturbed' => Undisturbed)
  BY <1>1, SeenKept DEF ManualInv
<1>3. Data'
  BY <1>1, <1>2, DataKept DEF ManualInv
<1>4. /\ CallTyped' /\ m_call'.at = "idle" /\ ~WroteCard' /\ WroteFits'
      /\ StepFits' /\ Asked' = m_unanswered'
  BY <1>1, RestIs
<1>6. Copied'
  BY <1>1, <1>2, <1>4, CopiedKept DEF ManualInv
<1>7. Asked = m_unanswered \cup {m_call.request} /\ (Fresh' <=> Fresh)
  BY <1>1, AskedNow DEF Fresh
<1>8. Requests'
  BY <1>1, <1>4, <1>7, RequestsKept DEF ManualInv
<1>10. ASSUME Undisturbed' PROVE StepCalm'
  <2>1. Well(m_unanswered')
    BY <1>1, <1>2, <1>7, <1>10 DEF ManualInv, StepCalm
  <2>2. Well(m_unanswered)'
    <3>1. PICK a : a = m_unanswered'
      OBVIOUS
    <3>2. Well(a)
      BY <2>1, <3>1
    <3>3. Well(a)'
      BY <3>2, <1>1, WellKept
    <3> QED BY <3>1, <3>3 DEF Well, Entering, Exiting, Reissuing
  <2> QED BY <2>2, <1>4, CalmAtRest
<1> QED BY <1>3, <1>4, <1>6, <1>8, <1>10, AllTogether

-----------------------------------------------------------------------------
(* What a call leaves when it is stopped.                                  *)

-----------------------------------------------------------------------------
\* What a repetition finds when a call is stopped at one of its steps.

\* An entry at work before the first record is one from todo.
LEMMA AskedEntry ==
  ASSUME Requests, Enters, m_call.at # "idle", Fresh
  PROVE  EnterTodo \in Asked
<1>1. m_call.request \in Asked
  BY AskedNow
<1>2. m_call.request = EnterTodo
  BY <1>1 DEF Requests, Enters, IsEnter, EnterTodo
<1> QED BY <1>1, <1>2

\* An entry stopped at a step leaves the card well.
LEMMA EntryIsWell ==
  ASSUME Requests, Enters, m_call.at \in EnterSteps, EnterFits, EnterCalm,
         m_call.at # "restore", ~(m_call.at = "back" /\ Note # None)
  PROVE  Well(Asked)
<1>1. Fresh /\ m_call.at # "idle"
  BY DEF EnterCalm, EnterSteps
<1>2. EnterTodo \in Asked
  BY <1>1, AskedEntry
<1>3. Proper("todo") \/ Baseline \/ Ready
  BY DEF EnterCalm, EnterFits
<1>4. "todo" \in Manual!Zone
  BY DEF Manual!Zone
<1> QED BY <1>2, <1>3, <1>4 DEF Well, Entering

\* The record of an exit is of the card's generation.
LEMMA ExitNote ==
  ASSUME ExitFits
  PROVE  /\ m_call.at \notin {"move", "restore"} => Note.gen = m_files[Into].gen
         /\ m_call.at \in {"move", "restore"} => Note.gen = m_files["manual"].gen
         /\ Note.to = Into /\ Note.req = m_call.request.id
<1>1. PICK w, n, r, c : w = (IF m_call.at \in {"move", "restore"} THEN "manual" ELSE Into)
                         /\ n = Note /\ r = Note.result /\ c = m_files[w]
  OBVIOUS
<1>2. Note = [gen |-> m_files[w].gen, digest |-> m_entry[m_files[w].gen].digest,
              req |-> m_call.request.id, result |-> Note.result, to |-> Into]
  BY <1>1, Zenon DEF ExitFits
<1>3. n = [gen |-> c.gen, digest |-> m_entry[c.gen].digest,
           req |-> m_call.request.id, result |-> r, to |-> Into]
  BY <1>1, <1>2
<1>4. n.gen = c.gen /\ n.to = Into /\ n.req = m_call.request.id
  BY <1>3
<1> QED BY <1>1, <1>4

\* An exit stopped at a step leaves the card well.
LEMMA ExitIsWell ==
  ASSUME Requests, Exits, m_call.at \in ExitSteps, ExitFits, ExitCalm, m_call.at # "restore"
  PROVE  Well(Asked)
<1>1. m_call.at # "idle" /\ m_call.request \in Asked
  BY AskedNow DEF ExitSteps
<1>2. Into \in Manual!Zone /\ "manual" \in Manual!Zone
  BY DEF Exits, IsExit, Into, Manual!Zone
<1>3. CASE Proper("manual")
  BY <1>2, <1>3 DEF Well
<1>4. CASE Proper(Into)
  BY <1>2, <1>4 DEF Well
<1>5. CASE m_call.at # "move" /\ Leaving(Into) /\ Unowned(Note.gen, m_call.request.id)
  <2>1. Note.gen = m_files[Into].gen
    BY <1>5, ExitNote
  <2> QED BY <1>1, <1>2, <1>5, <2>1 DEF Well, Exiting, Exits, Into
<1> QED BY <1>3, <1>4, <1>5 DEF ExitCalm

\* A reissue stopped at a step leaves the card well.
LEMMA ReissueIsWell ==
  ASSUME Requests, Reissues, m_call.at \in ReissueSteps, ReissueFits, ReissueCalm
  PROVE  Well(Asked)
<1>1. m_call.at # "idle" /\ m_call.request \in Asked
  BY AskedNow DEF ReissueSteps
<1>2. CASE Proper("manual")
  BY <1>2 DEF Well, Manual!Zone
<1>3. CASE Rewritten
  <2>1. m_files["manual"].gen = NewGen
    BY <1>3 DEF Rewritten, ReissueFits
  <2>2. Derivation(NewGen) = m_call.request
    BY DEF Derivation, NewGen, Reissues, IsReissue
  <2> QED BY <1>1, <1>3, <2>1, <2>2 DEF Well, Reissuing
<1> QED BY <1>2, <1>3 DEF ReissueCalm

\* A stopped call leaves the card well, unless links are half taken back.
LEMMA StoppedIsWell ==
  ASSUME ManualInv, StepCalm, m_call.at # "idle", m_call.at # "restore",
         ~(m_call.at = "back" /\ Manual!Unlinks)
  PROVE  Well(Asked)
<1>1. CASE m_call.at \in {"begin", "resume entry", "resume exit"}
  BY <1>1 DEF StepCalm
<1>2. CASE m_call.at = "refuse"
  <2>1. Well(IF m_call.resumed THEN Asked ELSE m_unanswered \ {m_call.request})
    BY <1>2 DEF StepCalm
  <2>2. (IF m_call.resumed THEN Asked ELSE m_unanswered \ {m_call.request}) \subseteq Asked
    BY AskedNow
  <2> QED BY <2>1, <2>2, WellMore
<1>3. CASE m_call.at \in EnterSteps /\ Enters
  <2>1. EnterFits /\ EnterCalm
    BY <1>3, StepsOfEntry DEF ManualInv
  <2>2. ~(m_call.at = "back" /\ Note # None)
    BY <1>3, <2>1 DEF EnterCalm, Manual!Unlinks, Note, Enters, IsEnter, Manual!q
  <2> QED BY <1>3, <2>1, <2>2, EntryIsWell DEF ManualInv
<1>4. CASE m_call.at \in ExitSteps /\ Exits
  BY <1>4, StepsOfExit, ExitIsWell DEF ManualInv
<1>5. CASE m_call.at \in ReissueSteps
  BY <1>5, StepsOfReissue, ReissueIsWell DEF ManualInv
<1>6. StepFits
  BY DEF ManualInv
<1>7. m_call.at \in {"begin", "resume entry", "resume exit", "refuse"} \cup EnterSteps
        \cup ExitSteps \cup ReissueSteps
  BY <1>6 DEF StepFits
<1>8. m_call.at \in EnterSteps \cup ExitSteps
        => (m_call.at \in EnterSteps /\ Enters) \/ (m_call.at \in ExitSteps /\ Exits)
  BY <1>6 DEF StepFits, EnterSteps, ExitSteps
<1> QED BY <1>1, <1>2, <1>3, <1>4, <1>5, <1>7, <1>8

\* A call that ends leaves what was well before.
LEMMA RestCalm ==
  ASSUME m_call' = Manual!AtRest, NEW asked, asked = m_unanswered', Well(asked),
         UNCHANGED <<m_files, m_inbound, m_entry, m_close, m_partial, m_receipt>>
  PROVE  StepCalm'
<1>1. Well(asked)'
  BY WellKept
<1>2. m_call'.at = "idle" /\ Asked' = m_unanswered'
  BY RestIs
<1>3. Well(Asked)'
  BY <1>1, <1>2 DEF Well, Entering, Exiting, Reissuing
<1> QED BY <1>2, <1>3, CalmAtRest

-----------------------------------------------------------------------------
(* Kills, receipts and the human.                                          *)

\* A kill, at any step.
LEMMA KillRests ==
  ASSUME ManualParameters, ManualInv, NEW torn \in BOOLEAN, Manual!Kill(torn)
  PROVE  /\ m_call.at # "idle" /\ m_call' = Manual!AtRest /\ (torn => m_call.wrote # None)
         /\ m_unanswered' = m_unanswered \cup {m_call.request}
         /\ UNCHANGED <<m_inbound, m_entry, m_close, m_receipt, m_told>>
         /\ SeenTyped' /\ m_seen'.body = m_seen.body
         /\ (Undisturbed' => ~torn /\ Undisturbed /\ m_call.at # "restore"
                              /\ ~(m_call.at = "back" /\ Manual!Unlinks))
<1>1. /\ m_call.at # "idle" /\ m_call' = Manual!AtRest /\ (torn => m_call.wrote # None)
      /\ m_unanswered' = m_unanswered \cup {m_call.request}
      /\ UNCHANGED <<m_inbound, m_entry, m_close, m_receipt, m_told>>
  BY DEF Manual!Kill, Manual!At, Manual!q
<1>2. PICK t \in BOOLEAN, u \in BOOLEAN :
        /\ t = (m_seen.torn \/ torn)
        /\ u = (m_seen.undone \/ m_call.at = "restore" \/ (m_call.at = "back" /\ Manual!Unlinks))
  OBVIOUS
<1>3. m_seen' = [m_seen EXCEPT !.stops = @ + 1, !.torn = t, !.undone = u]
  BY <1>2 DEF Manual!Kill, Manual!At
<1>4. /\ DOMAIN m_seen' = DOMAIN m_seen /\ m_seen'.body = m_seen.body
      /\ m_seen'.torn = t /\ m_seen'.undone = u /\ m_seen'.touched = m_seen.touched
  BY <1>3 DEF ManualInv, Data, SeenTyped
<1>5. SeenTyped' /\ m_seen'.body = m_seen.body
  BY <1>2, <1>4 DEF ManualInv, Data, SeenTyped
<1>6. Undisturbed' => ~torn /\ Undisturbed /\ m_call.at # "restore"
                       /\ ~(m_call.at = "back" /\ Manual!Unlinks)
  BY <1>2, <1>4 DEF Undisturbed
<1> QED BY <1>1, <1>5, <1>6

\* A kill between two writes.
LEMMA KillWhole ==
  ASSUME ManualParameters, ManualInv, Manual!Kill(FALSE)
  PROVE  ManualInv'
<1>1. /\ m_call.at # "idle" /\ m_call' = Manual!AtRest
      /\ m_unanswered' = m_unanswered \cup {m_call.request}
      /\ UNCHANGED <<m_inbound, m_entry, m_close, m_receipt, m_told>>
      /\ SeenTyped' /\ m_seen'.body = m_seen.body
      /\ (Undisturbed' => Undisturbed /\ m_call.at # "restore"
                              /\ ~(m_call.at = "back" /\ Manual!Unlinks))
  BY KillRests
<1>2. UNCHANGED <<m_files, m_partial>>
  BY DEF Manual!Kill
<1>3. Data'
  BY <1>1, <1>2, DataKept DEF ManualInv
<1>4. /\ CallTyped' /\ m_call'.at = "idle" /\ ~WroteCard' /\ WroteFits'
      /\ StepFits' /\ Asked' = m_unanswered'
  BY <1>1, RestIs
<1>5. Copied'
  BY <1>1, <1>2, <1>4, CopiedKept DEF ManualInv
<1>6. Asked = m_unanswered' /\ (Fresh' <=> Fresh)
  BY <1>1, AskedNow DEF Fresh
<1>7. Requests'
  BY <1>1, <1>4, <1>6, RequestsKept DEF ManualInv
<1>8. ASSUME Undisturbed' PROVE StepCalm'
  <2>1. Well(Asked)
    BY <1>1, <1>8, StoppedIsWell DEF ManualInv
  <2>2. PICK asked : asked = m_unanswered'
    OBVIOUS
  <2>3. Well(asked)
    BY <2>1, <2>2, <1>6
  <2> QED BY <2>2, <2>3, <1>1, <1>2, RestCalm
<1> QED BY <1>3, <1>4, <1>5, <1>7, <1>8, AllTogether

\* A text that evidence holds is still held when it has more.
LEMMA CopiesGrow ==
  ASSUME NEW d,
         \A g \in DOMAIN m_entry : g \in DOMAIN m_entry' /\ m_entry'[g] = m_entry[g],
         \A x \in DOMAIN m_partial : x \in DOMAIN m_partial' /\ m_partial'[x] = m_partial[x],
         d \in Copies
  PROVE  d \in Copies'
BY DEF Copies, Manual!IsRecord, Manual!IsCard

\* A kill in the middle of a write: the text is in the evidence.
LEMMA KillTorn ==
  ASSUME ManualParameters, ManualInv, Manual!Kill(TRUE)
  PROVE  ManualInv'
<1>1. /\ m_call.at # "idle" /\ m_call' = Manual!AtRest /\ m_call.wrote # None
      /\ m_unanswered' = m_unanswered \cup {m_call.request}
      /\ UNCHANGED <<m_inbound, m_entry, m_close, m_receipt, m_told>>
      /\ SeenTyped' /\ m_seen'.body = m_seen.body /\ ~Undisturbed'
  BY KillRests
<1>2. PICK w \in Manual!Zone :
        /\ CardAt(w)
        /\ \/ m_call.wrote = <<"card", w>>
           \/ LET name == m_call.wrote[2] key == m_call.wrote[3] IN
              /\ m_call.wrote = <<"partial", name, key>> /\ name = <<name[1], name[2]>>
              /\ name[1] = "entry" => key = Manual!Key
  BY <1>1 DEF ManualInv, WroteFits
<1>4. /\ CallTyped' /\ m_call'.at = "idle" /\ ~WroteCard' /\ WroteFits'
      /\ StepFits' /\ Asked' = m_unanswered'
  BY <1>1, RestIs
<1>6. Asked = m_unanswered' /\ (Fresh' <=> Fresh)
  BY <1>1, AskedNow DEF Fresh
<1>7. Requests'
  BY <1>1, <1>4, <1>6, RequestsKept DEF ManualInv
<1>8. Lies(w) /\ m_files[w].body = m_seen.body
  BY <1>2 DEF CardAt, ManualInv, Copied
<1>9. CASE m_call.wrote = <<"card", w>>
  <2>1. m_files' = [m_files EXCEPT ![w] = Torn] /\ UNCHANGED m_partial
    BY <1>9 DEF Manual!Kill
  <2>2. m_files' = [z \in Manual!Zone |-> IF z = w THEN Torn ELSE None] /\ m_files'[w] = Torn
    BY <2>1, <1>8 DEF Lies
  <2>3. Lies(w)' /\ ~CardAt(w)'
    BY <2>2, <1>2 DEF Lies, CardAt, ManualParameters
  <2>4. \A z \in Manual!Zone : z # w => ~Lies(z)'
    BY <2>2 DEF Lies
  <2>5. Recorded' /\ Told'
    BY <1>1, <2>1, RecordedKept, ToldKept DEF ManualInv, Data
  <2>6. Descends'
    BY <1>1, <2>3, <2>4 DEF ManualInv, Data, Descends, CardAt
  <2>7. FirstEntry'
    <3>1. Fresh' => Lies("todo") \/ Lies("manual")
      BY <1>6 DEF ManualInv, Data, FirstEntry
    <3>2. Fresh' => w = "todo" \/ w = "manual"
      BY <3>1, <1>8, OneCard
    <3> QED BY <3>2, <2>3 DEF FirstEntry
  <2>8. Data'
    BY <1>1, <1>2, <2>3, <2>5, <2>6, <2>7 DEF Data, Manual!Zone
  <2>9. m_seen.body \in Copies
    BY <1>9, <1>1 DEF ManualInv, Copied, WroteCard
  <2>10. m_seen'.body \in Copies'
    BY <2>9, <1>1, <2>1, CopiesGrow
  <2>11. Copied'
    BY <2>3, <2>4, <2>10, <1>4 DEF Copied, CardAt, Manual!Zone
  <2> QED BY <1>1, <1>4, <1>7, <2>8, <2>11, AllTogether
<1>10. CASE m_call.wrote # <<"card", w>>
  <2>0. PICK name, key : m_call.wrote = <<"partial", name, key>> /\ name = <<name[1], name[2]>>
                          /\ (name[1] = "entry" => key = Manual!Key)
    BY <1>2, <1>10
  <2>1. m_partial' = Manual!Put(m_partial, <<name, key>>, Torn) /\ UNCHANGED m_files
    BY <2>0 DEF Manual!Kill
  <2>2. CardAt(w)' /\ m_files'[w] = m_files[w]
    BY <1>2, <2>1, LiesKept
  <2>3. Told' /\ Descends' /\ FirstEntry'
    BY <1>1, <2>1, ToldKept, DescendsKept, FirstKept DEF ManualInv, Data
  <2>4. DOMAIN m_partial' = DOMAIN m_partial \cup {<<name, key>>}
        /\ m_partial' = [z \in DOMAIN m_partial' |-> m_partial'[z]]
        /\ m_partial'[<<name, key>>] = Torn
        /\ \A z \in DOMAIN m_partial : z # <<name, key>> => m_partial'[z] = m_partial[z]
    BY <2>1 DEF Manual!Put
  <2>5. Recorded'
    <3>1. Recorded
      BY DEF ManualInv, Data
    <3>2. \A x \in DOMAIN m_partial' : x = <<x[1], x[2]>> /\ x[1] = <<x[1][1], x[1][2]>>
      BY <3>1, <2>0, <2>4 DEF Recorded
    <3>3. ASSUME NEW x \in DOMAIN m_partial', x[1][1] = "entry"
          PROVE  x[2] = Manual!Key
             /\ \/ m_partial'[x] = Torn
                \/ WholeCard(m_partial'[x]) /\ m_partial'[x].gen = x[1][2]
                \/ IsEntry(x[1][2], m_partial'[x])
      <4>1. CASE x = <<name, key>>
        BY <4>1, <3>3, <2>0, <2>4
      <4>2. CASE x # <<name, key>>
        BY <4>2, <3>3, <2>4, <3>1 DEF Recorded
      <4> QED BY <4>1, <4>2
    <3> QED BY <1>1, <2>4, <3>1, <3>2, <3>3 DEF Recorded, IsEntry, IsClose
  <2>6. Data'
    BY <1>1, <1>2, <2>2, <2>3, <2>5 DEF Data, CardAt
  <2>7. Copied'
    BY <1>1, <1>4, <1>8, <2>2, CopiedFrom
  <2> QED BY <1>1, <1>4, <1>7, <2>6, <2>7, AllTogether
<1> QED BY <1>9, <1>10

\* A reviewer writes a receipt.
LEMMA WriteReceiptStep ==
  ASSUME ManualParameters, ManualInv, NEW g \in DOMAIN m_entry, NEW result,
         Manual!WriteReceipt(g, result)
  PROVE  ManualInv'
<1>1. /\ m_call.at = "idle"
      /\ m_receipt' = Manual!Put(m_receipt, g, [digest |-> m_entry[g].digest, result |-> result])
      /\ UNCHANGED <<m_files, m_inbound, m_entry, m_close, m_partial, m_call, m_unanswered, m_told>>
  BY DEF Manual!WriteReceipt, Manual!At
<1>2. PICK t \in BOOLEAN : t = (m_seen.touched \/ (g \in DOMAIN m_receipt /\ m_unanswered # {}))
  OBVIOUS
<1>3. m_seen' = [m_seen EXCEPT !.touched = t]
  BY <1>2 DEF Manual!WriteReceipt
<1>4. SeenTyped' /\ m_seen'.body = m_seen.body /\ (Undisturbed' => Undisturbed /\ ~t)
  BY <1>2, <1>3 DEF ManualInv, Data, SeenTyped, Undisturbed
<1>5. Data'
  BY <1>1, <1>4, DataKept DEF ManualInv
<1>6. CallTyped' /\ Requests' /\ (Asked' = Asked)
  BY <1>1 DEF ManualInv, CallTyped, Requests, Asked, Fresh
<1>7. WroteFits' /\ (WroteCard' <=> WroteCard) /\ StepFits'
  <2>1. m_call' = Manual!AtRest
    BY <1>1 DEF ManualInv, CallTyped
  <2>2. m_call = Manual!AtRest
    BY <1>1 DEF ManualInv, CallTyped
  <2> QED BY <2>1, <2>2, RestIs DEF WroteCard
<1>8. Copied'
  BY <1>1, <1>4, <1>7, CopiedKept DEF ManualInv
<1>9. ASSUME Undisturbed' PROVE StepCalm'
  <2> SUFFICES Well(m_unanswered)'
    BY <1>1, CalmAtRest DEF Asked
  <2>1. Well(m_unanswered) /\ ~t
    BY <1>1, <1>4, <1>9 DEF ManualInv, StepCalm, Asked
  <2>2. \A z \in DOMAIN m_receipt : z \in DOMAIN m_receipt' /\ (z # g
          => m_receipt'[z] = m_receipt[z])
    BY <1>1 DEF Manual!Put
  <2>3. ASSUME NEW w, Proper(w) PROVE Proper(w)'
    BY <2>3, <1>1 DEF Proper, CardAt, Lies, Manual!Zone, Fresh
  <2>4. Baseline => Baseline'
    BY <1>1 DEF Baseline, CardAt, Lies, Manual!Zone, Fresh
  <2>5. Ready => Ready'
    BY <1>1 DEF Ready, CardAt, Lies, Manual!Zone, Fresh
  <2>6. Rewritten => Rewritten'
    BY <1>1 DEF Rewritten, CardAt, Lies, Manual!Zone, Unowned, Manual!Foreign, Manual!NewClose
  <2>7. ASSUME NEW w, Leaving(w), m_unanswered # {} PROVE Leaving(w)'
    <3>1. g \notin DOMAIN m_receipt
      BY <1>2, <2>1, <2>7
    <3>2. m_files[w].gen \in DOMAIN m_receipt /\ m_files[w].gen # g
      BY <3>1, <2>7 DEF Leaving
    <3>3. m_files[w].gen \in DOMAIN m_receipt'
            /\ m_receipt'[m_files[w].gen] = m_receipt[m_files[w].gen]
      BY <2>2, <3>2
    <3> QED BY <1>1, <2>7, <3>3 DEF Leaving, CardAt, Lies, Manual!Zone
  <2>8. CASE \E w \in Manual!Zone : Proper(w)
    BY <2>3, <2>8 DEF Well, Manual!Zone
  <2>9. CASE Entering(m_unanswered)
    BY <2>4, <2>5, <2>9, <1>1 DEF Well, Entering
  <2>10. CASE Exiting(m_unanswered)
    <3>1. PICK w \in Manual!Zone, e \in m_unanswered : Leaving(w) /\ IsExit(e) /\ e.to = w
            /\ Unowned(m_files[w].gen, e.id)
      BY <2>10 DEF Exiting
    <3>2. Leaving(w)'
      BY <2>7, <3>1
    <3>3. Unowned(m_files[w].gen, e.id)'
      BY <3>1, <1>1 DEF Unowned, Manual!Foreign
    <3> QED BY <1>1, <3>1, <3>2, <3>3 DEF Well, Exiting, Manual!Zone
  <2>11. CASE Reissuing(m_unanswered)
    BY <2>6, <2>11, <1>1 DEF Well, Reissuing
  <2> QED BY <2>1, <2>8, <2>9, <2>10, <2>11 DEF Well
<1> QED BY <1>5, <1>6, <1>7, <1>8, <1>9, AllTogether

\* A human's hand on the card.
LEMMA EditIs ==
  ASSUME NEW c, WholeCard(c), c.body \in Nat, NEW d, NEW body \in BOOLEAN,
         d = IF body THEN [c EXCEPT !.body = @ + 1] ELSE [c EXCEPT !.verdict = ~@]
  PROVE  /\ WholeCard(d) /\ d.status = c.status /\ d.links = c.links /\ d.gen = c.gen
         /\ body => d.body = c.body + 1
         /\ ~body => d.body = c.body /\ Manual!Digest(d) = Manual!Digest(c)
<1>1. CASE body
  <2>1. d = [c EXCEPT !.body = @ + 1]
    BY <1>1
  <2> QED BY <2>1, <1>1 DEF WholeCard
<1>2. CASE ~body
  <2>1. PICK v : v = (~c.verdict)
    OBVIOUS
  <2>2. d = [c EXCEPT !.verdict = v]
    BY <1>2, <2>1, Zenon
  <2>3. LET e == [c EXCEPT !.verdict = v] IN
          WholeCard(e) /\ e.body = c.body /\ e.status = c.status /\ e.links = c.links
          /\ e.gen = c.gen
    BY VerdictIs
  <2>4. WholeCard(d) /\ d.body = c.body /\ d.status = c.status /\ d.links = c.links
        /\ d.gen = c.gen
    BY <2>2, <2>3, Zenon
  <2>5. Manual!Digest(d) = Manual!Digest(c)
    BY <2>4, SameDigest
  <2> QED BY <1>2, <2>4, <2>5
<1> QED BY <1>1, <1>2

\* The human edits the card.
LEMMA EditStep ==
  ASSUME ManualParameters, ManualInv, NEW zone \in Manual!Zone, NEW body \in BOOLEAN,
         Manual!Edit(zone, body)
  PROVE  ManualInv'
<1>1. /\ m_call.at = "idle" /\ Manual!IsCard(m_files[zone])
      /\ UNCHANGED <<m_inbound, m_entry, m_close, m_partial, m_receipt, m_call, m_unanswered,
         m_told>>
  BY DEF Manual!Edit, Manual!At, Manual!Now
<1>2. PICK c : c = m_files[zone]
  OBVIOUS
<1>3. CardAt(zone) /\ WholeCard(c) /\ c.body = m_seen.body /\ c.body \in Nat
  BY <1>1, <1>2, CardIsThere, CardOnly DEF ManualInv, Data, Copied, SeenTyped
<1>4. PICK d : d = Manual!Edited(c, body)
  OBVIOUS
<1>5. /\ WholeCard(d) /\ d.status = c.status /\ d.links = c.links /\ d.gen = c.gen
      /\ body => d.body = c.body + 1
      /\ ~body => d.body = c.body /\ Manual!Digest(d) = Manual!Digest(c)
  BY <1>3, <1>4, EditIs, Zenon DEF Manual!Edited
<1>6. m_files' = [m_files EXCEPT ![zone] = d]
  BY <1>2, <1>4 DEF Manual!Edit
<1>7. CardAt(zone)' /\ m_files'[zone] = d
  BY <1>3, <1>5, <1>6, CardIsCard DEF CardAt, Lies
<1>8. \A z \in Manual!Zone : z # zone => ~Lies(z)'
  BY <1>7 DEF CardAt, Lies
<1>9. PICK b, t : b = (IF body THEN m_seen.body + 1 ELSE m_seen.body)
        /\ t = (m_seen.touched \/ m_unanswered # {} \/ (body /\ zone = "manual")) /\ t \in BOOLEAN
  OBVIOUS
<1>10. m_seen' = [m_seen EXCEPT !.edits = @ + 1, !.body = b, !.touched = t]
  BY <1>9, Zenon DEF Manual!Edit
<1>11. SeenTyped' /\ m_seen'.body = b /\ (Undisturbed' => Undisturbed /\ ~t)
  BY <1>9, <1>10 DEF ManualInv, Data, SeenTyped, Undisturbed
<1>12. Recorded' /\ Told'
  BY <1>1, RecordedKept, ToldKept DEF ManualInv, Data
<1>13. Descends'
  BY <1>1, <1>2, <1>3, <1>5, <1>7, <1>8 DEF ManualInv, Data, Descends, CardAt
<1>14. FirstEntry'
  BY <1>1, <1>3, <1>7, OneCard DEF ManualInv, Data, FirstEntry, Fresh, CardAt
<1>15. Data'
  BY <1>7, <1>11, <1>12, <1>13, <1>14 DEF Data, CardAt
<1>16. CallTyped' /\ Requests' /\ (Asked' = Asked)
  BY <1>1 DEF ManualInv, CallTyped, Requests, Asked, Fresh
<1>17. WroteFits' /\ ~WroteCard' /\ StepFits'
  <2>1. m_call' = Manual!AtRest
    BY <1>1 DEF ManualInv, CallTyped
  <2> QED BY <2>1, RestIs
<1>18. m_files'[zone].body = m_seen'.body
  BY <1>3, <1>5, <1>7, <1>9, <1>11
<1>19. Copied'
  BY <1>7, <1>17, <1>18, CopiedFrom
<1>20. ASSUME Undisturbed' PROVE StepCalm'
  <2> SUFFICES Well(m_unanswered)'
    BY <1>1, CalmAtRest DEF Asked
  <2>1. Well(m_unanswered) /\ ~t
    BY <1>1, <1>11, <1>20 DEF ManualInv, StepCalm, Asked
  <2>2. m_unanswered = {} /\ (zone = "manual" => ~body)
    BY <1>9, <2>1
  <2>3. PICK w \in Manual!Zone : Proper(w)
    BY <2>1, <2>2 DEF Well, Entering, Exiting, Reissuing
  <2>4. w = zone
    BY <2>3, <1>3, OneCard DEF Proper, CardAt
  <2>5. /\ c.status = zone /\ m_inbound = zone
        /\ IF zone = "manual"
           THEN /\ c.gen \in DOMAIN m_entry /\ c.gen \notin DOMAIN m_close
                /\ m_entry[c.gen].digest = Manual!Digest(c)
           ELSE \/ c.gen \in DOMAIN m_close
                \/ c.gen \notin DOMAIN m_entry /\ Fresh /\ zone = "todo"
    BY <2>3, <2>4, <1>2 DEF Proper
  <2>6. /\ d.status = zone
        /\ IF zone = "manual"
           THEN /\ d.gen \in DOMAIN m_entry /\ d.gen \notin DOMAIN m_close
                /\ m_entry[d.gen].digest = Manual!Digest(d)
           ELSE \/ d.gen \in DOMAIN m_close
                \/ d.gen \notin DOMAIN m_entry /\ Fresh /\ zone = "todo"
    BY <2>2, <2>5, <1>5
  <2>7. Proper(zone)'
    BY <2>5, <2>6, <1>1, <1>7 DEF Proper, Fresh
  <2> QED BY <2>7 DEF Well, Manual!Zone
<1> QED BY <1>15, <1>16, <1>17, <1>19, <1>20, AllTogether

-----------------------------------------------------------------------------
(* A step of a call fails.                                                 *)

\* A call that goes on and has changed nothing.
LEMMA GoesStep ==
  ASSUME ManualParameters, ManualInv, NEW p, p # "idle", m_call.at # "idle",
         m_call' = [m_call EXCEPT !.at = p, !.wrote = None],
         UNCHANGED <<m_files, m_entry, m_close, m_partial, m_unanswered, m_told>>,
         SeenTyped', m_seen'.body = m_seen.body, StepFits', Undisturbed' => StepCalm'
  PROVE  ManualInv'
<1>1. CallTyped' /\ m_call'.at = p /\ m_call'.request = m_call.request /\ m_call'.wrote = None
  BY GoesIs DEF ManualInv
<1>2. Data'
  BY DataKept DEF ManualInv
<1>3. WroteFits' /\ ~WroteCard'
  BY <1>1 DEF WroteFits, WroteCard
<1>4. Copied'
  BY <1>3, CopiedKept DEF ManualInv
<1>5. Asked' = Asked /\ (Fresh' <=> Fresh)
  BY <1>1 DEF Asked, Fresh
<1>6. Requests'
  BY <1>5, RequestsKept DEF ManualInv
<1> QED BY <1>1, <1>2, <1>3, <1>4, <1>6, AllTogether

\* What stays of a call that goes on.
SameCall ==
  /\ m_call'.request = m_call.request /\ m_call'.original = m_call.original
  /\ m_call'.record = m_call.record /\ m_call'.resumed = m_call.resumed
  /\ m_call'.links = m_call.links

\* The card's place, where the files stay.
LEMMA WholeStays ==
  ASSUME UNCHANGED m_files
  PROVE  \A w : CardAt(w) <=> CardAt(w)'
BY LiesKept

\* An entry's undoing, as its card and evidence stand.
LEMMA EnterUndoes ==
  ASSUME EnterFits, Enters, SameCall, UNCHANGED <<m_files, m_entry, m_partial>>,
         m_call.at \notin {"move", "restore"},
         \/ m_call'.at = "back" /\ ~m_call.resumed
         \/ /\ m_call'.at \in {"undo", "undo only"}
               /\ m_call.at \in {"inbound", "record", "publish"}
            /\ (m_call'.at = "undo") <=> ~m_call.resumed
  PROVE  EnterFits' /\ Enters' /\ m_call'.at \in EnterSteps
<1>1. Enters'
  BY DEF Enters, SameCall
<1>2. PICK c, was, note : c = m_files["manual"] /\ was = Was /\ note = Note
  OBVIOUS
<1>3. /\ CardAt("manual") /\ WholeCard(was) /\ was.gen = c.gen /\ was.body = c.body
      /\ c.gen \notin DOMAIN m_entry
      /\ Spot(c.gen) \in DOMAIN m_partial
      /\ IF note = None THEN m_partial[Spot(c.gen)] = was ELSE m_partial[Spot(c.gen)] = note
      /\ note # None => IsEntry(c.gen, note) /\ note.subject.body = c.body
      /\ c \in {was, Manual!Stamp(was, "manual"), Manual!Settled(was)}
      /\ m_call.at \in {"inbound", "record", "publish"} => c = Manual!Settled(was)
  BY <1>2 DEF EnterFits, Staging, EntryForms, Was, Note
<1>4. /\ m_files'["manual"] = c /\ m_call'.original = was /\ m_call'.record = note
      /\ m_call'.resumed = m_call.resumed /\ CardAt("manual")'
  BY <1>2, <1>3, WholeStays DEF SameCall, Was, Note
<1>5. m_call'.at \in {"back", "undo", "undo only"}
  OBVIOUS
<1>6. EnterFits'
  BY <1>3, <1>4, <1>5 DEF EnterFits, Staging, EntryForms, Was, Note, IsEntry
<1> QED BY <1>1, <1>5, <1>6 DEF EnterSteps

\* An exit turns back at a step.
LEMMA ExitUndoes ==
  ASSUME ExitFits, Exits, SameCall, UNCHANGED <<m_files, m_entry>>,
         m_call.at \notin {"move", "restore"},
         \/ m_call'.at = "back"
         \/ m_call'.at = "undo" /\ ~m_call.resumed
         \/ m_call'.at = "undo only" /\ m_call.resumed /\ ~m_call.links
         \/ m_call'.at = "unstage" /\ ~m_call.links
  PROVE  ExitFits' /\ Exits' /\ m_call'.at \in ExitSteps
<1>1. Exits' /\ Into' = Into
  BY DEF Exits, SameCall, Into
<1>2. PICK w, c, was, note, s :
        w = Into /\ c = m_files[w] /\ was = Was /\ note = Note /\ s = m_entry[c.gen].subject
  OBVIOUS
<1>3. /\ CardAt(w) /\ c.gen \in DOMAIN m_entry
      /\ Manual!Digest(c) \in Forms(s, w)
      /\ note = [gen |-> c.gen, digest |-> m_entry[c.gen].digest, req |-> m_call.request.id,
                 result |-> note.result, to |-> w]
      /\ ~m_call.resumed
         => WholeCard(was) /\ Manual!Digest(was) = Manual!Digest(s) /\ was.gen = c.gen
  BY <1>2, Zenon DEF ExitFits
<1>4. CardAt(w)' /\ m_files'[w] = c
  BY <1>2, <1>3, WholeStays
<1>5. /\ m_call'.original = was /\ m_call'.record = note
      /\ m_call'.resumed = m_call.resumed /\ m_call'.links = m_call.links
      /\ m_call'.request = m_call.request /\ Into' = w
  BY <1>1, <1>2 DEF SameCall, Was, Note
<1>6. m_call'.at \in {"back", "undo", "undo only", "unstage"}
  OBVIOUS
<1>7. ExitFits'
  BY <1>2, <1>3, <1>4, <1>5, <1>6 DEF ExitFits, Was, Note, Forms, CardAt, Lies
<1> QED BY <1>1, <1>6, <1>7 DEF ExitSteps

\* A card out of the manual zone is stamped, or as its entry says.
LEMMA DigestOfForm ==
  ASSUME NEW c, NEW s, NEW w, WholeCard(c), WholeCard(s), Manual!Digest(c) \in Forms(s, w)
  PROVE  /\ c.body = s.body /\ c.gen = s.gen
         /\ c.status # w => Manual!Digest(c) = Manual!Digest(s) /\ c.status = s.status
         /\ c.status \in {s.status, w}
<1>1. WholeCard(Manual!Stamp(s, w)) /\ WholeCard(Manual!Retarget(Manual!Stamp(s, w)))
  BY StampIs, RetargetIs
<1>2. CASE Manual!Digest(c) = Manual!Digest(s)
  BY <1>2, SameDigest
<1>3. CASE Manual!Digest(c) = Manual!Digest(Manual!Stamp(s, w))
  BY <1>1, <1>3, SameDigest, StampIs
<1>4. CASE Manual!Digest(c) = Manual!Digest(Manual!Retarget(Manual!Stamp(s, w)))
  BY <1>1, <1>4, SameDigest, StampIs, RetargetIs
<1> QED BY <1>2, <1>3, <1>4 DEF Forms

\* An undisturbed entry turns back at a step.
LEMMA EnterUndoesCalm ==
  ASSUME EnterFits, EnterCalm, Enters, SameCall,
         UNCHANGED <<m_files, m_inbound, m_entry, m_close, m_partial, m_receipt>>,
         \/ m_call'.at = "back" /\ m_call.at \in {"stamp", "outbound"} /\ ~m_call.resumed
         \/ /\ m_call'.at \in {"undo", "undo only"}
               /\ m_call.at \in {"inbound", "record", "publish"}
            /\ (m_call'.at = "undo") <=> ~m_call.resumed
  PROVE  EnterCalm'
<1>1. /\ Fresh /\ Out = "todo" /\ Was.status = "todo"
      /\ Fresh' /\ Out' = "todo" /\ Was'.status = "todo"
  BY DEF EnterCalm, Fresh, Out, Was, SameCall
<1>2. Note' = Note /\ m_call'.links = m_call.links /\ m_call'.resumed = m_call.resumed
      /\ m_inbound' = m_inbound /\ (Baseline <=> Baseline') /\ (Ready <=> Ready')
  BY CalmKept DEF SameCall, Note
<1>3. m_call.at \in {"stamp", "outbound"} => Note = None
  BY DEF EnterFits
<1>4. m_call.at \in {"inbound", "stamp", "outbound"} => ~m_call.links /\ Note = None
  BY DEF EnterFits
<1>5. m_call.at \in {"stamp", "outbound", "inbound", "record", "publish"}
  OBVIOUS
<1>6. IF Note = None THEN Baseline ELSE m_call.at = "publish" => Ready
  BY <1>5 DEF EnterCalm
<1>7. Note # None => m_call.at = "publish"
  BY <1>5 DEF EnterFits
<1>8. /\ m_call.at \in {"stamp", "outbound", "inbound"} /\ ~m_call.resumed => m_inbound = "todo"
      /\ m_call.at \in {"record", "publish"}
         => m_inbound = "manual" /\ (~m_call.resumed => m_call.links)
  BY DEF EnterCalm
<1>9. CASE m_call'.at = "back"
  BY <1>1, <1>2, <1>3, <1>6, <1>8, <1>9 DEF EnterCalm
<1>10. CASE m_call'.at = "undo"
  BY <1>1, <1>2, <1>4, <1>6, <1>7, <1>8, <1>10 DEF EnterCalm
<1>11. CASE m_call'.at = "undo only"
  BY <1>1, <1>2, <1>6, <1>7, <1>11 DEF EnterCalm
<1> QED BY <1>9, <1>10, <1>11

\* An undisturbed exit turns back at a step.
LEMMA ExitUndoesCalm ==
  ASSUME Recorded, ExitFits, ExitCalm, Exits, SameCall,
         UNCHANGED <<m_files, m_inbound, m_entry, m_close, m_partial, m_receipt>>,
         \/ m_call'.at = "back" /\ m_call.at = "outbound" /\ ~m_call.resumed
         \/ m_call'.at = "undo" /\ m_call.at \in {"inbound", "publish"} /\ ~m_call.resumed
         \/ m_call'.at = "undo only" /\ m_call.at = "inbound" /\ m_call.resumed
         \/ m_call'.at = "unstage" /\ m_call.at = "stamp" /\ m_files[Into].status # Into
  PROVE  ExitCalm'
<1>1. PICK w, c, g, s, note, id : w = Into /\ c = m_files[w] /\ note = Note /\ g = note.gen
            /\ s = m_entry[g].subject /\ id = m_call.request.id
  OBVIOUS
<1>2. /\ Into' = w /\ m_files'[w] = c /\ Note' = note /\ m_entry'[g].subject = s
      /\ m_call'.request.id = id /\ m_call'.resumed = m_call.resumed /\ m_call'.links = m_call.links
      /\ m_inbound' = m_inbound /\ Was' = Was
      /\ (Leaving(w) <=> Leaving(w)') /\ (Proper(w) <=> Proper(w)') /\ (Unowned(g, id)
         <=> Unowned(g, id)')
  BY <1>1, CalmKept, UnownedKept DEF SameCall, Note, Into, Was
<1>3. m_call.at \in {"stamp", "outbound", "inbound", "publish"}
  OBVIOUS
<1>4. /\ \/ Leaving(w) /\ Unowned(g, id)
         \/ Proper(w) /\ m_call.resumed
      /\ ~m_call.resumed => s.status = "manual" /\ Was.status = "manual"
      /\ m_call.at \in {"stamp", "outbound", "inbound"} /\ ~m_call.resumed => m_inbound = "manual"
      /\ m_call.at = "publish" => m_inbound = w /\ (~m_call.resumed => m_call.links)
  BY <1>1, <1>3 DEF ExitCalm
<1>5. m_call.at \in {"stamp", "inbound"} => ~m_call.links
  BY DEF ExitFits
<1>6. CASE m_call'.at = "back"
  BY <1>1, <1>2, <1>4, <1>6 DEF ExitCalm
<1>7. CASE m_call'.at = "undo"
  BY <1>1, <1>2, <1>4, <1>5, <1>7 DEF ExitCalm
<1>8. CASE m_call'.at = "undo only"
  BY <1>1, <1>2, <1>4, <1>8 DEF ExitCalm
<1>9. CASE m_call'.at = "unstage"
  <2>1. c.status # w /\ m_call.at = "stamp"
    BY <1>1, <1>9
  <2>2. Leaving(w) /\ Unowned(g, id)
    BY <1>1, <1>4, <2>1 DEF Proper
  <2>3. c.gen = g
    BY <1>1, <2>1, ExitNote
  <2>4. /\ CardAt(w) /\ WholeCard(c) /\ s.status = "manual" /\ g \in DOMAIN m_entry
        /\ Manual!Digest(c) \in Forms(s, w) /\ (c.status = "manual" => m_inbound = "manual")
    BY <1>1, <2>2, <2>3 DEF Leaving, CardAt, Forms
  <2>5. WholeCard(s)
    BY <1>1, <2>4 DEF Recorded, IsEntry
  <2>6. Manual!Digest(c) = Manual!Digest(s) /\ m_inbound = "manual"
    BY <2>1, <2>4, <2>5, DigestOfForm
  <2> QED BY <1>1, <1>2, <1>4, <1>9, <2>2, <2>6 DEF ExitCalm
<1> QED BY <1>6, <1>7, <1>8, <1>9

\* Where a failing step leads.
FailTarget == IF m_call.resumed THEN Manual!AgainGoes ELSE Manual!FirstGoes

Fails(p) ==
  /\ p \in {"undo", "undo only", "unstage", "back", "refuse"}
  /\ p = "refuse" /\ ~m_call.resumed => m_call.at = "move"
  /\ m_call.request.kind = "enter" /\ p # "refuse" =>
       \/ p = "back" /\ m_call.at \in {"stamp", "outbound"} /\ ~m_call.resumed
       \/ p = "undo" /\ m_call.at \in {"inbound", "record", "publish"} /\ ~m_call.resumed
       \/ p = "undo only" /\ m_call.at \in {"inbound", "record", "publish"} /\ m_call.resumed
  /\ m_call.request.kind = "exit" /\ p # "refuse" /\ m_call.at # "record" =>
       \/ p = "back" /\ m_call.at = "outbound" /\ ~m_call.resumed
       \/ p = "undo" /\ m_call.at \in {"inbound", "publish"} /\ ~m_call.resumed
       \/ p = "undo only" /\ m_call.at = "inbound" /\ m_call.resumed
       \/ p = "unstage" /\ m_call.at = "stamp"

\* Where a failed step goes on.
LEMMA FailsTo ==
  ASSUME m_call.resumed \in BOOLEAN,
         m_call.at \in {"move", "stamp", "outbound", "inbound", "record", "publish"},
         NEW p, p = FailTarget
  PROVE  Fails(p)
<1>1. CASE m_call.resumed
  <2>1. p = Manual!AgainGoes
    BY <1>1 DEF FailTarget
  <2> QED BY <1>1, <2>1 DEF Manual!AgainGoes, Manual!At, Manual!q, Fails
<1>2. CASE ~m_call.resumed
  <2>1. p = Manual!FirstGoes
    BY <1>2 DEF FailTarget
  <2> QED BY <1>2, <2>1 DEF Manual!FirstGoes, Manual!At, Manual!q, Fails
<1> QED BY <1>1, <1>2

\* A step fails and the call turns back (manual_apply.go).
LEMMA StepFailsStep ==
  ASSUME ManualParameters, ManualInv, Manual!StepFails
  PROVE  ManualInv'
<1>1. m_call.at \in {"move", "stamp", "outbound", "inbound", "record", "publish"} /\ Manual!Needed
  BY DEF Manual!StepFails
<1>2. /\ UNCHANGED <<m_files, m_inbound, m_entry, m_close, m_partial, m_receipt, m_unanswered,
         m_told>>
      /\ m_seen' = [m_seen EXCEPT !.stops = @ + 1]
  BY DEF Manual!StepFails
<1>3. SeenTyped' /\ m_seen'.body = m_seen.body /\ (Undisturbed' => Undisturbed)
  BY <1>2 DEF ManualInv, Data, SeenTyped, Undisturbed
<1>4. PICK p : p = FailTarget
  OBVIOUS
<1>5. m_call' = [m_call EXCEPT !.at = p, !.wrote = None]
  BY <1>4, Zenon DEF Manual!StepFails, Manual!Goes, FailTarget
<1>6. /\ m_call.resumed \in BOOLEAN /\ StepFits /\ CallTyped /\ Requests /\ Recorded
      /\ (Undisturbed => StepCalm) /\ m_call.at # "idle"
  BY <1>1 DEF ManualInv, CallTyped, Data
<1>7. Fails(p)
  BY <1>1, <1>4, <1>6, FailsTo
<1>8. SameCall /\ m_call'.at = p /\ p # "idle"
  BY <1>5, <1>6, <1>7, GoesIs DEF SameCall, Fails
<1>9. m_call.at # "record"
        => m_call.at \in EnterSteps /\ m_call.at \in ExitSteps /\ (Enters \/ Exits)
  BY <1>1, <1>6, EntriesOrExits
<1>10. m_call.at = "record" => Enters /\ m_call.at \in EnterSteps
  BY <1>6, OnlyEntries DEF EnterSteps
<1>11. StepFits' /\ (Undisturbed' => StepCalm')
  <2>1. CASE p = "refuse"
    <3>1. \E w : CardAt(w)
      BY <1>6, <1>9, <1>10, StepsOfEntry, StepsOfExit DEF EnterFits, ExitFits
    <3>2. StepFits'
      BY <1>2, <1>8, <2>1, <3>1, WholeStays, RefuseFitsThen
    <3>3. ASSUME Undisturbed' PROVE StepCalm'
      <4>1. StepCalm
        BY <1>3, <1>6, <3>3
      <4>2. Well(Asked)
        BY <1>1, <4>1, StoppedIsWell DEF ManualInv
      <4>3. CASE m_call.resumed
        <5>1. PICK a : a = Asked
          OBVIOUS
        <5>2. Well(a)'
          BY <1>2, <4>2, <5>1, WellKept
        <5>3. Asked' = a
          BY <1>2, <1>6, <1>8, <2>1, <5>1 DEF Asked, SameCall
        <5>4. Well(IF m_call.resumed THEN Asked ELSE m_unanswered \ {m_call.request})'
          BY <4>3, <5>2, <5>3, <1>8 DEF SameCall, Well, Entering, Exiting, Reissuing
        <5> QED BY <1>8, <2>1, <5>4, RefuseCalmThen
      <4>4. CASE ~m_call.resumed
        <5>1. m_call.at = "move"
          BY <1>7, <2>1, <4>4 DEF Fails
        <5>2. \E w \in Manual!Zone : Proper(w)
          BY <1>6, <1>9, <4>1, <5>1, StepsOfEntry, StepsOfExit DEF EnterCalm, ExitCalm, Manual!Zone
        <5>3. (\E w \in Manual!Zone : Proper(w))'
          BY <1>2, <5>2, CalmKept DEF Manual!Zone
        <5> QED BY <1>8, <2>1, <5>3, RefuseCalmThen DEF Well
      <4> QED BY <1>6, <4>3, <4>4
    <3> QED BY <3>2, <3>3
  <2>2. CASE p # "refuse" /\ Enters
    <3>1. m_call.request.kind = "enter" /\ m_call.at \in EnterSteps /\ m_call.at # "idle"
      BY <1>9, <1>10, <2>2, <1>6 DEF Enters, IsEnter
    <3>2. EnterFits /\ (StepCalm => EnterCalm)
      BY <1>6, <2>2, <3>1, StepsOfEntry
    <3>3. \/ p = "back" /\ m_call.at \in {"stamp", "outbound"} /\ ~m_call.resumed
          \/ /\ p \in {"undo", "undo only"} /\ m_call.at \in {"inbound", "record", "publish"}
             /\ (p = "undo") <=> ~m_call.resumed
      BY <1>7, <2>2, <3>1, <1>6 DEF Fails
    <3>4. EnterFits' /\ Enters' /\ m_call'.at \in EnterSteps
      BY <1>1, <1>2, <1>8, <2>2, <3>2, <3>3, EnterUndoes
    <3>5. StepCalm => EnterCalm'
      BY <1>1, <1>2, <1>8, <2>2, <3>2, <3>3, EnterUndoesCalm
    <3> QED BY <1>3, <1>6, <3>4, <3>5, EnterFitsThen, EnterCalmThen
  <2>3. CASE p # "refuse" /\ Exits
    <3>1. m_call.request.kind = "exit" /\ m_call.at \in ExitSteps /\ m_call.at # "record"
      BY <1>9, <1>10, <2>3, <1>6, KindsDiffer DEF Exits, IsExit, Enters
    <3>2. ExitFits /\ (StepCalm => ExitCalm)
      BY <1>6, <2>3, <3>1, StepsOfExit
    <3>3. \/ p = "back" /\ m_call.at = "outbound" /\ ~m_call.resumed
          \/ p = "undo" /\ m_call.at \in {"inbound", "publish"} /\ ~m_call.resumed
          \/ p = "undo only" /\ m_call.at = "inbound" /\ m_call.resumed
          \/ p = "unstage" /\ m_call.at = "stamp"
      BY <1>7, <2>3, <3>1, <1>6 DEF Fails
    <3>4. m_call.at \in {"stamp", "inbound"} => ~m_call.links
      BY <3>2 DEF ExitFits
    <3>5. ExitFits' /\ Exits' /\ m_call'.at \in ExitSteps
      BY <1>1, <1>2, <1>8, <2>3, <3>2, <3>3, <3>4, ExitUndoes
    <3>6. p = "unstage" => m_files[Into].status # Into
      <4>1. CASE m_call.at = "stamp"
        <5>1. m_files[Into] # Manual!Stamp(m_files[Into], Into)
          BY <1>1, <4>1 DEF Manual!Needed, Manual!At, Manual!Now, Manual!q, Into
        <5>2. WholeCard(m_files[Into])
          BY <3>2, <4>1 DEF ExitFits, CardAt
        <5>3. ASSUME m_files[Into].status = Into PROVE FALSE
          BY <5>1, <5>2, <5>3, StampIs, SameCard
        <5> QED BY <5>3
      <4> QED BY <3>3, <4>1
    <3>7. StepCalm => ExitCalm'
      BY <1>1, <1>2, <1>6, <1>8, <2>3, <3>2, <3>3, <3>6, ExitUndoesCalm
    <3> QED BY <1>3, <1>6, <3>5, <3>7, ExitFitsThen, ExitCalmThen
  <2> QED BY <1>9, <1>10, <2>1, <2>2, <2>3
<1> QED BY <1>2, <1>3, <1>5, <1>6, <1>8, <1>11, GoesStep

-----------------------------------------------------------------------------
(* Links taken back.                                                       *)

\* The links of others go back.
LEMMA UndoLinksStep ==
  ASSUME ManualParameters, ManualInv, Manual!UndoLinks
  PROVE  ManualInv'
<1>1. /\ m_call.at \in {"undo", "undo only"}
      /\ UNCHANGED <<m_files, m_partial, m_receipt, m_unanswered, m_told, m_entry, m_close>>
      /\ m_inbound' = IF m_call.links THEN Out ELSE m_inbound
  BY DEF Manual!UndoLinks, Manual!Evidence, Manual!At, Manual!q, Out
<1>2. PICK p : p = IF m_call.at = "undo" THEN "back" ELSE "refuse"
  OBVIOUS
<1>3. m_call' = [m_call EXCEPT !.at = p, !.wrote = None]
  BY <1>2 DEF Manual!UndoLinks, Manual!Goes, Manual!At
<1>4. PICK u \in BOOLEAN : u = (m_seen.undone \/ (m_call.at = "undo only" /\ Manual!Unlinks))
  OBVIOUS
<1>5. m_seen' = [m_seen EXCEPT !.undone = u]
  BY <1>4 DEF Manual!UndoLinks, Manual!At
<1>6. /\ SeenTyped' /\ m_seen'.body = m_seen.body
      /\ (Undisturbed' => Undisturbed /\ ~(m_call.at = "undo only" /\ Manual!Unlinks))
  BY <1>4, <1>5 DEF ManualInv, Data, SeenTyped, Undisturbed
<1>7. /\ m_call.resumed \in BOOLEAN /\ StepFits /\ CallTyped /\ Requests /\ Recorded
      /\ (Undisturbed => StepCalm) /\ m_call.at # "idle" /\ p # "idle"
  BY <1>1, <1>2 DEF ManualInv, CallTyped, Data
<1>8. SameCall /\ m_call'.at = p
  BY <1>3, <1>7, GoesIs DEF SameCall
<1>9. m_call.at \in EnterSteps /\ m_call.at \in ExitSteps /\ (Enters \/ Exits)
  BY <1>1, <1>7, EntriesOrExits
<1>10. PICK a : a = Asked
  OBVIOUS
<1>11. Asked' = a
  BY <1>1, <1>7, <1>8, <1>10 DEF Asked, SameCall
<1>12. StepFits' /\ (Undisturbed' => StepCalm')
  <2>1. CASE Enters
    <3>1. EnterFits /\ (StepCalm => EnterCalm)
      BY <1>7, <1>9, <2>1, StepsOfEntry
    <3>2. (m_call.at = "undo") <=> ~m_call.resumed
      BY <1>1, <3>1 DEF EnterFits
    <3>3. StepCalm => Fresh /\ Out = "todo" /\ Was.status = "todo"
      BY <3>1 DEF EnterCalm
    <3>4. StepCalm => IF Note = None THEN Baseline ELSE Ready
      BY <1>1, <3>1 DEF EnterCalm
    <3>5. Baseline /\ m_inbound' \in {m_inbound, "todo"} => Baseline'
      BY <1>1 DEF Baseline, CardAt, Lies, Manual!Zone, Fresh
    <3>6. CASE m_call.at = "undo"
      <4>1. EnterFits' /\ Enters' /\ m_call'.at \in EnterSteps
        BY <1>1, <1>2, <1>8, <2>1, <3>1, <3>2, <3>6, EnterUndoes
      <4>2. ASSUME StepCalm PROVE EnterCalm'
        <5>1. /\ m_inbound = IF m_call.links THEN "manual" ELSE "todo"
              /\ Note # None => m_call.links
          BY <1>1, <3>1, <3>6, <4>2 DEF EnterCalm
        <5>2. m_inbound' = "todo"
          BY <1>1, <3>3, <4>2, <5>1
        <5>3. Note' = Note /\ Was' = Was /\ Out' = Out /\ (Fresh' <=> Fresh)
              /\ m_call'.links = m_call.links /\ m_call'.resumed = m_call.resumed
          BY <1>1, <1>8 DEF SameCall, Note, Was, Out, Fresh
        <5>4. m_call'.at = "back"
          BY <1>2, <1>8, <3>6
        <5> QED BY <3>3, <3>4, <3>5, <4>2, <5>1, <5>2, <5>3, <5>4 DEF EnterCalm
      <4> QED BY <1>6, <1>7, <4>1, <4>2, EnterFitsThen, EnterCalmThen
    <3>7. CASE m_call.at = "undo only"
      <4>1. m_call'.at = "refuse" /\ m_call'.resumed
        BY <1>2, <1>8, <3>2, <3>7, <1>7 DEF SameCall
      <4>2. CardAt("manual")'
        BY <1>1, <3>1, <3>7, WholeStays DEF EnterFits
      <4>3. ASSUME Undisturbed' PROVE StepCalm'
        <5>1. StepCalm /\ ~Manual!Unlinks
          BY <1>6, <1>7, <3>7, <4>3
        <5>2. Note = None \/ ~m_call.links
          BY <2>1, <5>1 DEF Manual!Unlinks, Manual!q, Note, Enters, IsEnter
        <5>3. Ready /\ ~m_call.links => Ready'
          BY <1>1 DEF Ready, CardAt, Lies, Manual!Zone, Fresh
        <5>4. Baseline' \/ Ready'
          BY <1>1, <3>3, <3>4, <3>5, <5>1, <5>2, <5>3
        <5>5. EnterTodo \in a
          BY <1>7, <1>10, <2>1, <3>3, <5>1, AskedEntry
        <5>6. Well(IF m_call.resumed THEN Asked ELSE m_unanswered \ {m_call.request})'
          BY <1>11, <4>1, <5>4, <5>5 DEF Well, Entering
        <5> QED BY <4>1, <5>6, RefuseCalmThen
      <4> QED BY <4>1, <4>2, <4>3, RefuseFitsThen
    <3> QED BY <1>1, <3>6, <3>7
  <2>2. CASE Exits
    <3>1. ExitFits /\ (StepCalm => ExitCalm)
      BY <1>7, <1>9, <2>2, StepsOfExit
    <3>2. (m_call.at = "undo" => ~m_call.resumed) /\ (m_call.at = "undo only"
            => m_call.resumed /\ ~m_call.links)
      BY <3>1 DEF ExitFits
    <3>3. CASE m_call.at = "undo"
      <4>1. ExitFits' /\ Exits' /\ m_call'.at \in ExitSteps
        BY <1>1, <1>2, <1>8, <2>2, <3>1, <3>2, <3>3, ExitUndoes
      <4>2. ASSUME StepCalm PROVE ExitCalm'
        <5>1. PICK w, g, id, s : w = Into /\ g = Note.gen /\ id = m_call.request.id
                /\ s = m_entry[g].subject
          OBVIOUS
        <5>2. /\ Leaving(w) /\ Unowned(g, id) /\ s.status = "manual" /\ Was.status = "manual"
              /\ m_inbound = IF m_call.links THEN w ELSE "manual"
          BY <3>1, <3>2, <3>3, <4>2, <5>1 DEF ExitCalm
        <5>3. Out = "manual"
          BY <2>2 DEF Exits, IsExit, Out
        <5>4. m_inbound' = "manual"
          BY <1>1, <5>2, <5>3
        <5>5. Leaving(w)'
          BY <1>1, <5>2, <5>4 DEF Leaving, CardAt, Lies, Manual!Zone
        <5>6. Unowned(g, id)'
          BY <1>1, <5>2, UnownedKept
        <5>7. Note' = Note /\ Was' = Was /\ Into' = w /\ m_call'.request.id = id
              /\ m_call'.resumed = m_call.resumed /\ m_call'.at = "back" /\ m_entry' = m_entry
          BY <1>1, <1>2, <1>8, <3>3, <5>1 DEF SameCall, Note, Was, Into
        <5> QED BY <3>2, <3>3, <5>1, <5>2, <5>4, <5>5, <5>6, <5>7 DEF ExitCalm
      <4> QED BY <1>6, <1>7, <4>1, <4>2, ExitFitsThen, ExitCalmThen
    <3>4. CASE m_call.at = "undo only"
      <4>1. m_call'.at = "refuse" /\ m_call'.resumed
        BY <1>2, <1>8, <3>2, <3>4 DEF SameCall
      <4>2. PICK w : w = Into /\ CardAt(w)
        BY <3>1, <3>4 DEF ExitFits
      <4>3. CardAt(w)'
        BY <1>1, <4>2, WholeStays
      <4>4. ASSUME Undisturbed' PROVE StepCalm'
        <5>1. StepCalm
          BY <1>6, <1>7, <4>4
        <5>2. Well(a)
          BY <1>7, <1>9, <1>10, <2>2, <3>1, <3>4, <5>1, ExitIsWell
        <5>3. m_inbound' = m_inbound
          BY <1>1, <3>2, <3>4
        <5>4. Well(a)'
          BY <1>1, <5>2, <5>3, WellKept
        <5>5. Well(IF m_call.resumed THEN Asked ELSE m_unanswered \ {m_call.request})'
          BY <1>11, <4>1, <5>4 DEF Well, Entering, Exiting, Reissuing
        <5> QED BY <4>1, <5>5, RefuseCalmThen
      <4> QED BY <4>1, <4>3, <4>4, RefuseFitsThen
    <3> QED BY <1>1, <3>3, <3>4
  <2> QED BY <1>9, <2>1, <2>2
<1> QED BY <1>1, <1>3, <1>6, <1>7, <1>12, GoesStep

-----------------------------------------------------------------------------
(* The card is moved.                                                      *)

-----------------------------------------------------------------------------
\* The card's file is moved or written.

\* The card is in its new zone.
LEMMA MovedIs ==
  ASSUME ManualParameters, NEW v, NEW w, CardAt(v), w \in Manual!Zone, v # w,
         \/ m_files' = [m_files EXCEPT ![v] = None, ![w] = m_files[v]]
  PROVE  CardAt(w)' /\ m_files'[w] = m_files[v]
<1>1. v \in Manual!Zone /\ m_files[v] \notin {None, Torn} /\ WholeCard(m_files[v])
  BY CardOnly
<1>2. m_files = [z \in Manual!Zone |-> IF z = v THEN m_files[v] ELSE None]
  BY DEF CardAt, Lies
<1>3. PICK c : c = m_files[v]
  OBVIOUS
<1>4. m_files' = [z \in Manual!Zone |-> IF z = w THEN c ELSE None]
  BY <1>1, <1>2, <1>3
<1>5. m_files'[w] = c
  BY <1>4
<1> QED BY <1>1, <1>3, <1>4, <1>5 DEF CardAt, Lies

\* The card has its new contents.
LEMMA WrittenIs ==
  ASSUME ManualParameters, NEW w, CardAt(w), NEW d, WholeCard(d),
         m_files' = [m_files EXCEPT ![w] = d]
  PROVE  CardAt(w)' /\ m_files'[w] = d
BY CardIsCard DEF CardAt, Lies

\* The data, where the card moves or is rewritten.
LEMMA DataMoved ==
  ASSUME Data, NEW v, CardAt(v), NEW w, CardAt(w)', m_files'[w].gen = m_files[v].gen,
         Fresh => w \in {"todo", "manual"}, Recorded',
         UNCHANGED <<m_entry, m_close, m_told, m_seen>>
  PROVE  Data'
<1>1. \A z \in Manual!Zone : z # w => ~CardAt(z)'
  BY DEF CardAt, Lies
<1>2. v \in Manual!Zone /\ (w \in Manual!Zone)
  BY DEF CardAt, Lies, Manual!Zone
<1>3. Told'
  BY ToldKept DEF Data
<1>4. Descends'
  <2>1. \A z \in Manual!Zone : CardAt(z)' => z = w
    BY <1>1
  <2>2. /\ m_files[v].gen # << >> => m_files[v].gen[2] \in DOMAIN m_entry
        /\ \A g \in DOMAIN m_entry : g # << >> => g[2] # m_files[v].gen
    BY <1>2 DEF Data, Descends
  <2> QED BY <2>1, <2>2 DEF Data, Descends
<1>5. FirstEntry'
  BY DEF FirstEntry, Fresh, CardAt
<1>6. SeenTyped'
  BY SeenKept
<1> QED BY <1>2, <1>3, <1>4, <1>5, <1>6 DEF Data, CardAt, Manual!Zone

\* The copies, where the evidence stays.
LEMMA CopiesKept ==
  ASSUME UNCHANGED <<m_entry, m_partial>>
  PROVE  Copies' = Copies
BY DEF Copies, Manual!IsRecord, Manual!IsCard

\* The evidence holds the text while a call works on the card.
LEMMA EntryCopies ==
  ASSUME ManualParameters, EnterFits, NEW w, CardAt(w),
         w = IF m_call.at \in {"move", "restore"} THEN Out ELSE "manual"
  PROVE  m_files[w].body \in Copies
<1>1. PICK c, was, note, x : c = m_files[w] /\ was = Was /\ note = Note /\ x = Spot(c.gen)
  OBVIOUS
<1>2. /\ WholeCard(was) /\ was.body = c.body /\ x \in DOMAIN m_partial
      /\ IF note = None THEN m_partial[x] = was ELSE m_partial[x] = note
      /\ note # None => IsEntry(c.gen, note) /\ note.subject.body = c.body
  BY <1>1 DEF EnterFits, Staging, Was, Note
<1>3. CASE note = None
  <2>1. Manual!IsCard(m_partial[x]) /\ "body" \in DOMAIN m_partial[x] /\ m_partial[x].body = c.body
    BY <1>2, <1>3, CardIsCard DEF WholeCard
  <2> QED BY <1>1, <1>2, <2>1 DEF Copies
<1>4. CASE note # None
  <2>1. Manual!IsRecord(m_partial[x]) /\ m_partial[x].subject.body = c.body
    BY <1>2, <1>4, EntryIsRecord
  <2> QED BY <1>1, <1>2, <2>1 DEF Copies
<1> QED BY <1>3, <1>4

\* An exit's text is in its entry's record.
LEMMA ExitCopies ==
  ASSUME Recorded, ExitFits, NEW w, CardAt(w),
         w = IF m_call.at \in {"move", "restore"} THEN "manual" ELSE Into
  PROVE  m_files[w].body \in Copies
<1>1. PICK c, s : c = m_files[w] /\ s = m_entry[c.gen].subject
  OBVIOUS
<1>2. c.gen \in DOMAIN m_entry /\ Manual!Digest(c) \in Forms(s, Into)
  BY <1>1 DEF ExitFits
<1>3. WholeCard(c) /\ WholeCard(s)
  BY <1>1, <1>2 DEF Recorded, IsEntry, CardAt
<1>4. c.body = s.body
  BY <1>2, <1>3, DigestOfForm
<1> QED BY <1>1, <1>2, <1>4 DEF Copies

\* A call that goes on after it has moved or written the card.
LEMMA CardStep ==
  ASSUME ManualParameters, ManualInv, NEW p, p # "idle", m_call.at # "idle", NEW wrote,
         m_call' = [m_call EXCEPT !.at = p, !.wrote = wrote],
         NEW v, CardAt(v), NEW w, CardAt(w)', m_files'[w].gen = m_files[v].gen,
         m_files'[w].body = m_files[v].body,
         Fresh => w \in {"todo", "manual"},
         wrote # None => wrote = <<"card", w>> /\ m_files[v].body \in Copies,
         UNCHANGED <<m_entry, m_close, m_partial, m_unanswered, m_told, m_seen>>,
         StepFits', Undisturbed => StepCalm'
  PROVE  ManualInv'
<1>1. CallTyped' /\ m_call'.at = p /\ m_call'.request = m_call.request /\ m_call'.wrote = wrote
  BY GoesIs DEF ManualInv
<1>2. Data'
  BY DataMoved, RecordedKept DEF ManualInv, Data
<1>3. WroteFits'
  BY <1>1 DEF WroteFits, CardAt, Lies, Manual!Zone
<1>4. m_files[v].body = m_seen.body /\ m_seen'.body = m_seen.body
  BY CardOnly DEF ManualInv, Copied
<1>5. WroteCard' => m_seen'.body \in Copies'
  BY <1>1, <1>4, CopiesKept DEF WroteCard
<1>6. Copied'
  BY <1>4, <1>5, CopiedFrom
<1>7. Asked' = Asked /\ (Fresh' <=> Fresh)
  BY <1>1 DEF Asked, Fresh
<1>8. Requests'
  BY <1>7, RequestsKept DEF ManualInv
<1>9. Undisturbed' => Undisturbed
  BY DEF Undisturbed
<1> QED BY <1>1, <1>2, <1>3, <1>6, <1>8, <1>9, AllTogether

\* The card is moved to the zone it is for.
LEMMA MoveCardStep ==
  ASSUME ManualParameters, ManualInv, Manual!MoveCard
  PROVE  ManualInv'
<1>1. /\ m_call.at = "move"
      /\ m_files' = [m_files EXCEPT ![Out] = None, ![Into] = m_files[Out]]
      /\ m_call' = [m_call EXCEPT !.at = "stamp", !.wrote = None]
      /\ UNCHANGED <<m_inbound, m_entry, m_close, m_partial, m_receipt, m_unanswered, m_told,
         m_seen>>
  BY DEF Manual!MoveCard, Manual!Evidence, Manual!Human, Manual!Goes, Manual!At, Manual!Now,
     Manual!q, Out, Into
<1>2. /\ StepFits /\ CallTyped /\ Requests /\ Recorded /\ Data
      /\ (Undisturbed => StepCalm) /\ m_call.at # "idle"
  BY <1>1 DEF ManualInv, Data
<1>3. SameCall /\ m_call'.at = "stamp"
  BY <1>1, <1>2, GoesIs DEF SameCall
<1>4. m_call.at \in EnterSteps /\ m_call.at \in ExitSteps /\ (Enters \/ Exits)
  BY <1>1, <1>2, EntriesOrExits
<1>5. Note' = Note /\ Was' = Was /\ Out' = Out /\ Into' = Into /\ (Fresh' <=> Fresh)
      /\ m_call'.links = m_call.links /\ m_call'.resumed = m_call.resumed
      /\ m_call'.request = m_call.request /\ m_inbound' = m_inbound
  BY <1>1, <1>3 DEF SameCall, Note, Was, Out, Into, Fresh
<1>6. CASE Enters
  <2>1. EnterFits /\ (StepCalm => EnterCalm)
    BY <1>2, <1>4, <1>6, StepsOfEntry
  <2>2. Out \in Manual!Zone /\ Out # "manual" /\ Into = "manual" /\ "manual" \in Manual!Zone
    BY <1>6 DEF Enters, IsEnter, Out, Into, Manual!Zone
  <2>3. PICK v : v = Out
    OBVIOUS
  <2>4. /\ CardAt(v) /\ m_files[v] = Was /\ WholeCard(Was) /\ ~m_call.resumed /\ ~m_call.links
           /\ Note = None
        /\ Was.gen \notin DOMAIN m_entry /\ Spot(Was.gen) \in DOMAIN m_partial
           /\ m_partial[Spot(Was.gen)] = Was
    BY <1>1, <2>1, <2>3 DEF EnterFits, Staging, Note
  <2>5. CardAt("manual")' /\ m_files'["manual"] = Was
    BY <1>1, <2>2, <2>3, <2>4, MovedIs
  <2>6. EnterFits'
    BY <1>1, <1>3, <1>5, <2>4, <2>5 DEF EnterFits, Staging, EntryForms, Note, Was
  <2>7. Enters' /\ m_call'.at \in EnterSteps
    BY <1>3, <1>5, <1>6 DEF Enters, EnterSteps
  <2>8. ASSUME Undisturbed PROVE StepCalm'
    <3>1. /\ Fresh /\ Out = "todo" /\ Was.status = "todo" /\ Proper("todo")
      BY <1>1, <1>2, <2>1, <2>8 DEF EnterCalm
    <3>2. m_inbound = "todo"
      BY <3>1 DEF Proper
    <3>3. Baseline'
      BY <1>1, <1>5, <2>4, <2>5, <3>1, <3>2, CardIsCard DEF Baseline
    <3>4. EnterCalm'
      BY <1>3, <1>5, <2>4, <3>1, <3>2, <3>3 DEF EnterCalm
    <3> QED BY <2>7, <3>4, EnterCalmThen
  <2>9. StepFits'
    BY <2>6, <2>7, EnterFitsThen
  <2> QED BY <1>1, <1>2, <2>4, <2>5, <2>8, <2>9, CardStep
<1>7. CASE Exits
  <2>1. ExitFits /\ (StepCalm => ExitCalm)
    BY <1>2, <1>4, <1>7, StepsOfExit
  <2>2. Out = "manual" /\ Into # "manual" /\ Into \in Manual!Zone
    BY <1>7 DEF Exits, IsExit, Out, Into, Manual!Zone
  <2>3. PICK w, c, s, n : w = Into /\ c = m_files["manual"] /\ s = m_entry[c.gen].subject
          /\ n = Note
    OBVIOUS
  <2>4. /\ CardAt("manual") /\ c.gen \in DOMAIN m_entry /\ ~m_call.resumed /\ ~m_call.links
        /\ Manual!Digest(c) = Manual!Digest(s)
        /\ WholeCard(Was) /\ Manual!Digest(Was) = Manual!Digest(s) /\ Was.gen = c.gen
    BY <1>1, <2>1, <2>3 DEF ExitFits
  <2>5. n = [gen |-> c.gen, digest |-> m_entry[c.gen].digest, req |-> m_call.request.id,
             result |-> n.result, to |-> w]
    BY <1>1, <2>1, <2>3, Zenon DEF ExitFits
  <2>6. CardAt(w)' /\ m_files'[w] = c
    BY <1>1, <2>2, <2>3, <2>4, MovedIs
  <2>7. ExitFits'
    BY <1>1, <1>3, <1>5, <2>3, <2>4, <2>5, <2>6 DEF ExitFits, Forms
  <2>8. Exits' /\ m_call'.at \in ExitSteps
    BY <1>3, <1>5, <1>7 DEF Exits, ExitSteps
  <2>9. ASSUME Undisturbed PROVE StepCalm'
    <3>1. PICK g, id : g = c.gen /\ id = m_call.request.id
      OBVIOUS
    <3>2. n.gen = g
      BY <2>5, <3>1
    <3>3. /\ Proper("manual") /\ Unowned(g, id) /\ g \in DOMAIN m_receipt
          /\ m_receipt[g].digest = m_entry[g].digest
          /\ Manual!Results[m_receipt[g].result] = w
          /\ (~m_call.resumed => m_entry[g].subject.status = "manual" /\ Was.status = "manual")
      BY <1>1, <1>2, <2>1, <2>3, <2>9, <3>1, <3>2 DEF ExitCalm
    <3>4. c.status = "manual" /\ m_inbound = "manual" /\ g \notin DOMAIN m_close
      BY <2>3, <3>1, <3>3 DEF Proper
    <3>5. Leaving(w)'
      BY <1>1, <2>2, <2>3, <2>4, <2>6, <3>1, <3>3, <3>4 DEF Leaving, Exits, IsExit, Manual!Zone
    <3>6. Unowned(g, id)'
      BY <1>1, <3>3, UnownedKept
    <3>7. Note' = n /\ Into' = w /\ m_call'.request.id = id /\ m_entry' = m_entry
      BY <1>1, <1>5, <2>3, <3>1
    <3>8. ExitCalm'
      BY <1>3, <1>5, <2>4, <3>2, <3>3, <3>4, <3>5, <3>6, <3>7 DEF ExitCalm
    <3> QED BY <2>8, <3>8, ExitCalmThen
  <2>10. StepFits'
    BY <2>7, <2>8, ExitFitsThen
  <2>11. ~Fresh
    BY <2>4 DEF Fresh
  <2> QED BY <1>1, <1>2, <2>3, <2>4, <2>6, <2>9, <2>10, <2>11, CardStep
<1> QED BY <1>4, <1>6, <1>7

\* The card is moved back.
LEMMA MoveBackStep ==
  ASSUME ManualParameters, ManualInv, Manual!MoveBack
  PROVE  ManualInv'
<1>0. PICK p : p = IF m_call.resumed THEN "refuse" ELSE "restore"
  OBVIOUS
<1>1. /\ m_call.at = "back"
      /\ m_files' = [m_files EXCEPT ![Into] = None, ![Out] = m_files[Into]]
      /\ m_call' = [m_call EXCEPT !.at = p, !.wrote = None]
      /\ UNCHANGED <<m_inbound, m_entry, m_close, m_partial, m_receipt, m_unanswered, m_told,
         m_seen>>
  BY <1>0 DEF Manual!MoveBack, Manual!Evidence, Manual!Human, Manual!Goes, Manual!At, Manual!Now,
     Manual!q, Out, Into
<1>2. /\ StepFits /\ CallTyped /\ Requests /\ Recorded /\ Data /\ m_call.resumed \in BOOLEAN
      /\ (Undisturbed => StepCalm) /\ m_call.at # "idle" /\ p # "idle"
  BY <1>0, <1>1 DEF ManualInv, Data, CallTyped
<1>3. SameCall /\ m_call'.at = p
  BY <1>1, <1>2, GoesIs DEF SameCall
<1>4. m_call.at \in EnterSteps /\ m_call.at \in ExitSteps /\ (Enters \/ Exits)
  BY <1>1, <1>2, EntriesOrExits
<1>5. Note' = Note /\ Was' = Was /\ Out' = Out /\ Into' = Into /\ (Fresh' <=> Fresh)
      /\ m_call'.links = m_call.links /\ m_call'.resumed = m_call.resumed
      /\ m_call'.request = m_call.request /\ m_inbound' = m_inbound
  BY <1>1, <1>3 DEF SameCall, Note, Was, Out, Into, Fresh
<1>6. CASE Enters
  <2>1. EnterFits /\ (StepCalm => EnterCalm)
    BY <1>2, <1>4, <1>6, StepsOfEntry
  <2>2. Out \in Manual!Zone /\ Out # "manual" /\ Into = "manual" /\ "manual" \in Manual!Zone
    BY <1>6 DEF Enters, IsEnter, Out, Into, Manual!Zone
  <2>3. PICK v, c, was, note : v = Out /\ c = m_files["manual"] /\ was = Was /\ note = Note
    OBVIOUS
  <2>4. /\ CardAt("manual") /\ WholeCard(was) /\ was.gen = c.gen /\ was.body = c.body
        /\ c.gen \notin DOMAIN m_entry /\ ~m_call.resumed
        /\ Spot(c.gen) \in DOMAIN m_partial
        /\ IF note = None THEN m_partial[Spot(c.gen)] = was ELSE m_partial[Spot(c.gen)] = note
        /\ note # None => IsEntry(c.gen, note) /\ note.subject.body = c.body
        /\ c \in {was, Manual!Stamp(was, "manual"), Manual!Settled(was)}
    BY <1>1, <2>1, <2>3 DEF EnterFits, Staging, EntryForms, Note, Was
  <2>5. CardAt(v)' /\ m_files'[v] = c /\ p = "restore"
    BY <1>0, <1>1, <2>2, <2>3, <2>4, MovedIs
  <2>6. EnterFits'
    BY <1>1, <1>3, <1>5, <2>3, <2>4, <2>5 DEF EnterFits, Staging, EntryForms, Note, Was, IsEntry
  <2>7. Enters' /\ m_call'.at \in EnterSteps
    BY <1>3, <1>5, <1>6, <2>5 DEF Enters, EnterSteps
  <2>8. ASSUME Undisturbed PROVE StepCalm'
    <3>1. /\ Fresh /\ Out = "todo" /\ Was.status = "todo" /\ m_inbound = "todo"
      BY <1>1, <1>2, <2>1, <2>8 DEF EnterCalm
    <3>2. EnterCalm'
      BY <1>3, <1>5, <2>5, <3>1 DEF EnterCalm
    <3> QED BY <2>7, <3>2, EnterCalmThen
  <2>9. StepFits'
    BY <2>6, <2>7, EnterFitsThen
  <2>10. Fresh => v = "todo"
    <3>1. m_call.request \in Asked
      BY <1>2, AskedNow
    <3> QED BY <1>2, <1>6, <2>3, <3>1 DEF Requests, Enters, Out
  <2> QED BY <1>1, <1>2, <2>3, <2>4, <2>5, <2>8, <2>9, <2>10, CardStep
<1>7. CASE Exits
  <2>1. ExitFits /\ (StepCalm => ExitCalm)
    BY <1>2, <1>4, <1>7, StepsOfExit
  <2>2. Out = "manual" /\ Into # "manual" /\ Into \in Manual!Zone /\ "manual" \in Manual!Zone
    BY <1>7 DEF Exits, IsExit, Out, Into, Manual!Zone
  <2>3. PICK w, c, s, n : w = Into /\ c = m_files[w] /\ s = m_entry[c.gen].subject /\ n = Note
    OBVIOUS
  <2>4. /\ CardAt(w) /\ c.gen \in DOMAIN m_entry
        /\ Manual!Digest(c) \in Forms(s, w)
        /\ ~m_call.resumed
           => WholeCard(Was) /\ Manual!Digest(Was) = Manual!Digest(s) /\ Was.gen = c.gen
    BY <1>1, <2>1, <2>3 DEF ExitFits
  <2>5. n = [gen |-> c.gen, digest |-> m_entry[c.gen].digest, req |-> m_call.request.id,
             result |-> n.result, to |-> w]
    BY <1>1, <2>1, <2>3, Zenon DEF ExitFits
  <2>6. CardAt("manual")' /\ m_files'["manual"] = c
    BY <1>1, <2>2, <2>3, <2>4, MovedIs
  <2>7. n.gen = c.gen
    BY <2>5
  <2>8. ASSUME StepCalm
        PROVE  /\ Leaving(w) /\ m_inbound = "manual"
               /\ m_call.resumed => Manual!Digest(c) = Manual!Digest(s)
               /\ ~m_call.resumed => s.status = "manual" /\ Was.status = "manual"
    BY <1>1, <2>1, <2>3, <2>7, <2>8 DEF ExitCalm
  <2>9. CASE m_call.resumed
    <3>1. m_call'.at = "refuse"
      BY <1>0, <1>3, <2>9
    <3>2. ASSUME Undisturbed PROVE StepCalm'
      <4>1. /\ Leaving(w) /\ m_inbound = "manual" /\ Manual!Digest(c) = Manual!Digest(s)
        BY <1>2, <2>8, <2>9, <3>2
      <4>2. WholeCard(c) /\ WholeCard(s) /\ m_entry[c.gen].digest = Manual!Digest(s)
        BY <1>2, <2>3, <2>4 DEF Recorded, IsEntry, CardAt
      <4>3. s.status = "manual" /\ c.status = "manual" /\ c.gen \notin DOMAIN m_close
        BY <2>3, <4>1, <4>2, SameDigest DEF Leaving
      <4>4. Proper("manual")'
        BY <1>1, <2>4, <2>6, <4>1, <4>2, <4>3 DEF Proper
      <4> QED BY <3>1, <4>4, RefuseCalmThen DEF Well, Manual!Zone
    <3>3. StepFits'
      BY <3>1, <2>6, RefuseFitsThen
    <3>4. ~Fresh
      BY <2>4 DEF Fresh
    <3> QED BY <1>1, <1>2, <2>3, <2>4, <2>6, <3>2, <3>3, <3>4, CardStep
  <2>10. CASE ~m_call.resumed
    <3>1. m_call'.at = "restore"
      BY <1>0, <1>3, <2>10
    <3>2. ExitFits'
      BY <1>1, <1>5, <2>3, <2>4, <2>5, <2>6, <2>10, <3>1 DEF ExitFits, Forms
    <3>3. Exits' /\ m_call'.at \in ExitSteps
      BY <3>1, <1>5, <1>7 DEF Exits, ExitSteps
    <3>4. ASSUME Undisturbed PROVE StepCalm'
      <4>1. /\ Leaving(w) /\ m_inbound = "manual" /\ s.status = "manual" /\ Was.status = "manual"
        BY <1>2, <2>8, <2>10, <3>4
      <4>2. c.gen \notin DOMAIN m_close
        BY <2>3, <4>1 DEF Leaving
      <4>3. Note'.gen = c.gen /\ m_entry' = m_entry /\ m_close' = m_close
        BY <1>1, <1>5, <2>3, <2>7
      <4>4. ExitCalm'
        BY <1>5, <2>3, <2>10, <3>1, <4>1, <4>2, <4>3 DEF ExitCalm
      <4> QED BY <3>3, <4>4, ExitCalmThen
    <3>5. StepFits'
      BY <3>2, <3>3, ExitFitsThen
    <3>6. ~Fresh
      BY <2>4 DEF Fresh
    <3> QED BY <1>1, <1>2, <2>3, <2>4, <2>6, <3>4, <3>5, <3>6, CardStep
  <2> QED BY <1>2, <2>9, <2>10
<1> QED BY <1>4, <1>6, <1>7

-----------------------------------------------------------------------------
(* The card is rewritten in place.                                         *)

-----------------------------------------------------------------------------
\* A call stamps the card, then retargets its links.

\* An entry writes only forms of the original.
LEMMA EntryWrites ==
  ASSUME NEW was, NEW c, WholeCard(was), WholeCard(c),
         c \in {was, Manual!Stamp(was, "manual"), Manual!Settled(was)}
  PROVE  /\ Manual!Stamp(c, "manual") \in {Manual!Stamp(was, "manual"), Manual!Settled(was)}
         /\ c.status = "manual" => Manual!Retarget(c) = Manual!Settled(was)
<1>1. /\ WholeCard(Manual!Stamp(was, "manual")) /\ WholeCard(Manual!Settled(was))
      /\ WholeCard(Manual!Stamp(c, "manual")) /\ WholeCard(Manual!Retarget(c))
  BY StampIs, RetargetIs, SettledIs
<1>2. CASE c = was
  <2>1. c.status = "manual" => Manual!Retarget(c) = Manual!Settled(was)
    BY <1>1, <1>2, RetargetIs, SettledIs, SameCard
  <2> QED BY <1>2, <2>1
<1>3. CASE c = Manual!Stamp(was, "manual")
  <2>1. Manual!Stamp(c, "manual") = c
    BY <1>1, <1>3, StampIs, SameCard
  <2> QED BY <1>3, <2>1 DEF Manual!Settled
<1>4. CASE c = Manual!Settled(was)
  <2>1. Manual!Stamp(c, "manual") = c
    BY <1>1, <1>4, StampIs, SettledIs, SameCard
  <2>2. Manual!Retarget(c) = c
    BY <1>1, <1>4, RetargetIs, SettledIs, SameCard
  <2> QED BY <1>4, <2>1, <2>2
<1> QED BY <1>2, <1>3, <1>4

\* An exit writes only forms of what was entered.
LEMMA ExitWrites ==
  ASSUME NEW s, NEW c, NEW w, WholeCard(s), WholeCard(c), Manual!Digest(c) \in Forms(s, w)
  PROVE  /\ Manual!Digest(Manual!Stamp(c, w)) \in
              {Manual!Digest(Manual!Stamp(s, w)),
                Manual!Digest(Manual!Retarget(Manual!Stamp(s, w)))}
         /\ c.status = w =>
              Manual!Digest(Manual!Retarget(c)) = Manual!Digest(Manual!Retarget(Manual!Stamp(s, w)))
<1>1. PICK a, b, d, e : /\ a = Manual!Stamp(s, w) /\ b = Manual!Retarget(a)
                        /\ d = Manual!Stamp(c, w) /\ e = Manual!Retarget(c)
  OBVIOUS
<1>2. /\ WholeCard(a) /\ a.body = s.body /\ a.status = w /\ a.links = s.links /\ a.gen = s.gen
      /\ WholeCard(d) /\ d.body = c.body /\ d.status = w /\ d.links = c.links /\ d.gen = c.gen
  BY <1>1, StampIs
<1>3. /\ WholeCard(b) /\ b.body = s.body /\ b.status = w /\ b.links = "far" /\ b.gen = s.gen
      /\ WholeCard(e) /\ e.body = c.body /\ e.status = c.status /\ e.links = "far" /\ e.gen = c.gen
  BY <1>1, <1>2, RetargetIs
<1>4. /\ c.body = s.body /\ c.gen = s.gen
      /\ (c.links = s.links \/ c.links = "far")
  <2>1. Manual!Digest(c) \in {Manual!Digest(s), Manual!Digest(a), Manual!Digest(b)}
    BY <1>1 DEF Forms
  <2> QED BY <1>2, <1>3, <2>1, SameDigest
<1>5. Manual!Digest(d) \in {Manual!Digest(a), Manual!Digest(b)}
  BY <1>2, <1>3, <1>4, SameDigest
<1>6. c.status = w => Manual!Digest(e) = Manual!Digest(b)
  BY <1>2, <1>3, <1>4, SameDigest
<1> QED BY <1>1, <1>5, <1>6

\* A step that rewrites the card in its new zone.
LEMMA CardWritten ==
  ASSUME ManualParameters, ManualInv, NEW p, NEW wrote, NEW d,
         \/ m_call.at = "stamp" /\ p = "outbound" /\ d = Manual!Stamp(m_files[Into], Into)
         \/ m_call.at = "outbound" /\ p = "inbound" /\ d = Manual!Retarget(m_files[Into]),
         m_files' = [m_files EXCEPT ![Into] = d],
         m_call' = [m_call EXCEPT !.at = p, !.wrote = wrote],
         wrote # None => wrote = <<"card", Into>>,
         UNCHANGED <<m_inbound, m_entry, m_close, m_partial, m_receipt, m_unanswered, m_told,
           m_seen>>
  PROVE  ManualInv'
<1>2. /\ StepFits /\ CallTyped /\ Requests /\ Recorded /\ Data /\ p # "idle"
      /\ (Undisturbed => StepCalm) /\ m_call.at # "idle" /\ m_call.at \in {"stamp", "outbound"}
      /\ p \in {"outbound", "inbound"}
  BY DEF ManualInv, Data
<1>3. SameCall /\ m_call'.at = p
  BY <1>2, GoesIs DEF SameCall
<1>4. m_call.at \in EnterSteps /\ m_call.at \in ExitSteps /\ (Enters \/ Exits)
  BY <1>2, EntriesOrExits
<1>5. Note' = Note /\ Was' = Was /\ Out' = Out /\ Into' = Into /\ (Fresh' <=> Fresh)
      /\ m_call'.links = m_call.links /\ m_call'.resumed = m_call.resumed
      /\ m_call'.request = m_call.request /\ m_inbound' = m_inbound
  BY <1>3 DEF SameCall, Note, Was, Out, Into, Fresh
<1>6. CASE Enters
  <2>1. EnterFits /\ (StepCalm => EnterCalm)
    BY <1>2, <1>4, <1>6, StepsOfEntry
  <2>2. Into = "manual" /\ "manual" \in Manual!Zone
    BY <1>6 DEF Enters, IsEnter, Into, Manual!Zone
  <2>3. PICK c, was : c = m_files["manual"] /\ was = Was
    OBVIOUS
  <2>4. /\ CardAt("manual") /\ WholeCard(c) /\ WholeCard(was) /\ was.gen = c.gen
           /\ was.body = c.body
        /\ c.gen \notin DOMAIN m_entry
        /\ Spot(c.gen) \in DOMAIN m_partial /\ m_partial[Spot(c.gen)] = was
        /\ c \in {was, Manual!Stamp(was, "manual"), Manual!Settled(was)}
        /\ ~m_call.links /\ Note = None
        /\ m_call.at = "outbound" => c.status = "manual"
    BY <1>2, <2>1, <2>3 DEF EnterFits, Staging, EntryForms, Note, Was, CardAt
  <2>5. /\ WholeCard(d) /\ d.gen = c.gen /\ d.body = c.body /\ d.status = "manual"
        /\ d \in {Manual!Stamp(was, "manual"), Manual!Settled(was)}
        /\ p = "inbound" => d = Manual!Settled(was)
    <3>1. CASE m_call.at = "stamp"
      BY <2>2, <2>3, <2>4, <3>1, StampIs, EntryWrites
    <3>2. CASE m_call.at = "outbound"
      BY <2>2, <2>3, <2>4, <3>2, RetargetIs, EntryWrites
    <3> QED BY <1>2, <3>1, <3>2
  <2>6. CardAt("manual")' /\ m_files'["manual"] = d
    BY <2>2, <2>4, <2>5, WrittenIs
  <2>7. EnterFits'
    BY <1>2, <1>3, <1>5, <2>3, <2>4, <2>5, <2>6 DEF EnterFits, Staging, EntryForms, Note, Was
  <2>8. Enters' /\ m_call'.at \in EnterSteps
    BY <1>2, <1>3, <1>5, <1>6 DEF Enters, EnterSteps
  <2>9. ASSUME Undisturbed PROVE StepCalm'
    <3>1. /\ Fresh /\ Out = "todo" /\ was.status = "todo" /\ Baseline
          /\ (~m_call.resumed => m_inbound = "todo")
      BY <1>2, <2>1, <2>3, <2>4, <2>9 DEF EnterCalm
    <3>2. m_inbound \in {"todo", "manual"}
      BY <3>1 DEF Baseline
    <3>3. d # was
      BY <2>5, <3>1
    <3>4. Baseline'
      BY <1>5, <2>4, <2>5, <2>6, <3>1, <3>2, <3>3, CardIsCard DEF Baseline
    <3>5. EnterCalm'
      BY <1>2, <1>3, <1>5, <2>3, <2>4, <3>1, <3>4 DEF EnterCalm
    <3> QED BY <2>8, <3>5, EnterCalmThen
  <2>10. StepFits'
    BY <2>7, <2>8, EnterFitsThen
  <2>11. c.body \in Copies
    BY <1>2, <2>1, <2>3, <2>4, EntryCopies
  <2> QED BY <1>2, <2>2, <2>3, <2>4, <2>5, <2>6, <2>9, <2>10, <2>11, CardStep
<1>7. CASE Exits
  <2>1. ExitFits /\ (StepCalm => ExitCalm)
    BY <1>2, <1>4, <1>7, StepsOfExit
  <2>2. Into # "manual" /\ Into \in Manual!Zone
    BY <1>7 DEF Exits, IsExit, Into, Manual!Zone
  <2>3. PICK w, c, s, n : w = Into /\ c = m_files[w] /\ s = m_entry[c.gen].subject /\ n = Note
    OBVIOUS
  <2>4. /\ CardAt(w) /\ c.gen \in DOMAIN m_entry
        /\ Manual!Digest(c) \in Forms(s, w) /\ ~m_call.links
        /\ ~m_call.resumed
           => WholeCard(Was) /\ Manual!Digest(Was) = Manual!Digest(s) /\ Was.gen = c.gen
        /\ m_call.at = "outbound" => c.status = w
    BY <1>2, <2>1, <2>3 DEF ExitFits
  <2>5. n = [gen |-> c.gen, digest |-> m_entry[c.gen].digest, req |-> m_call.request.id,
             result |-> n.result, to |-> w]
    BY <1>2, <2>1, <2>3, Zenon DEF ExitFits
  <2>6. WholeCard(c) /\ WholeCard(s)
    BY <1>2, <2>3, <2>4 DEF Recorded, IsEntry, CardAt
  <2>7. /\ WholeCard(d) /\ d.gen = c.gen /\ d.body = c.body /\ d.status = w
        /\ Manual!Digest(d) \in Forms(s, w)
        /\ p = "inbound" => Manual!Digest(d) = Manual!Digest(Manual!Retarget(Manual!Stamp(s, w)))
    <3>1. CASE m_call.at = "stamp"
      BY <2>3, <2>4, <2>6, <3>1, StampIs, ExitWrites DEF Forms
    <3>2. CASE m_call.at = "outbound"
      BY <2>3, <2>4, <2>6, <3>2, RetargetIs, ExitWrites DEF Forms
    <3> QED BY <1>2, <3>1, <3>2
  <2>8. CardAt(w)' /\ m_files'[w] = d
    BY <2>3, <2>4, <2>7, WrittenIs
  <2>9. n.gen = c.gen
    BY <2>5
  <2>10. ExitFits'
    BY <1>2, <1>3, <1>5, <2>2, <2>3, <2>4, <2>5, <2>7, <2>8 DEF ExitFits, Forms
  <2>11. Exits' /\ m_call'.at \in ExitSteps
    BY <1>2, <1>3, <1>5, <1>7 DEF Exits, ExitSteps
  <2>12. ASSUME Undisturbed PROVE StepCalm'
    <3>1. PICK id : id = m_call.request.id
      OBVIOUS
    <3>2. /\ \/ Leaving(w) /\ Unowned(c.gen, id)
             \/ Proper(w) /\ m_call.resumed
          /\ ~m_call.resumed => s.status = "manual" /\ Was.status = "manual" /\ m_inbound = "manual"
      BY <1>2, <2>1, <2>3, <2>9, <2>12, <3>1 DEF ExitCalm
    <3>3. ASSUME Leaving(w) PROVE Leaving(w)'
      <4>1. m_inbound \in {"manual", w}
        BY <3>3 DEF Leaving
      <4> QED BY <1>5, <2>2, <2>3, <2>4, <2>7, <2>8, <3>3 DEF Leaving, Forms
    <3>4. Unowned(c.gen, id) <=> Unowned(c.gen, id)'
      BY UnownedKept
    <3>5. ASSUME Proper(w) PROVE Proper(w)'
      BY <2>2, <2>3, <2>4, <2>7, <2>8, <3>5 DEF Proper, Fresh
    <3>6. Note' = n /\ Into' = w /\ m_call'.request.id = id /\ m_entry' = m_entry
      BY <1>5, <2>3, <3>1
    <3>7. \/ Leaving(w)' /\ Unowned(c.gen, id)'
          \/ Proper(w)' /\ m_call'.resumed
      BY <1>5, <3>2, <3>3, <3>4, <3>5
    <3>8. ExitCalm'
      BY <1>2, <1>3, <1>5, <2>3, <2>9, <3>2, <3>6, <3>7 DEF ExitCalm
    <3> QED BY <2>11, <3>8, ExitCalmThen
  <2>13. StepFits'
    BY <2>10, <2>11, ExitFitsThen
  <2>14. ~Fresh /\ c.body \in Copies
    BY <1>2, <2>1, <2>3, <2>4, ExitCopies DEF Fresh
  <2>15. /\ m_files'[w].gen = m_files[w].gen /\ m_files'[w].body = m_files[w].body
         /\ (wrote # None => wrote = <<"card", w>> /\ m_files[w].body \in Copies)
         /\ (Fresh => w \in {"todo", "manual"})
    BY <2>3, <2>7, <2>8, <2>14
  <2> QED BY <1>2, <2>4, <2>8, <2>12, <2>13, <2>15, CardStep
<1> QED BY <1>4, <1>6, <1>7

\* The card is stamped with its new status.
LEMMA StampCardStep ==
  ASSUME ManualParameters, ManualInv, Manual!StampCard
  PROVE  ManualInv'
<1>1. PICK wrote, d :
        /\ wrote = (IF m_files' = m_files THEN None ELSE <<"card", Into>>)
        /\ d = Manual!Stamp(m_files[Into], Into)
  OBVIOUS
<1>2. /\ m_call.at = "stamp"
      /\ m_files' = [m_files EXCEPT ![Into] = d]
      /\ m_call' = [m_call EXCEPT !.at = "outbound", !.wrote = wrote]
      /\ UNCHANGED <<m_inbound, m_entry, m_close, m_partial, m_receipt, m_unanswered, m_told,
         m_seen>>
  BY <1>1 DEF Manual!StampCard, Manual!Evidence, Manual!Human, Manual!Wrote, Manual!At, Manual!q,
     Into
<1> QED BY <1>1, <1>2, CardWritten

\* The card's own links are turned.
LEMMA RetargetOutboundStep ==
  ASSUME ManualParameters, ManualInv, Manual!RetargetOutbound
  PROVE  ManualInv'
<1>1. PICK wrote, d :
        /\ wrote = (IF m_files' = m_files THEN None ELSE <<"card", Into>>)
        /\ d = Manual!Retarget(m_files[Into])
  OBVIOUS
<1>2. /\ m_call.at = "outbound"
      /\ m_files' = [m_files EXCEPT ![Into] = d]
      /\ m_call' = [m_call EXCEPT !.at = "inbound", !.wrote = wrote]
      /\ UNCHANGED <<m_inbound, m_entry, m_close, m_partial, m_receipt, m_unanswered, m_told,
         m_seen>>
  BY <1>1 DEF Manual!RetargetOutbound, Manual!Evidence, Manual!Human, Manual!Wrote, Manual!At,
     Manual!q, Into
<1> QED BY <1>1, <1>2, CardWritten

-----------------------------------------------------------------------------
(* Bytes and links restored, links followed, a close record withdrawn.     *)

-----------------------------------------------------------------------------
\* The bytes are restored, the links of others follow, a close is withdrawn.

\* The original bytes are put back.
LEMMA RestoreBytesStep ==
  ASSUME ManualParameters, ManualInv, Manual!RestoreBytes
  PROVE  ManualInv'
<1>1. /\ m_call.at = "restore"
      /\ m_files' = [m_files EXCEPT ![Out] = Was]
      /\ m_call' = [m_call EXCEPT !.at = "refuse", !.wrote = <<"card", Out>>]
      /\ UNCHANGED <<m_inbound, m_entry, m_close, m_partial, m_receipt, m_unanswered, m_told,
         m_seen>>
  BY DEF Manual!RestoreBytes, Manual!Evidence, Manual!Human, Manual!Wrote, Manual!At, Manual!q,
     Out, Was
<1>2. /\ StepFits /\ CallTyped /\ Requests /\ Recorded /\ Data /\ m_call.resumed \in BOOLEAN
      /\ (Undisturbed => StepCalm) /\ m_call.at # "idle"
  BY <1>1 DEF ManualInv, Data, CallTyped
<1>3. m_call'.at = "refuse" /\ m_call'.resumed = m_call.resumed
  BY <1>1, <1>2, GoesIs
<1>4. m_call.at \in EnterSteps /\ m_call.at \in ExitSteps /\ (Enters \/ Exits)
  BY <1>1, <1>2, EntriesOrExits
<1>5. PICK v, c, d : v = Out /\ c = m_files[v] /\ d = Was
  OBVIOUS
<1>6. CASE Enters
  <2>1. EnterFits /\ (StepCalm => EnterCalm)
    BY <1>2, <1>4, <1>6, StepsOfEntry
  <2>2. v \in {"todo", "blocked"}
    BY <1>5, <1>6 DEF Enters, IsEnter, Out
  <2>3. CardAt(v) /\ WholeCard(d) /\ d.gen = c.gen /\ d.body = c.body /\ c.gen \notin DOMAIN m_entry
        /\ ~m_call.resumed
    BY <1>1, <1>5, <2>1 DEF EnterFits
  <2>4. CardAt(v)' /\ m_files'[v] = d
    BY <1>1, <1>5, <2>3, WrittenIs
  <2>5. ASSUME Undisturbed PROVE StepCalm'
    <3>1. /\ Fresh /\ v = "todo" /\ d.status = "todo" /\ m_inbound = "todo"
      BY <1>1, <1>2, <1>5, <2>1, <2>5 DEF EnterCalm
    <3>2. Proper("todo")'
      BY <1>1, <2>3, <2>4, <3>1 DEF Proper, Fresh
    <3> QED BY <1>3, <3>2, RefuseCalmThen DEF Well, Manual!Zone
  <2>6. StepFits'
    BY <1>3, <2>4, RefuseFitsThen
  <2>7. Fresh => v = "todo"
    <3>1. m_call.request \in Asked
      BY <1>2, AskedNow
    <3> QED BY <1>2, <1>5, <1>6, <3>1 DEF Requests, Enters, Out
  <2>8. m_files[v].body \in Copies
    BY <1>1, <1>5, <2>1, <2>3, EntryCopies
  <2> QED BY <1>1, <1>2, <1>5, <2>3, <2>4, <2>5, <2>6, <2>7, <2>8, CardStep
<1>7. CASE Exits
  <2>1. ExitFits /\ (StepCalm => ExitCalm)
    BY <1>2, <1>4, <1>7, StepsOfExit
  <2>2. v = "manual"
    BY <1>5, <1>7 DEF Exits, IsExit, Out
  <2>3. PICK s, n : s = m_entry[c.gen].subject /\ n = Note
    OBVIOUS
  <2>4. /\ CardAt(v) /\ c.gen \in DOMAIN m_entry /\ Manual!Digest(c) \in Forms(s, Into)
        /\ ~m_call.resumed /\ WholeCard(d) /\ Manual!Digest(d) = Manual!Digest(s) /\ d.gen = c.gen
    BY <1>1, <1>5, <2>1, <2>2, <2>3 DEF ExitFits
  <2>5. n.gen = c.gen
    BY <1>1, <1>5, <2>1, <2>2, <2>3, ExitNote
  <2>6. WholeCard(c) /\ WholeCard(s) /\ m_entry[c.gen].digest = Manual!Digest(s)
    BY <1>2, <1>5, <2>3, <2>4 DEF Recorded, IsEntry, CardAt
  <2>7. d.body = c.body
    BY <2>4, <2>6, DigestOfForm, SameDigest
  <2>8. CardAt(v)' /\ m_files'[v] = d
    BY <1>1, <1>5, <2>4, WrittenIs
  <2>9. ASSUME Undisturbed PROVE StepCalm'
    <3>1. /\ m_inbound = "manual" /\ c.gen \notin DOMAIN m_close /\ d.status = "manual"
      BY <1>1, <1>2, <1>5, <2>1, <2>3, <2>4, <2>5, <2>9 DEF ExitCalm
    <3>2. Proper("manual")'
      BY <1>1, <2>2, <2>4, <2>6, <2>8, <3>1 DEF Proper
    <3> QED BY <1>3, <3>2, RefuseCalmThen DEF Well, Manual!Zone
  <2>10. StepFits'
    BY <1>3, <2>8, RefuseFitsThen
  <2>11. ~Fresh /\ c.body \in Copies
    BY <1>1, <1>2, <1>5, <2>1, <2>2, <2>4, ExitCopies DEF Fresh
  <2> QED BY <1>1, <1>2, <1>5, <2>4, <2>7, <2>8, <2>9, <2>10, <2>11, CardStep
<1> QED BY <1>4, <1>6, <1>7

\* The card stays where it is, and so does what the human did.
LEMMA EvidenceStep ==
  ASSUME ManualParameters, ManualInv, NEW w, CardAt(w), UNCHANGED <<m_files, m_seen>>,
         CallTyped', ~WroteCard', WroteFits', Recorded', Descends', Told', Fresh' => Fresh,
         Asked' \subseteq Asked, StepFits', Undisturbed => StepCalm'
  PROVE  ManualInv'
<1>1. CardAt(w)' /\ Lies(w)' /\ w \in Manual!Zone
  BY LiesKept DEF CardAt, Lies
<1>2. FirstEntry'
  BY DEF ManualInv, Data, FirstEntry, Fresh, Lies
<1>3. Data'
  BY <1>1, <1>2, SeenKept DEF ManualInv, Data
<1>4. m_files'[w].body = m_seen'.body
  BY <1>1 DEF ManualInv, Copied
<1>5. Copied'
  BY <1>1, <1>4, CopiedFrom
<1>6. Requests'
  BY RequestsKept DEF ManualInv
<1>7. Undisturbed' => Undisturbed
  BY DEF Undisturbed
<1> QED BY <1>3, <1>5, <1>6, <1>7, AllTogether

\* The call goes on with its links noted.
LEMMA LinkedIs ==
  ASSUME CallTyped, NEW p, p # "idle", NEW b \in BOOLEAN,
         m_call' = [m_call EXCEPT !.at = p, !.links = b, !.wrote = None]
  PROVE  /\ CallTyped' /\ m_call'.at = p /\ m_call'.links = b /\ m_call'.wrote = None
         /\ m_call'.request = m_call.request /\ m_call'.original = m_call.original
         /\ m_call'.record = m_call.record /\ m_call'.resumed = m_call.resumed
BY DEF CallTyped

\* The links to the card follow it.
LEMMA RetargetInboundStep ==
  ASSUME ManualParameters, ManualInv, Manual!RetargetInbound
  PROVE  ManualInv'
<1>0. PICK p, b : /\ p = (IF m_call.request.kind = "enter" THEN "record" ELSE "publish")
                  /\ b \in BOOLEAN /\ b = (m_inbound = Out)
  OBVIOUS
<1>1. /\ m_call.at = "inbound"
      /\ m_inbound' = IF b THEN Into ELSE m_inbound
      /\ m_call' = [m_call EXCEPT !.at = p, !.links = b, !.wrote = None]
      /\ UNCHANGED <<m_files, m_entry, m_close, m_partial, m_receipt, m_unanswered, m_told, m_seen>>
  BY <1>0 DEF Manual!RetargetInbound, Manual!Evidence, Manual!Human, Manual!At, Manual!q, Out, Into
<1>2. /\ StepFits /\ CallTyped /\ Requests /\ Recorded /\ Data /\ m_call.resumed \in BOOLEAN
      /\ (Undisturbed => StepCalm) /\ m_call.at # "idle" /\ p # "idle"
  BY <1>0, <1>1 DEF ManualInv, Data, CallTyped
<1>3. /\ CallTyped' /\ m_call'.at = p /\ m_call'.links = b /\ m_call'.wrote = None
      /\ m_call'.request = m_call.request /\ m_call'.original = m_call.original
      /\ m_call'.record = m_call.record /\ m_call'.resumed = m_call.resumed
  BY <1>0, <1>1, <1>2, LinkedIs
<1>4. m_call.at \in EnterSteps /\ m_call.at \in ExitSteps /\ (Enters \/ Exits)
  BY <1>1, <1>2, EntriesOrExits
<1>5. Note' = Note /\ Was' = Was /\ Out' = Out /\ Into' = Into /\ (Fresh' <=> Fresh)
  BY <1>1, <1>3 DEF Note, Was, Out, Into, Fresh
<1>8. Recorded' /\ Descends' /\ Told' /\ ~WroteCard' /\ WroteFits' /\ Asked' \subseteq Asked
  BY <1>1, <1>2, <1>3, RecordedKept, DescendsKept, ToldKept
  DEF Data, WroteCard, WroteFits, Asked
<1>6. CASE Enters
  <2>0. p = "record"
    BY <1>0, <1>6 DEF Enters, IsEnter
  <2>1. EnterFits /\ (StepCalm => EnterCalm)
    BY <1>2, <1>4, <1>6, StepsOfEntry
  <2>3. PICK c, was : c = m_files["manual"] /\ was = Was
    OBVIOUS
  <2>4. /\ CardAt("manual") /\ WholeCard(was) /\ was.gen = c.gen /\ was.body = c.body
        /\ c.gen \notin DOMAIN m_entry
        /\ Spot(c.gen) \in DOMAIN m_partial /\ m_partial[Spot(c.gen)] = was
        /\ c = Manual!Settled(was) /\ Note = None
    BY <1>1, <2>1, <2>3 DEF EnterFits, Staging, Note, Was
  <2>6. CardAt("manual")' /\ m_files'["manual"] = c
    BY <1>1, <2>3, <2>4, LiesKept
  <2>7. EnterFits'
    BY <1>1, <1>3, <1>5, <2>0, <2>3, <2>4, <2>6 DEF EnterFits, Staging, EntryForms, Note, Was
  <2>8. Enters' /\ m_call'.at \in EnterSteps
    BY <1>3, <1>6, <2>0 DEF Enters, EnterSteps
  <2>9. ASSUME Undisturbed PROVE StepCalm'
    <3>1. /\ Fresh /\ Out = "todo" /\ was.status = "todo" /\ Baseline
          /\ (~m_call.resumed => m_inbound = "todo")
      BY <1>1, <1>2, <2>1, <2>3, <2>4, <2>9 DEF EnterCalm
    <3>2. m_inbound \in {"todo", "manual"}
      BY <3>1 DEF Baseline
    <3>3. Into = "manual"
      BY <1>6 DEF Enters, IsEnter, Into
    <3>4. m_inbound' = "manual" /\ (~m_call.resumed => b)
      BY <1>0, <1>1, <3>1, <3>2, <3>3
    <3>5. c # was
      BY <2>4, <3>1, SettledIs
    <3>6. Baseline'
      BY <1>1, <1>5, <2>4, <2>6, <3>1, <3>4, <3>5, CardIsCard DEF Baseline
    <3>7. EnterCalm'
      BY <1>3, <1>5, <2>0, <2>3, <2>4, <3>1, <3>4, <3>6 DEF EnterCalm
    <3> QED BY <2>8, <3>7, EnterCalmThen
  <2>10. StepFits'
    BY <2>7, <2>8, EnterFitsThen
  <2> QED BY <1>1, <1>3, <1>5, <1>8, <2>4, <2>9, <2>10, EvidenceStep
<1>7. CASE Exits
  <2>0. p = "publish"
    BY <1>0, <1>7 DEF Exits, IsExit
  <2>1. ExitFits /\ (StepCalm => ExitCalm)
    BY <1>2, <1>4, <1>7, StepsOfExit
  <2>2. Out = "manual" /\ Into # "manual" /\ Into \in Manual!Zone
    BY <1>7 DEF Exits, IsExit, Out, Into, Manual!Zone
  <2>3. PICK w, c, s, n : w = Into /\ c = m_files[w] /\ s = m_entry[c.gen].subject /\ n = Note
    OBVIOUS
  <2>4. /\ CardAt(w) /\ c.gen \in DOMAIN m_entry
        /\ Manual!Digest(c) = Manual!Digest(Manual!Retarget(Manual!Stamp(s, w)))
        /\ ~m_call.resumed
           => WholeCard(Was) /\ Manual!Digest(Was) = Manual!Digest(s) /\ Was.gen = c.gen
    BY <1>1, <2>1, <2>3 DEF ExitFits
  <2>5. n = [gen |-> c.gen, digest |-> m_entry[c.gen].digest, req |-> m_call.request.id,
             result |-> n.result, to |-> w]
    BY <1>1, <2>1, <2>3, Zenon DEF ExitFits
  <2>6. WholeCard(c) /\ WholeCard(s)
    BY <1>2, <2>3, <2>4 DEF Recorded, IsEntry, CardAt
  <2>7. c.status = w
    BY <2>4, <2>6, SameDigest, StampIs, RetargetIs
  <2>8. CardAt(w)' /\ m_files'[w] = c
    BY <1>1, <2>3, <2>4, LiesKept
  <2>9. n.gen = c.gen
    BY <2>5
  <2>10. ExitFits'
    BY <1>1, <1>3, <1>5, <2>0, <2>2, <2>3, <2>4, <2>5, <2>8 DEF ExitFits, Forms
  <2>11. Exits' /\ m_call'.at \in ExitSteps
    BY <1>3, <1>7, <2>0 DEF Exits, ExitSteps
  <2>12. ASSUME Undisturbed PROVE StepCalm'
    <3>1. PICK id : id = m_call.request.id
      OBVIOUS
    <3>2. /\ \/ Leaving(w) /\ Unowned(c.gen, id)
             \/ Proper(w) /\ m_call.resumed
          /\ ~m_call.resumed => s.status = "manual" /\ Was.status = "manual" /\ m_inbound = "manual"
      BY <1>1, <1>2, <2>1, <2>3, <2>9, <2>12, <3>1 DEF ExitCalm
    <3>3. m_inbound' = w /\ (~m_call.resumed => b)
      <4>1. m_inbound \in {"manual", w}
        BY <3>2 DEF Leaving, Proper
      <4> QED BY <1>0, <1>1, <2>2, <2>3, <3>2, <4>1
    <3>4. Unowned(c.gen, id) <=> Unowned(c.gen, id)'
      BY <1>1, UnownedKept
    <3>5. ASSUME Leaving(w) PROVE Leaving(w)'
      BY <1>1, <2>2, <2>3, <2>7, <2>8, <3>3, <3>5 DEF Leaving
    <3>6. ASSUME Proper(w) PROVE Proper(w)'
      BY <1>1, <2>3, <2>8, <3>3, <3>6 DEF Proper, Fresh
    <3>7. Note' = n /\ Into' = w /\ m_call'.request.id = id /\ m_entry' = m_entry
      BY <1>1, <1>3, <1>5, <2>3, <3>1
    <3>8. \/ Leaving(w)' /\ Unowned(c.gen, id)'
          \/ Proper(w)' /\ m_call'.resumed
      BY <1>3, <3>2, <3>4, <3>5, <3>6
    <3>9. ExitCalm'
      BY <1>1, <1>3, <1>5, <2>0, <2>3, <2>9, <3>2, <3>3, <3>7, <3>8 DEF ExitCalm
    <3> QED BY <2>11, <3>9, ExitCalmThen
  <2>13. StepFits'
    BY <2>10, <2>11, ExitFitsThen
  <2> QED BY <1>1, <1>3, <1>5, <1>8, <2>4, <2>12, <2>13, EvidenceStep
<1> QED BY <1>4, <1>6, <1>7

\* A partial file is removed.
LEMMA RecordedDrop ==
  ASSUME Recorded, NEW x, m_partial' = Manual!Drop(m_partial, x), UNCHANGED <<m_entry, m_close>>
  PROVE  Recorded'
<1>1. /\ m_partial' = [z \in DOMAIN m_partial' |-> m_partial'[z]]
      /\ \A z \in DOMAIN m_partial' : z \in DOMAIN m_partial /\ m_partial'[z] = m_partial[z]
  BY DEF Manual!Drop
<1>2. \A z \in DOMAIN m_partial' : z = <<z[1], z[2]>> /\ z[1] = <<z[1][1], z[1][2]>>
  BY <1>1 DEF Recorded
<1>3. \A z \in DOMAIN m_partial' : z[1][1] = "entry" =>
        /\ z[2] = Manual!Key
        /\ \/ m_partial'[z] = Torn
           \/ WholeCard(m_partial'[z]) /\ m_partial'[z].gen = z[1][2]
           \/ IsEntry(z[1][2], m_partial'[z])
  BY <1>1 DEF Recorded
<1> QED BY <1>1, <1>2, <1>3 DEF Recorded, IsEntry, IsClose

\* A name nobody staged stays so.
LEMMA UnownedDrop ==
  ASSUME NEW x, m_partial' = Manual!Drop(m_partial, x), NEW g, NEW id, Unowned(g, id)
  PROVE  Unowned(g, id)'
BY DEF Unowned, Manual!Foreign, Manual!Drop

\* The close record an exit staged is withdrawn.
LEMMA UnstageStep ==
  ASSUME ManualParameters, ManualInv, Manual!Unstage
  PROVE  ManualInv'
<1>0. PICK x : x = <<Manual!CloseName(Note.gen), m_call.request.id>>
  OBVIOUS
<1>1. /\ m_call.at = "unstage"
      /\ m_partial' = Manual!Drop(m_partial, x)
      /\ m_call' = [m_call EXCEPT !.at = "back", !.wrote = None]
      /\ UNCHANGED <<m_files, m_inbound, m_entry, m_close, m_receipt, m_unanswered, m_told, m_seen>>
  BY <1>0 DEF Manual!Unstage, Manual!Evidence, Manual!Human, Manual!Goes, Manual!At, Manual!q, Note
<1>2. /\ StepFits /\ CallTyped /\ Requests /\ Recorded /\ Data /\ m_call.resumed \in BOOLEAN
      /\ (Undisturbed => StepCalm) /\ m_call.at # "idle"
  BY <1>1 DEF ManualInv, Data, CallTyped
<1>3. SameCall /\ CallTyped' /\ m_call'.at = "back" /\ m_call'.wrote = None
  BY <1>1, <1>2, GoesIs DEF SameCall
<1>4. Exits /\ m_call.at \in ExitSteps
  BY <1>1, <1>2, OnlyExits DEF ExitSteps
<1>5. ExitFits /\ (StepCalm => ExitCalm)
  BY <1>2, <1>4, StepsOfExit
<1>6. Note' = Note /\ Was' = Was /\ Out' = Out /\ Into' = Into /\ (Fresh' <=> Fresh)
      /\ m_call'.links = m_call.links /\ m_call'.resumed = m_call.resumed
      /\ m_call'.request = m_call.request /\ m_inbound' = m_inbound
  BY <1>1, <1>3 DEF SameCall, Note, Was, Out, Into, Fresh
<1>7. ExitFits' /\ Exits' /\ m_call'.at \in ExitSteps
  BY <1>1, <1>3, <1>4, <1>5, ExitUndoes
<1>8. PICK w, c, s, n : w = Into /\ c = m_files[w] /\ s = m_entry[n.gen].subject /\ n = Note
  BY Zenon
<1>9. CardAt(w)
  BY <1>1, <1>5, <1>8 DEF ExitFits
<1>10. Recorded' /\ Descends' /\ Told' /\ ~WroteCard' /\ WroteFits' /\ Asked' \subseteq Asked
  BY <1>1, <1>2, <1>3, <1>6, RecordedDrop, DescendsKept, ToldKept
  DEF Data, WroteCard, WroteFits, Asked
<1>11. ASSUME Undisturbed PROVE StepCalm'
  <2>1. PICK id : id = m_call.request.id
    OBVIOUS
  <2>2. /\ Leaving(w) /\ Unowned(n.gen, id) /\ m_inbound = "manual"
        /\ m_call.resumed => Manual!Digest(c) = Manual!Digest(s)
        /\ ~m_call.resumed => s.status = "manual" /\ Was.status = "manual"
    BY <1>1, <1>2, <1>5, <1>8, <1>11, <2>1 DEF ExitCalm
  <2>3. Leaving(w)'
    BY <1>1, <1>9, <2>2, LiesKept DEF Leaving
  <2>4. Unowned(n.gen, id)'
    BY <1>1, <2>2, UnownedDrop
  <2>5. Note' = n /\ Into' = w /\ m_call'.request.id = id /\ m_entry' = m_entry
          /\ m_files' = m_files
    BY <1>1, <1>6, <1>8, <2>1
  <2>6. ExitCalm'
    BY <1>3, <1>6, <1>8, <2>2, <2>3, <2>4, <2>5 DEF ExitCalm
  <2> QED BY <1>7, <2>6, ExitCalmThen
<1>12. StepFits'
  BY <1>7, ExitFitsThen
<1> QED BY <1>1, <1>3, <1>6, <1>9, <1>10, <1>11, <1>12, EvidenceStep

-----------------------------------------------------------------------------
(* Records staged and published.                                           *)

-----------------------------------------------------------------------------
\* Evidence is staged and published.

\* A baseline or an entry's record is staged.
LEMMA StagedEntry ==
  ASSUME Recorded, NEW g, NEW r, (WholeCard(r) /\ r.gen = g) \/ IsEntry(g, r),
         m_partial' = Manual!Put(m_partial, Spot(g), r), UNCHANGED <<m_entry, m_close>>
  PROVE  /\ Recorded' /\ Spot(g) \in DOMAIN m_partial' /\ m_partial'[Spot(g)] = r
         /\ \A id, h : Unowned(h, id) => Unowned(h, id)'
<1>1. PICK x : x = Spot(g) /\ x = <<x[1], x[2]>> /\ x[1] = <<x[1][1], x[1][2]>> /\ x[1][1] = "entry"
              /\ x[1][2] = g /\ x[2] = Manual!Key
  BY DEF Spot, Manual!EntryName
<1>2. /\ m_partial' = [z \in DOMAIN m_partial' |-> m_partial'[z]]
      /\ DOMAIN m_partial' = DOMAIN m_partial \cup {x} /\ m_partial'[x] = r
      /\ \A z \in DOMAIN m_partial : z # x => m_partial'[z] = m_partial[z]
  BY <1>1 DEF Manual!Put
<1>3. \A z \in DOMAIN m_partial' : z = <<z[1], z[2]>> /\ z[1] = <<z[1][1], z[1][2]>>
  BY <1>1, <1>2 DEF Recorded
<1>4. \A z \in DOMAIN m_partial' : z[1][1] = "entry" =>
        /\ z[2] = Manual!Key
        /\ \/ m_partial'[z] = Torn
           \/ WholeCard(m_partial'[z]) /\ m_partial'[z].gen = z[1][2]
           \/ IsEntry(z[1][2], m_partial'[z])
  BY <1>1, <1>2 DEF Recorded
<1>5. Recorded'
  BY <1>2, <1>3, <1>4 DEF Recorded, IsEntry, IsClose
<1>6. \A id, h : Unowned(h, id) => Unowned(h, id)'
  BY <1>1, <1>2 DEF Unowned, Manual!Foreign, Manual!CloseName
<1> QED BY <1>1, <1>2, <1>5, <1>6

\* A close record is staged.
LEMMA StagedClose ==
  ASSUME Recorded, NEW g, NEW id, NEW r,
         m_partial' = Manual!Put(m_partial, <<Manual!CloseName(g), id>>, r),
         UNCHANGED <<m_entry, m_close>>
  PROVE  /\ Recorded' /\ (Unowned(g, id) => Unowned(g, id)')
         /\ \A h : Spot(h) \in DOMAIN m_partial =>
              Spot(h) \in DOMAIN m_partial' /\ m_partial'[Spot(h)] = m_partial[Spot(h)]
<1>1. PICK x : x = <<Manual!CloseName(g), id>> /\ x = <<x[1], x[2]>> /\ x[1] = <<x[1][1], x[1][2]>>
              /\ x[1][1] = "close" /\ x[1] = Manual!CloseName(g) /\ x[2] = id
  BY DEF Manual!CloseName
<1>2. /\ m_partial' = [z \in DOMAIN m_partial' |-> m_partial'[z]]
      /\ DOMAIN m_partial' = DOMAIN m_partial \cup {x} /\ m_partial'[x] = r
      /\ \A z \in DOMAIN m_partial : z # x => m_partial'[z] = m_partial[z]
  BY <1>1 DEF Manual!Put
<1>3. \A z \in DOMAIN m_partial' : z = <<z[1], z[2]>> /\ z[1] = <<z[1][1], z[1][2]>>
  BY <1>1, <1>2 DEF Recorded
<1>4. \A z \in DOMAIN m_partial' : z[1][1] = "entry" =>
        /\ z[2] = Manual!Key
        /\ \/ m_partial'[z] = Torn
           \/ WholeCard(m_partial'[z]) /\ m_partial'[z].gen = z[1][2]
           \/ IsEntry(z[1][2], m_partial'[z])
  BY <1>1, <1>2 DEF Recorded
<1>5. Recorded'
  BY <1>2, <1>3, <1>4 DEF Recorded, IsEntry, IsClose
<1>6. Unowned(g, id) => Unowned(g, id)'
  BY <1>1, <1>2 DEF Unowned, Manual!Foreign
<1>7. \A h : Spot(h) # x
  BY <1>1 DEF Spot, Manual!EntryName
<1> QED BY <1>2, <1>5, <1>6, <1>7

Grows(old, new) == \A x \in DOMAIN old : x \in DOMAIN new /\ new[x] = old[x]

\* An entry's record is finalized.
LEMMA PublishedEntry ==
  ASSUME Recorded, NEW g, NEW r, IsEntry(g, r), g \in DOMAIN m_entry => m_entry[g] = r,
         Manual!Finalized(Manual!EntryName(g), Manual!Key, r)
  PROVE  /\ Recorded' /\ DOMAIN m_entry' = DOMAIN m_entry \cup {g} /\ m_entry'[g] = r
         /\ Grows(m_entry, m_entry') /\ m_close' = m_close
         /\ m_partial' = Manual!Drop(m_partial, Spot(g))
<1>1. /\ m_partial' = Manual!Drop(m_partial, Spot(g))
      /\ m_entry' = Manual!Put(m_entry, g, r) /\ m_close' = m_close
  BY DEF Manual!Finalized, Manual!EntryName, Spot
<1>2. /\ DOMAIN m_entry' = DOMAIN m_entry \cup {g} /\ m_entry'[g] = r
      /\ m_entry' = [z \in DOMAIN m_entry' |-> m_entry'[z]]
      /\ \A z \in DOMAIN m_entry : m_entry'[z] = m_entry[z]
  BY <1>1 DEF Manual!Put
<1>3. /\ m_partial' = [z \in DOMAIN m_partial' |-> m_partial'[z]]
      /\ \A z \in DOMAIN m_partial' : z \in DOMAIN m_partial /\ m_partial'[z] = m_partial[z]
  BY <1>1 DEF Manual!Drop
<1>4. \A z \in DOMAIN m_partial' : z = <<z[1], z[2]>> /\ z[1] = <<z[1][1], z[1][2]>>
  BY <1>3 DEF Recorded
<1>5. \A z \in DOMAIN m_partial' : z[1][1] = "entry" =>
        /\ z[2] = Manual!Key
        /\ \/ m_partial'[z] = Torn
           \/ WholeCard(m_partial'[z]) /\ m_partial'[z].gen = z[1][2]
           \/ IsEntry(z[1][2], m_partial'[z])
  BY <1>3 DEF Recorded
<1>6. \A h \in DOMAIN m_entry' : IsEntry(h, m_entry'[h])
  BY <1>2 DEF Recorded
<1>7. \A h \in DOMAIN m_close' :
        /\ h \in DOMAIN m_entry'
        /\ m_close'[h] = [gen |-> h, digest |-> m_entry'[h].digest, req |-> m_close'[h].req,
                          result |-> m_close'[h].result, to |-> m_close'[h].to]
  BY <1>1, <1>2 DEF Recorded, IsClose
<1>8. Recorded'
  BY <1>1, <1>2, <1>3, <1>4, <1>5, <1>6, <1>7 DEF Recorded, IsEntry, IsClose
<1> QED BY <1>1, <1>2, <1>8 DEF Grows

\* A close record is finalized.
LEMMA PublishedClose ==
  ASSUME Recorded, NEW g \in DOMAIN m_entry, NEW id, NEW r, IsClose(g, r), g \in DOMAIN m_close
         => m_close[g] = r,
         Manual!Finalized(Manual!CloseName(g), id, r)
  PROVE  /\ Recorded' /\ DOMAIN m_close' = DOMAIN m_close \cup {g} /\ m_close'[g] = r
         /\ Grows(m_close, m_close') /\ m_entry' = m_entry
         /\ m_partial' = Manual!Drop(m_partial, <<Manual!CloseName(g), id>>)
<1>1. /\ m_partial' = Manual!Drop(m_partial, <<Manual!CloseName(g), id>>)
      /\ m_close' = Manual!Put(m_close, g, r) /\ m_entry' = m_entry
  BY DEF Manual!Finalized, Manual!CloseName
<1>2. /\ DOMAIN m_close' = DOMAIN m_close \cup {g} /\ m_close'[g] = r
      /\ m_close' = [z \in DOMAIN m_close' |-> m_close'[z]]
      /\ \A z \in DOMAIN m_close : m_close'[z] = m_close[z]
  BY <1>1 DEF Manual!Put
<1>3. /\ m_partial' = [z \in DOMAIN m_partial' |-> m_partial'[z]]
      /\ \A z \in DOMAIN m_partial' : z \in DOMAIN m_partial /\ m_partial'[z] = m_partial[z]
  BY <1>1 DEF Manual!Drop
<1>4. \A z \in DOMAIN m_partial' : z = <<z[1], z[2]>> /\ z[1] = <<z[1][1], z[1][2]>>
  BY <1>3 DEF Recorded
<1>5. \A z \in DOMAIN m_partial' : z[1][1] = "entry" =>
        /\ z[2] = Manual!Key
        /\ \/ m_partial'[z] = Torn
           \/ WholeCard(m_partial'[z]) /\ m_partial'[z].gen = z[1][2]
           \/ IsEntry(z[1][2], m_partial'[z])
  BY <1>3 DEF Recorded
<1>6. \A h \in DOMAIN m_close' :
        /\ h \in DOMAIN m_entry'
        /\ m_close'[h] = [gen |-> h, digest |-> m_entry'[h].digest, req |-> m_close'[h].req,
                          result |-> m_close'[h].result, to |-> m_close'[h].to]
  BY <1>1, <1>2 DEF Recorded, IsClose
<1>7. Recorded'
  BY <1>1, <1>2, <1>3, <1>4, <1>5, <1>6 DEF Recorded, IsEntry, IsClose
<1> QED BY <1>1, <1>2, <1>7 DEF Grows

\* Answers stay true while the records only grow.
LEMMA ToldGrows ==
  ASSUME Recorded, Told, Grows(m_entry, m_entry'), Grows(m_close, m_close'), NEW t,
         m_told' = m_told \cup {t},
         IF t.kind = "enter" THEN t.gen \in DOMAIN m_entry' /\ t.evidence = m_entry'[t.gen]
         ELSE /\ t.gen \in DOMAIN m_close' /\ t.evidence = m_close'[t.gen]
              /\ t.kind = "exit" =>
                   Manual!Digest(t.card) = Manual!Digest(
                     Manual!Retarget(Manual!Stamp(m_entry'[t.gen].subject, t.evidence.to)))
  PROVE  Told'
<1>1. \A u \in m_told : u.kind # "enter" => u.gen \in DOMAIN m_entry
  BY DEF Told, Recorded
<1>2. \A u \in m_told :
        IF u.kind = "enter" THEN u.gen \in DOMAIN m_entry' /\ u.evidence = m_entry'[u.gen]
        ELSE /\ u.gen \in DOMAIN m_close' /\ u.evidence = m_close'[u.gen]
             /\ u.kind = "exit" =>
                  Manual!Digest(u.card) = Manual!Digest(
                    Manual!Retarget(Manual!Stamp(m_entry'[u.gen].subject, u.evidence.to)))
  BY <1>1 DEF Told, Grows
<1> QED BY <1>2 DEF Told, Manual!Digest, Manual!Retarget, Manual!Stamp

\* A generation is added below what it was derived from.
LEMMA DescendsGrows ==
  ASSUME ManualParameters, Descends, NEW w, CardAt(w), UNCHANGED m_files, NEW g,
         DOMAIN m_entry' = DOMAIN m_entry \cup {g},
         g \notin DOMAIN m_entry /\ g # << >> => g[2] \in DOMAIN m_entry /\ g[2] # m_files[w].gen
  PROVE  Descends'
<1>1. \A z \in Manual!Zone : CardAt(z)' => z = w
  BY LiesKept, CardOnly
<1>2. \A h \in DOMAIN m_entry' : h # << >> => h[2] \in DOMAIN m_entry' /\ h[2] # m_files[w].gen
  BY CardOnly DEF Descends
<1>3. m_files[w].gen # << >> => m_files[w].gen[2] \in DOMAIN m_entry'
  BY CardOnly DEF Descends
<1> QED BY <1>1, <1>2, <1>3 DEF Descends

\* A call that is refused before it did anything.
LEMMA AnswerStep ==
  ASSUME ManualParameters, ManualInv, m_call.at # "idle", m_call' = Manual!AtRest,
         m_unanswered' = m_unanswered \ {m_call.request},
         UNCHANGED <<m_files, m_inbound, m_entry, m_close, m_partial, m_receipt, m_told, m_seen>>,
         Undisturbed => Well(m_unanswered \ {m_call.request})
  PROVE  ManualInv'
<1>1. CallTyped' /\ ~WroteCard' /\ WroteFits' /\ StepFits' /\ Asked' = m_unanswered'
  BY RestIs
<1>2. Data' /\ Copied'
  BY DataKept, SeenKept, CopiedKept, <1>1 DEF ManualInv
<1>3. Asked' \subseteq Asked
  BY <1>1 DEF Asked
<1>4. Requests'
  BY <1>3, RequestsKept DEF ManualInv, Fresh
<1>5. Undisturbed' => StepCalm'
  BY RestCalm DEF Undisturbed
<1> QED BY <1>1, <1>2, <1>4, <1>5, AllTogether

-----------------------------------------------------------------------------
(* An entry is recorded and published.                                     *)

-----------------------------------------------------------------------------
\* The record of an entry is staged, then published.

\* The call goes on with a record.
LEMMA NotedIs ==
  ASSUME CallTyped, NEW p, p # "idle", NEW r, NEW f,
         m_call' = [m_call EXCEPT !.at = p, !.record = r, !.wrote = f]
  PROVE  /\ CallTyped' /\ m_call'.at = p /\ m_call'.record = r /\ m_call'.wrote = f
         /\ m_call'.request = m_call.request /\ m_call'.original = m_call.original
         /\ m_call'.links = m_call.links /\ m_call'.resumed = m_call.resumed
BY DEF CallTyped

\* An entry's record is staged in the place of the baseline.
LEMMA RecordEntryStep ==
  ASSUME ManualParameters, ManualInv, Manual!RecordEntry
  PROVE  ManualInv'
<1>0. PICK c, r : c = m_files["manual"] /\ r = Manual!NewEntry(c)
  OBVIOUS
<1>1. m_call.at = "record"
  BY DEF Manual!RecordEntry, Manual!At
<1>2. /\ StepFits /\ CallTyped /\ Requests /\ Recorded /\ Data /\ m_call.resumed \in BOOLEAN
      /\ (Undisturbed => StepCalm) /\ m_call.at # "idle"
  BY <1>1 DEF ManualInv, Data, CallTyped
<1>3. Enters /\ m_call.at \in EnterSteps
  BY <1>1, <1>2, OnlyEntries DEF EnterSteps
<1>4. EnterFits /\ (StepCalm => EnterCalm)
  BY <1>2, <1>3, StepsOfEntry
<1>5. /\ CardAt("manual") /\ WholeCard(Was) /\ Was.gen = c.gen /\ Was.body = c.body
      /\ c.gen \notin DOMAIN m_entry /\ c = Manual!Settled(Was)
  BY <1>0, <1>1, <1>4 DEF EnterFits
<1>6. /\ Manual!Published(Manual!EntryName(c.gen)) = None
      /\ ~Manual!Foreign(Manual!EntryName(c.gen), Manual!Key)
  BY <1>2, <1>5, EntryPublished, EntryUnowned
<1>7. PICK f : f = <<"partial", Manual!EntryName(c.gen), Manual!Key>>
  OBVIOUS
<1>8. /\ m_partial' = Manual!Put(m_partial, Spot(c.gen), r)
      /\ m_call' = [m_call EXCEPT !.at = "publish", !.record = r, !.wrote = f]
      /\ UNCHANGED <<m_files, m_inbound, m_entry, m_close, m_receipt, m_unanswered, m_told, m_seen>>
  BY <1>0, <1>5, <1>6, <1>7 DEF Manual!RecordEntry, Manual!Stageable, Manual!Staged, Manual!Now,
     Manual!Evidence, Manual!Human, Spot, Was
<1>9. /\ CallTyped' /\ m_call'.at = "publish" /\ m_call'.record = r /\ m_call'.wrote = f
      /\ m_call'.request = m_call.request /\ m_call'.original = m_call.original
      /\ m_call'.links = m_call.links /\ m_call'.resumed = m_call.resumed
  BY <1>2, <1>8, NotedIs
<1>10. WholeCard(c) /\ IsEntry(c.gen, r) /\ r.subject = c /\ r # None
  <2>1. WholeCard(c)
    BY <1>0, <1>5, CardOnly
  <2>2. IsEntry(c.gen, r) /\ r.subject = c
    BY <1>0, <2>1, NewEntryIs
  <2> QED BY <2>1, <2>2, EntryIsRecord
<1>11. /\ Recorded' /\ Spot(c.gen) \in DOMAIN m_partial' /\ m_partial'[Spot(c.gen)] = r
  BY <1>2, <1>8, <1>10, StagedEntry
<1>12. CardAt("manual")' /\ m_files'["manual"] = c
  BY <1>0, <1>5, <1>8, LiesKept
<1>13. Note' = r /\ Was' = Was /\ Out' = Out /\ (Fresh' <=> Fresh) /\ m_entry' = m_entry
  BY <1>8, <1>9 DEF Note, Was, Out, Fresh
<1>14. EnterFits'
  BY <1>5, <1>8, <1>9, <1>10, <1>11, <1>12, <1>13 DEF EnterFits, Staging, EntryForms, IsEntry
<1>15. Enters' /\ m_call'.at \in EnterSteps
  BY <1>3, <1>9 DEF Enters, EnterSteps
<1>16. Descends' /\ Told' /\ ~WroteCard' /\ WroteFits' /\ Asked' \subseteq Asked
  <2>1. Descends' /\ Told'
    BY <1>2, <1>8, DescendsKept, ToldKept DEF Data
  <2>2. f[1] = "partial" /\ f[2] = Manual!EntryName(c.gen) /\ f[3] = Manual!Key
    BY <1>7
  <2>3. ~WroteCard' /\ Asked' \subseteq Asked
    BY <1>2, <1>8, <1>9, <2>2 DEF WroteCard, Asked
  <2>4. WroteFits'
    BY <1>7, <1>9, <1>12, <2>2 DEF WroteFits, Manual!EntryName, Manual!Zone
  <2> QED BY <2>1, <2>3, <2>4
<1>17. ASSUME Undisturbed PROVE StepCalm'
  <2>1. /\ Fresh /\ Out = "todo" /\ Was.status = "todo" /\ m_inbound = "manual"
        /\ (~m_call.resumed => m_call.links)
    BY <1>1, <1>2, <1>4, <1>17 DEF EnterCalm
  <2>2. c.status = "manual"
    BY <1>5, SettledIs
  <2>3. Ready'
    BY <1>0, <1>8, <1>11, <1>12, <1>13, <2>1, <2>2 DEF Ready, Manual!NewEntry, Manual!Digest
  <2>4. EnterCalm'
    BY <1>8, <1>9, <1>10, <1>13, <2>1, <2>3 DEF EnterCalm
  <2> QED BY <1>15, <2>4, EnterCalmThen
<1>18. StepFits'
  BY <1>14, <1>15, EnterFitsThen
<1> QED BY <1>5, <1>8, <1>9, <1>11, <1>13, <1>16, <1>17, <1>18, EvidenceStep

\* An entry's record is published and answered.
LEMMA PublishEntryStep ==
  ASSUME ManualParameters, ManualInv, Manual!PublishEntry
  PROVE  ManualInv'
<1>0. PICK c, r, g : c = m_files["manual"] /\ r = Note /\ g = c.gen
  OBVIOUS
<1>1. m_call.at = "publish" /\ m_call.request.kind = "enter"
  BY DEF Manual!PublishEntry, Manual!At, Manual!q
<1>2. /\ StepFits /\ CallTyped /\ Requests /\ Recorded /\ Data
      /\ (Undisturbed => StepCalm) /\ m_call.at # "idle"
  BY <1>1 DEF ManualInv, Data
<1>3. Enters /\ m_call.at \in EnterSteps
  BY <1>1, <1>2, EntriesOrExits DEF Exits, IsExit
<1>4. EnterFits /\ (StepCalm => EnterCalm)
  BY <1>2, <1>3, StepsOfEntry
<1>5. /\ CardAt("manual") /\ g \notin DOMAIN m_entry /\ r # None /\ IsEntry(g, r)
      /\ Spot(g) \in DOMAIN m_partial /\ m_partial[Spot(g)] = r
  BY <1>0, <1>1, <1>4 DEF EnterFits, Staging, Note
<1>6. r.gen = g
  BY <1>5, EntryIsRecord
<1>7. Manual!Finalizable(Manual!EntryName(r.gen), Manual!Key, r)
  BY <1>2, <1>5, <1>6, EntryPublished DEF Manual!Finalizable, Manual!Get, Spot
<1>8. PICK t : t = [kind |-> "enter", gen |-> r.gen, evidence |-> r, card |-> Manual!Now("manual")]
  OBVIOUS
<1>9. /\ Manual!Finalized(Manual!EntryName(g), Manual!Key, r)
      /\ m_call' = Manual!AtRest /\ m_unanswered' = m_unanswered \ {m_call.request}
      /\ m_told' = m_told \cup {t}
      /\ UNCHANGED <<m_files, m_inbound, m_receipt, m_seen>>
  BY <1>0, <1>6, <1>7, <1>8
     DEF Manual!PublishEntry, Manual!Succeeds, Manual!Answers, Manual!Human, Manual!q, Note
<1>10. /\ Recorded' /\ DOMAIN m_entry' = DOMAIN m_entry \cup {g} /\ m_entry'[g] = r
       /\ Grows(m_entry, m_entry') /\ m_close' = m_close
  BY <1>2, <1>5, <1>9, PublishedEntry
<1>11. /\ CallTyped' /\ m_call'.at = "idle" /\ ~WroteCard' /\ WroteFits'
       /\ StepFits' /\ Asked' = m_unanswered'
  BY <1>9, RestIs
<1>12. Told'
  <2>1. t.kind = "enter" /\ t.gen = g /\ t.evidence = r
    BY <1>6, <1>8
  <2>2. Grows(m_close, m_close')
    BY <1>10 DEF Grows
  <2> QED BY <1>2, <1>9, <1>10, <2>1, <2>2, ToldGrows DEF Data
<1>13. Descends'
  <2>1. g # << >> => g[2] \in DOMAIN m_entry
    BY <1>0, <1>2, <1>5, CardOnly DEF Data, Descends
  <2> QED BY <1>0, <1>2, <1>5, <1>9, <1>10, <2>1, DescendsGrows DEF Data
<1>14. ~Fresh' /\ Asked' \subseteq Asked
  BY <1>9, <1>10, <1>11 DEF Fresh, Asked
<1>15. ASSUME Undisturbed PROVE StepCalm'
  <2>1. Ready /\ Fresh
    BY <1>0, <1>1, <1>2, <1>4, <1>5, <1>15 DEF EnterCalm
  <2>2. c.status = "manual" /\ m_inbound = "manual" /\ r.digest = Manual!Digest(c)
    BY <1>0, <1>5, <2>1, NewEntryIs, CardOnly DEF Ready
  <2>3. g \notin DOMAIN m_close
    BY <1>2, <2>1 DEF Recorded, Fresh
  <2>4. CardAt("manual")' /\ m_files'["manual"] = c
    BY <1>0, <1>5, <1>9, LiesKept
  <2>5. Proper("manual")'
    BY <1>0, <1>9, <1>10, <2>2, <2>3, <2>4 DEF Proper, Manual!Digest
  <2>6. Well(Asked)'
    BY <2>5 DEF Well, Manual!Zone
  <2> QED BY <1>11, <2>6, CalmAtRest
<1> QED BY <1>5, <1>9, <1>10, <1>11, <1>12, <1>13, <1>14, <1>15, EvidenceStep

-----------------------------------------------------------------------------
(* An entry begins.                                                        *)

-----------------------------------------------------------------------------
\* An entry begins.

Answered == m_call' = Manual!AtRest /\ m_unanswered' = m_unanswered \ {m_call.request}

\* A request at work has the form of its kind.
LEMMA RequestOf ==
  ASSUME Requests, m_call.at # "idle"
  PROVE  /\ m_call.request.kind = "enter" => Enters
         /\ m_call.request.kind = "exit" => Exits
         /\ m_call.request.kind = "reissue" => Reissues
         /\ Fresh /\ Enters => Out = "todo"
BY DEF Requests, Asked, Enters, Exits, Reissues, IsEnter, IsExit, IsReissue, Out

\* Without this entry the card is well, if another request made it so.
LEMMA WithoutEntry ==
  ASSUME Enters, m_call.at # "idle", Well(Asked)
  PROVE  Well(m_unanswered \ {m_call.request}) \/ Ready \/ Baseline
<1>1. Asked = m_unanswered \cup {m_call.request}
  BY AskedNow
<1>2. \A e \in Asked : IsExit(e) => e \in m_unanswered \ {m_call.request}
  BY <1>1, KindsDiffer DEF Enters
<1>3. Exiting(Asked) => Exiting(m_unanswered \ {m_call.request})
  BY <1>2 DEF Exiting
<1>4. Reissuing(Asked) => Reissuing(m_unanswered \ {m_call.request})
  <2>1. \A g : Derivation(g).kind # "enter"
    BY DEF Derivation
  <2>2. \A g : Derivation(g) # m_call.request
    BY <2>1 DEF Enters, IsEnter
  <2> QED BY <1>1, <2>2 DEF Reissuing
<1> QED BY <1>3, <1>4 DEF Well, Entering

\* What being well says of a card in the manual zone, or in another one.
LEMMA WellInside ==
  ASSUME ManualParameters, CardAt("manual"), NEW asked, Well(asked)
  PROVE  Proper("manual") \/ Entering(asked) \/ Reissuing(asked)
BY CardOnly DEF Well, Proper, Exiting, Leaving, Manual!Zone

\* A card outside the manual zone is settled, or leaving.
LEMMA WellOutside ==
  ASSUME ManualParameters, NEW w, w # "manual", CardAt(w), NEW asked, Well(asked)
  PROVE  Proper(w) \/ (Leaving(w) /\ Exiting(asked))
<1>1. ~CardAt("manual")
  BY CardOnly DEF Manual!Zone
<1>2. ~Entering(asked) /\ ~Reissuing(asked)
  BY <1>1 DEF Entering, Reissuing, Ready, Baseline, Rewritten
<1>3. \A z \in Manual!Zone : Proper(z) \/ Leaving(z) => z = w
  BY CardOnly DEF Proper, Leaving
<1>4. Exiting(asked) => Leaving(w)
  BY <1>3 DEF Exiting
<1>5. (\E z \in Manual!Zone : Proper(z)) => Proper(w)
  BY <1>3
<1> QED BY <1>2, <1>4, <1>5 DEF Well

\* A resumption starts with nothing noted.
LEMMA ResumingFits ==
  ASSUME \/ m_call'.at = "resume entry" /\ Enters'
         \/ m_call'.at = "resume exit" /\ Exits',
         Note' = None, ~m_call'.resumed, ~m_call'.links
  PROVE  StepFits'
<1>1. Enters' => ~Exits' /\ ~Reissues'
  BY KindsDiffer DEF Enters, Exits, Reissues
<1>2. Exits' => ~Enters' /\ ~Reissues'
  BY KindsDiffer DEF Enters, Exits, Reissues
<1> QED BY <1>1, <1>2 DEF StepFits, EnterSteps, ExitSteps, ReissueSteps

\* A card that is well is there.
LEMMA WellCard ==
  ASSUME NEW asked, Well(asked)
  PROVE  \E w \in Manual!Zone : CardAt(w)
BY DEF Well, Proper, Entering, Exiting, Reissuing, Ready, Baseline, Rewritten, Leaving, Manual!Zone

\* The call starts with its original.
LEMMA StartedIs ==
  ASSUME CallTyped, NEW p, p # "idle", NEW o, NEW f,
         m_call' = [m_call EXCEPT !.at = p, !.original = o, !.wrote = f]
  PROVE  /\ CallTyped' /\ m_call'.at = p /\ m_call'.original = o /\ m_call'.wrote = f
         /\ m_call'.request = m_call.request /\ m_call'.record = m_call.record
         /\ m_call'.links = m_call.links /\ m_call'.resumed = m_call.resumed
BY DEF CallTyped

\* An entry begins: refused, started or a resumption.
LEMMA BeginEntryStep ==
  ASSUME ManualParameters, ManualInv, Manual!BeginEntry
  PROVE  ManualInv'
<1>0. PICK v, c, g : v = Out /\ c = m_files[v] /\ g = c.gen
  OBVIOUS
<1>1. m_call.at = "begin" /\ m_call.request.kind = "enter"
  BY DEF Manual!BeginEntry, Manual!At, Manual!q
<1>2. /\ StepFits /\ CallTyped /\ Requests /\ Recorded /\ Data
      /\ (Undisturbed => StepCalm) /\ m_call.at # "idle"
  BY <1>1 DEF ManualInv, Data
<1>3. Enters /\ v \in {"todo", "blocked"} /\ v \in Manual!Zone
  BY <1>0, <1>1, <1>2, RequestOf DEF Enters, IsEnter, Out, Manual!Zone
<1>4. Note = None /\ ~m_call.resumed /\ ~m_call.links
  BY <1>1, <1>2 DEF StepFits
<1>5. Undisturbed => Well(Asked)
  BY <1>1, <1>2 DEF StepCalm
<1>6. PICK f : f = <<"partial", Manual!EntryName(g), Manual!Key>>
  OBVIOUS
<1>7. /\ UNCHANGED <<m_files, m_inbound, m_entry, m_close, m_receipt, m_told, m_seen>>
      /\ \/ /\ c = None /\ m_call' = [m_call EXCEPT !.at = "resume entry", !.wrote = None]
            /\ UNCHANGED <<m_partial, m_unanswered>>
         \/ /\ Manual!IsCard(c) /\ Manual!Stageable(Manual!EntryName(g), Manual!Key, c)
            /\ Manual!Staged(Manual!EntryName(g), Manual!Key, c)
            /\ m_call' = [m_call EXCEPT !.at = "move", !.original = c, !.wrote = f]
            /\ UNCHANGED m_unanswered
         \/ c # None /\ Answered /\ UNCHANGED m_partial
  BY <1>0, <1>6 DEF Manual!BeginEntry, Manual!Now, Manual!q, Manual!Goes, Manual!Evidence,
     Manual!Human,
     Manual!Answers, Answered, Out
<1>8. CASE c = None /\ m_call' = [m_call EXCEPT !.at = "resume entry", !.wrote = None]
           /\ UNCHANGED <<m_partial, m_unanswered>>
  <2>1. /\ m_call'.at = "resume entry" /\ m_call'.request = m_call.request
           /\ m_call'.record = m_call.record
        /\ m_call'.resumed = m_call.resumed /\ m_call'.links = m_call.links
    BY <1>2, <1>8, GoesIs
  <2>2. StepFits'
    <3>1. Enters' /\ Note' = None /\ ~m_call'.resumed /\ ~m_call'.links
      BY <1>3, <1>4, <2>1 DEF Enters, Note
    <3> QED BY <2>1, <3>1, ResumingFits
  <2>3. Asked' = Asked
    BY <1>1, <1>8, <2>1 DEF Asked
  <2>4. Undisturbed => Well(Asked)'
    BY <1>5, <1>7, <1>8, <2>3, WellKept
  <2>5. Undisturbed' => StepCalm'
    BY <1>7, <2>1, <2>4 DEF StepCalm, Undisturbed, EnterSteps, ExitSteps, ReissueSteps
  <2>6. SeenTyped' /\ m_seen'.body = m_seen.body
    BY <1>2, <1>7, SeenKept
  <2> QED BY <1>1, <1>7, <1>8, <2>2, <2>5, <2>6, GoesStep
<1>9. CASE /\ Manual!IsCard(c) /\ Manual!Stageable(Manual!EntryName(g), Manual!Key, c)
           /\ Manual!Staged(Manual!EntryName(g), Manual!Key, c)
           /\ m_call' = [m_call EXCEPT !.at = "move", !.original = c, !.wrote = f]
           /\ UNCHANGED m_unanswered
  <2>1. CardAt(v) /\ WholeCard(c) /\ c \notin {None, Torn}
    BY <1>0, <1>2, <1>3, <1>9, CardIsThere, CardOnly
  <2>2. g \notin DOMAIN m_entry
    <3>1. SUFFICES ASSUME g \in DOMAIN m_entry PROVE FALSE
      OBVIOUS
    <3>2. m_entry[g] = c /\ IsEntry(g, m_entry[g])
      BY <1>2, <1>9, <3>1, EntryPublished DEF Manual!Stageable, Recorded
    <3> QED BY <2>1, <3>2, EntryIsRecord
  <2>3. m_partial' = Manual!Put(m_partial, Spot(g), c)
    BY <1>2, <1>9, <2>2, EntryPublished DEF Manual!Staged, Spot
  <2>4. Recorded' /\ Spot(g) \in DOMAIN m_partial' /\ m_partial'[Spot(g)] = c
    BY <1>0, <1>2, <1>7, <2>1, <2>3, StagedEntry
  <2>5. /\ CallTyped' /\ m_call'.at = "move" /\ m_call'.original = c /\ m_call'.wrote = f
        /\ m_call'.request = m_call.request /\ m_call'.record = m_call.record
        /\ m_call'.links = m_call.links /\ m_call'.resumed = m_call.resumed
    BY <1>2, <1>9, StartedIs
  <2>6. CardAt(v)' /\ m_files'[v] = c /\ m_entry' = m_entry
    BY <1>0, <1>7, <2>1, LiesKept
  <2>7. Out' = v /\ Was' = c /\ Note' = None /\ (Fresh' <=> Fresh)
    BY <1>0, <1>4, <1>7, <2>5 DEF Out, Was, Note, Fresh
  <2>8. EnterFits'
    BY <1>0, <1>4, <2>1, <2>2, <2>4, <2>5, <2>6, <2>7 DEF EnterFits, Staging, EntryForms, Note
  <2>9. Enters' /\ m_call'.at \in EnterSteps
    BY <1>3, <2>5 DEF Enters, EnterSteps
  <2>10. Descends' /\ Told' /\ ~WroteCard' /\ WroteFits' /\ Asked' \subseteq Asked
    <3>1. Descends' /\ Told'
      BY <1>2, <1>7, DescendsKept, ToldKept DEF Data
    <3>2. f[1] = "partial" /\ f[2] = Manual!EntryName(g) /\ f[3] = Manual!Key
      BY <1>6
    <3>3. ~WroteCard' /\ Asked' \subseteq Asked
      BY <1>2, <1>9, <2>5, <3>2 DEF WroteCard, Asked
    <3>4. WroteFits'
      BY <1>3, <1>6, <2>5, <2>6, <3>2 DEF WroteFits, Manual!EntryName, Manual!Zone
    <3> QED BY <3>1, <3>3, <3>4
  <2>11. ASSUME Undisturbed PROVE StepCalm'
    <3>1. Proper(v) \/ Leaving(v)
      BY <1>3, <1>5, <2>1, <2>11, WellOutside
    <3>2. ~Leaving(v)
      BY <1>0, <2>2 DEF Leaving
    <3>3. g \notin DOMAIN m_close
      BY <1>2, <2>2 DEF Recorded
    <3>4. Fresh /\ v = "todo" /\ c.status = "todo" /\ m_inbound = "todo"
      BY <1>0, <1>3, <3>1, <3>2, <3>3 DEF Proper
    <3>5. Proper("todo")'
      BY <1>0, <1>7, <2>2, <2>6, <2>7, <3>4 DEF Proper
    <3>6. EnterCalm'
      BY <1>0, <2>5, <2>7, <3>4, <3>5 DEF EnterCalm
    <3> QED BY <2>9, <3>6, EnterCalmThen
  <2>12. StepFits'
    BY <2>8, <2>9, EnterFitsThen
  <2> QED BY <1>7, <2>1, <2>4, <2>5, <2>7, <2>10, <2>11, <2>12, EvidenceStep
<1>10. CASE c # None /\ Answered /\ UNCHANGED m_partial
  <2>1. ASSUME Undisturbed PROVE Well(m_unanswered \ {m_call.request})
    <3>1. PICK w \in Manual!Zone : CardAt(w)
      BY <1>5, <2>1, WellCard
    <3>2. w = v
      BY <1>0, <1>3, <1>10, <3>1, CardOnly
    <3>3. ~CardAt("manual")
      BY <1>3, <3>1, <3>2, CardOnly DEF Manual!Zone
    <3> QED BY <1>2, <1>3, <1>5, <2>1, <3>3, WithoutEntry DEF Ready, Baseline
  <2> QED BY <1>2, <1>7, <1>10, <2>1, AnswerStep DEF Answered
<1> QED BY <1>7, <1>8, <1>9, <1>10

-----------------------------------------------------------------------------
(* An entry is resumed.                                                    *)

-----------------------------------------------------------------------------
\* An entry is resumed.

\* The card's file moves and a partial file goes away; nothing is published.
LEMMA MovedStep ==
  ASSUME ManualParameters, ManualInv, NEW v, CardAt(v), NEW w, CardAt(w)',
         m_files'[w].gen = m_files[v].gen, m_files'[w].body = m_files[v].body,
         Fresh => w \in {"todo", "manual"}, Recorded',
         UNCHANGED <<m_entry, m_close, m_told, m_seen>>, m_call.at # "idle", Answered,
         Undisturbed => Well(m_unanswered)'
  PROVE  ManualInv'
<1>1. /\ CallTyped' /\ m_call'.at = "idle" /\ ~WroteCard' /\ WroteFits' /\ StepFits'
      /\ Asked' = m_unanswered'
  BY RestIs DEF Answered
<1>2. Data'
  BY DataMoved DEF ManualInv
<1>3. m_files[v].body = m_seen.body /\ m_seen'.body = m_seen.body
  BY CardOnly DEF ManualInv, Copied
<1>4. Copied'
  BY <1>1, <1>3, CopiedFrom
<1>5. Asked' \subseteq Asked /\ (Fresh' <=> Fresh)
  BY <1>1 DEF Asked, Answered, Fresh
<1>6. Requests'
  BY <1>5, RequestsKept DEF ManualInv
<1>7. (Undisturbed' => Undisturbed) /\ (Undisturbed => StepCalm')
  <2>1. Well(m_unanswered)' => Well(Asked)'
    BY <1>1 DEF Well, Entering, Exiting, Reissuing
  <2> QED BY <1>1, <2>1, CalmAtRest DEF Undisturbed
<1> QED BY <1>1, <1>2, <1>4, <1>6, <1>7, AllTogether

Found(g) == Manual!Get(m_partial, Spot(g))

\* What is found staged for a generation.
LEMMA FoundIs ==
  ASSUME ManualParameters, Recorded, NEW g
  PROVE  /\ Manual!IsRecord(Found(g)) => /\ Spot(g) \in DOMAIN m_partial
                                         /\ m_partial[Spot(g)] = Found(g) /\ IsEntry(g, Found(g))
         /\ Manual!IsCard(Found(g)) /\ ~Manual!IsRecord(Found(g)) =>
              /\ Spot(g) \in DOMAIN m_partial /\ m_partial[Spot(g)] = Found(g)
              /\ WholeCard(Found(g)) /\ Found(g).gen = g
         /\ Spot(g) \in DOMAIN m_partial => m_partial[Spot(g)] = Found(g)
<1>1. PICK x, y : x = Spot(g) /\ y = Found(g)
  OBVIOUS
<1>2. x[1][1] = "entry" /\ x[1][2] = g
  BY <1>1 DEF Spot, Manual!EntryName
<1>3. IF x \in DOMAIN m_partial THEN y = m_partial[x] ELSE y = None
  BY <1>1 DEF Found, Manual!Get
<1>4. x \in DOMAIN m_partial => y = Torn \/ (WholeCard(y) /\ y.gen = g) \/ IsEntry(g, y)
  BY <1>2, <1>3 DEF Recorded
<1>5. Manual!IsCard(y) => x \in DOMAIN m_partial /\ y # Torn
  BY <1>3 DEF Manual!IsCard
<1>6. Manual!IsRecord(y) => Manual!IsCard(y) /\ ~WholeCard(y)
  BY CardIsCard DEF Manual!IsRecord, Manual!IsCard
<1>7. IsEntry(g, y) => Manual!IsRecord(y)
  BY EntryIsRecord
<1> QED BY <1>1, <1>3, <1>4, <1>5, <1>6, <1>7

\* An entry goes back when the card in the manual zone was never settled.
LEMMA EntryGoesBack ==
  ASSUME ManualParameters, ManualInv, Enters, m_call.at # "idle", NEW c, c = m_files["manual"],
         CardAt("manual"),
         c.gen \notin DOMAIN m_entry,
         m_files' = [m_files EXCEPT ![Out] = c, !["manual"] = None],
         m_partial' = Manual!Drop(m_partial, Spot(c.gen)), Answered,
         UNCHANGED <<m_inbound, m_entry, m_close, m_receipt, m_told, m_seen>>,
         Undisturbed => Baseline /\ c = m_partial[Spot(c.gen)]
  PROVE  ManualInv'
<1>1. Recorded /\ Requests /\ (Fresh => Out = "todo")
  BY RequestOf DEF ManualInv, Data
<1>2. PICK v : v = Out
  OBVIOUS
<1>3. v \in {"todo", "blocked"} /\ v \in Manual!Zone /\ "manual" \in Manual!Zone
  BY <1>2 DEF Enters, IsEnter, Out, Manual!Zone
<1>4. m_files' = [m_files EXCEPT !["manual"] = None, ![v] = c]
  BY <1>2, <1>3 DEF CardAt, Lies
<1>5. CardAt(v)' /\ m_files'[v] = c
  BY <1>3, <1>4, MovedIs
<1>6. Recorded'
  BY <1>1, RecordedDrop
<1>7. ASSUME Undisturbed PROVE Well(m_unanswered)'
  <2>1. Baseline /\ c.status = "todo" /\ m_inbound = "todo" /\ Fresh
    BY <1>7 DEF Baseline
  <2>2. v = "todo"
    BY <1>1, <1>2, <2>1
  <2>3. Proper("todo")'
    BY <1>5, <2>1, <2>2 DEF Proper, Fresh
  <2> QED BY <2>3 DEF Well, Manual!Zone
<1> QED BY <1>1, <1>2, <1>5, <1>6, <1>7, MovedStep

\* The call goes on as a resumption.
LEMMA ResumedIs ==
  ASSUME CallTyped, NEW p, p # "idle", NEW o,
         m_call' = [m_call EXCEPT !.at = p, !.resumed = TRUE, !.original = o]
  PROVE  /\ CallTyped' /\ m_call'.at = p /\ m_call'.original = o /\ m_call'.resumed
         /\ m_call'.request = m_call.request /\ m_call'.record = m_call.record
         /\ m_call'.links = m_call.links /\ m_call'.wrote = m_call.wrote
BY DEF CallTyped

\* What being well says of the staged file, when the generation is unknown.
LEMMA WellStaged ==
  ASSUME ManualParameters, Recorded, Enters, m_call.at # "idle", NEW c, c = m_files["manual"],
         CardAt("manual"),
         c.gen \notin DOMAIN m_entry, Well(Asked), NEW f, f = Found(c.gen)
  PROVE  \/ Ready /\ f = Manual!NewEntry(c)
         \/ Baseline /\ WholeCard(f) /\ f = m_partial[Spot(c.gen)]
            /\ c \in {f, Manual!Stamp(f, "manual"), Manual!Settled(f)}
         \/ Rewritten /\ f = Manual!NewEntry(c) /\ Well(m_unanswered \ {m_call.request})
<1>1. ~Proper("manual")
  BY DEF Proper
<1>2. Spot(c.gen) \in DOMAIN m_partial => f = m_partial[Spot(c.gen)]
  BY FoundIs
<1>3. Well(m_unanswered \ {m_call.request}) \/ Ready \/ Baseline
  BY WithoutEntry
<1>4. Entering(Asked) \/ Reissuing(Asked)
  BY <1>1, WellInside
<1>5. Ready => f = Manual!NewEntry(c)
  BY <1>2 DEF Ready
<1>6. Baseline => WholeCard(f) /\ f = m_partial[Spot(c.gen)]
        /\ c \in {f, Manual!Stamp(f, "manual"), Manual!Settled(f)}
  BY <1>2 DEF Baseline
<1>7. Rewritten => f = Manual!NewEntry(c)
  BY <1>2 DEF Rewritten
<1> QED BY <1>3, <1>4, <1>5, <1>6, <1>7 DEF Entering, Reissuing

\* The ends of a resumed entry.
Declines == Answered /\ UNCHANGED <<m_files, m_entry, m_close, m_partial, m_told>>
CardReturns(c) ==
  /\ m_files' = [m_files EXCEPT ![Out] = c, !["manual"] = None]
  /\ m_partial' = Manual!Drop(m_partial, Spot(c.gen))
  /\ Answered /\ UNCHANGED <<m_entry, m_close, m_told>>
Enterings(c, r) ==
  /\ Answered /\ UNCHANGED m_files
  /\ m_told' = m_told \cup {[kind |-> "enter", gen |-> c.gen, evidence |-> r, card |-> c]}

ResumedOn(c, f, pub) ==
  \/ ~Manual!IsCard(c) /\ Declines
  \/ /\ Manual!IsCard(c)
     /\ \/ pub # None /\ Declines
        \/ pub # None /\ Enterings(c, pub) /\ UNCHANGED <<m_entry, m_close, m_partial>>
        \/ /\ pub = None /\ Manual!IsRecord(f)
           /\ \/ c.status # "manual" /\ CardReturns(c)
              \/ f.digest # Manual!Digest(c) /\ Declines
              \/ /\ c.status = "manual" /\ f.digest = Manual!Digest(c) /\ Enterings(c, f)
                 /\ Manual!Finalized(Manual!EntryName(c.gen), Manual!Key, f)
        \/ /\ pub = None /\ ~Manual!IsRecord(f) /\ Manual!IsCard(f)
           /\ \/ c = f /\ CardReturns(c)
              \/ c # f /\ ~Manual!OnlySettled(c, f) /\ Declines
              \/ /\ Manual!OnlySettled(c, f)
                 /\ m_call' = [m_call EXCEPT !.at = "stamp", !.resumed = TRUE, !.original = f]
                 /\ UNCHANGED <<m_files, m_entry, m_close, m_partial, m_unanswered, m_told>>
        \/ /\ pub = None /\ ~Manual!IsRecord(f) /\ ~Manual!IsCard(f)
           /\ \/ c.status # "manual" /\ CardReturns(c)
              \/ Declines

\* The ways a resumed entry takes.
LEMMA ResumeEntryIs ==
  ASSUME Manual!ResumeEntry, NEW c, c = m_files["manual"], NEW f, f = Found(c.gen),
         NEW pub, pub = Manual!Published(Manual!EntryName(c.gen))
  PROVE  /\ m_call.at = "resume entry" /\ UNCHANGED <<m_inbound, m_receipt, m_seen>>
         /\ ResumedOn(c, f, pub)
<1>1. f = Manual!Get(m_partial, <<Manual!EntryName(c.gen), Manual!Key>>)
  BY DEF Found, Spot
<1>2. m_call.at = "resume entry" /\ UNCHANGED <<m_inbound, m_receipt, m_seen>>
  BY DEF Manual!ResumeEntry, Manual!Human, Manual!At
<1>3. /\ Declines <=> Manual!Answers /\ UNCHANGED <<m_files, m_partial, m_told>> /\ Manual!Evidence
      /\ CardReturns(c) <=>
           /\ m_files' = [m_files EXCEPT ![m_call.request.from] = c, !["manual"] = None]
           /\ m_partial' = Manual!Drop(m_partial, <<Manual!EntryName(c.gen), Manual!Key>>)
           /\ Manual!Answers /\ UNCHANGED m_told /\ Manual!Evidence
  BY DEF Declines, CardReturns, Answered, Manual!Answers, Manual!Evidence, Out, Spot, Manual!q
<1>4. \A r : Enterings(c, r) <=>
        /\ Manual!Succeeds([kind |-> "enter", gen |-> c.gen, evidence |-> r, card |-> c])
        /\ UNCHANGED m_files
  BY DEF Enterings, Answered, Manual!Succeeds, Manual!Answers, Manual!q
<1>5. ResumedOn(c, f, pub)
  BY <1>1, <1>3, <1>4 DEF Manual!ResumeEntry, ResumedOn, Manual!Now, Manual!q, Manual!Evidence
<1> QED BY <1>2, <1>5

\* An entry is resumed (manual_entry_resume.go).
LEMMA ResumeEntryStep ==
  ASSUME ManualParameters, ManualInv, Manual!ResumeEntry
  PROVE  ManualInv'
<1>0. PICK c, g, f, pub : /\ c = m_files["manual"] /\ g = c.gen /\ f = Found(c.gen)
                          /\ pub = Manual!Published(Manual!EntryName(c.gen))
  OBVIOUS
<1>1. /\ m_call.at = "resume entry" /\ UNCHANGED <<m_inbound, m_receipt, m_seen>>
      /\ ResumedOn(c, f, pub)
  BY <1>0, ResumeEntryIs
<1>2. /\ StepFits /\ CallTyped /\ Requests /\ Recorded /\ Data
      /\ (Undisturbed => StepCalm) /\ m_call.at # "idle"
  BY <1>1 DEF ManualInv, Data
<1>3. Enters
  BY <1>1, <1>2, OnlyEntries
<1>4. Note = None /\ ~m_call.resumed /\ ~m_call.links
  BY <1>1, <1>2 DEF StepFits
<1>5. Undisturbed => Well(Asked)
  BY <1>1, <1>2 DEF StepCalm
<1>6. CASE Declines /\ (Undisturbed => Well(m_unanswered \ {m_call.request}))
  BY <1>1, <1>2, <1>6, AnswerStep DEF Declines, Answered
<1>7. CASE ~Manual!IsCard(c) /\ Declines
  <2>1. ASSUME Undisturbed PROVE Well(m_unanswered \ {m_call.request})
    <3>1. ~CardAt("manual")
      BY <1>0, <1>7, CardOnly
    <3> QED BY <1>2, <1>3, <1>5, <2>1, <3>1, WithoutEntry DEF Ready, Baseline
  <2> QED BY <1>6, <1>7, <2>1
<1>8. CASE Manual!IsCard(c)
  <2>0. "manual" \in Manual!Zone
    BY DEF Manual!Zone
  <2>1. CardAt("manual") /\ WholeCard(c)
    BY <1>0, <1>2, <1>8, <2>0, CardIsThere, CardOnly
  <2>2. IF g \in DOMAIN m_entry THEN pub = m_entry[g] /\ pub # None ELSE pub = None
    BY <1>0, <1>2, EntryPublished
  <2>3. CASE pub # None
    <3>0. g \in DOMAIN m_entry
      BY <2>2, <2>3
    <3>1. ASSUME Undisturbed PROVE Well(m_unanswered \ {m_call.request})
      BY <1>2, <1>3, <1>5, <3>0, <3>1, WithoutEntry DEF Ready, Baseline, Fresh
    <3>2. CASE Declines
      BY <1>6, <3>1, <3>2
    <3>3. CASE Enterings(c, pub) /\ UNCHANGED <<m_entry, m_close, m_partial>>
      <4>1. PICK t : t = [kind |-> "enter", gen |-> g, evidence |-> pub, card |-> c]
        OBVIOUS
      <4>2. /\ m_told' = m_told \cup {t} /\ Answered /\ UNCHANGED m_files
        BY <1>0, <3>3, <4>1 DEF Enterings
      <4>3. /\ CallTyped' /\ m_call'.at = "idle" /\ ~WroteCard' /\ WroteFits' /\ StepFits'
            /\ Asked' = m_unanswered'
        BY <4>2, RestIs DEF Answered
      <4>4. Told'
        <5>1. t.kind = "enter" /\ t.gen = g /\ t.evidence = pub
          BY <4>1
        <5>2. t.gen \in DOMAIN m_entry' /\ t.evidence = m_entry'[t.gen]
          BY <2>2, <3>0, <3>3, <5>1
        <5>3. Grows(m_entry, m_entry') /\ Grows(m_close, m_close')
          BY <3>3 DEF Grows
        <5> QED BY <1>2, <4>2, <5>1, <5>2, <5>3, ToldGrows DEF Data
      <4>5. Recorded' /\ Descends' /\ (Fresh' => Fresh)
        BY <1>2, <3>3, <4>2, RecordedKept, DescendsKept DEF Data, Fresh
      <4>6. Asked' \subseteq Asked
        BY <4>2, <4>3 DEF Asked, Answered
      <4>7. Undisturbed => StepCalm'
        BY <1>1, <3>1, <3>3, <4>2, RestCalm DEF Answered
      <4> QED BY <1>1, <2>1, <4>2, <4>3, <4>4, <4>5, <4>6, <4>7, EvidenceStep
    <3> QED BY <1>1, <1>8, <2>3, <3>2, <3>3 DEF ResumedOn
  <2>4. CASE pub = None
    <3>0. g \notin DOMAIN m_entry
      BY <2>2, <2>4
    <3>1. ASSUME Undisturbed
          PROVE  \/ Ready /\ f = Manual!NewEntry(c)
                 \/ Baseline /\ WholeCard(f) /\ f = m_partial[Spot(g)]
                    /\ c \in {f, Manual!Stamp(f, "manual"), Manual!Settled(f)}
                 \/ Rewritten /\ f = Manual!NewEntry(c) /\ Well(m_unanswered \ {m_call.request})
      BY <1>0, <1>2, <1>3, <1>5, <2>1, <3>0, <3>1, WellStaged
    <3>2. /\ IsEntry(g, Manual!NewEntry(c)) /\ Manual!NewEntry(c).digest = Manual!Digest(c)
          /\ Manual!IsRecord(Manual!NewEntry(c))
      BY <1>0, <2>1, NewEntryIs, EntryIsRecord
    <3>3. WholeCard(f) => Manual!IsCard(f) /\ ~Manual!IsRecord(f)
      BY CardIsCard
    <3>4. Ready \/ Rewritten => c.status = "manual" /\ m_inbound = "manual"
      BY <1>0 DEF Ready, Rewritten
    <3>5. Manual!IsRecord(f) => IsEntry(g, f)
      BY <1>0, <1>2, FoundIs
    <3>6. CASE CardReturns(c) /\ (Undisturbed => Baseline /\ c = m_partial[Spot(g)])
      BY <1>0, <1>1, <1>2, <1>3, <2>1, <3>0, <3>6, EntryGoesBack DEF CardReturns
    <3>7. CASE Manual!IsRecord(f) /\ c.status # "manual" /\ CardReturns(c)
      BY <3>1, <3>3, <3>4, <3>6, <3>7
    <3>8. CASE Manual!IsRecord(f) /\ f.digest # Manual!Digest(c) /\ Declines
      BY <1>6, <3>1, <3>2, <3>3, <3>8
    <3>9. CASE /\ Manual!IsRecord(f) /\ c.status = "manual" /\ f.digest = Manual!Digest(c)
                  /\ Enterings(c, f)
               /\ Manual!Finalized(Manual!EntryName(c.gen), Manual!Key, f)
      <4>1. PICK t : t = [kind |-> "enter", gen |-> g, evidence |-> f, card |-> c]
        OBVIOUS
      <4>2. /\ m_told' = m_told \cup {t} /\ Answered /\ UNCHANGED m_files
        BY <1>0, <3>9, <4>1 DEF Enterings
      <4>3. /\ CallTyped' /\ m_call'.at = "idle" /\ ~WroteCard' /\ WroteFits' /\ StepFits'
            /\ Asked' = m_unanswered'
        BY <4>2, RestIs DEF Answered
      <4>4. /\ Recorded' /\ DOMAIN m_entry' = DOMAIN m_entry \cup {g} /\ m_entry'[g] = f
            /\ Grows(m_entry, m_entry') /\ m_close' = m_close
        BY <1>0, <1>2, <3>0, <3>5, <3>9, PublishedEntry
      <4>5. Told'
        <5>1. t.kind = "enter" /\ t.gen = g /\ t.evidence = f
          BY <4>1
        <5>2. Grows(m_close, m_close')
          BY <4>4 DEF Grows
        <5> QED BY <1>2, <4>2, <4>4, <5>1, <5>2, ToldGrows DEF Data
      <4>6. Descends'
        <5>1. g # << >> => g[2] \in DOMAIN m_entry
          BY <1>0, <1>2, <2>0, <2>1 DEF Data, Descends
        <5> QED BY <1>0, <1>2, <2>1, <3>0, <4>2, <4>4, <5>1, DescendsGrows DEF Data
      <4>7. ~Fresh' /\ Asked' \subseteq Asked
        BY <4>2, <4>3, <4>4 DEF Asked, Answered, Fresh
      <4>8. ASSUME Undisturbed PROVE StepCalm'
        <5>1. m_inbound = "manual"
          BY <3>1, <3>3, <3>4, <3>9, <4>8
        <5>2. g \notin DOMAIN m_close
          BY <1>2, <3>0 DEF Recorded
        <5>3. CardAt("manual")' /\ m_files'["manual"] = c
          BY <1>0, <2>1, <4>2, LiesKept
        <5>4. Proper("manual")'
          BY <1>0, <1>1, <3>9, <4>4, <5>1, <5>2, <5>3 DEF Proper, Manual!Digest
        <5>5. Well(Asked)'
          BY <2>0, <5>4 DEF Well
        <5> QED BY <4>3, <5>5, CalmAtRest
      <4> QED BY <1>1, <2>1, <4>2, <4>3, <4>4, <4>5, <4>6, <4>7, <4>8, EvidenceStep
    <3>10. CASE ~Manual!IsRecord(f) /\ Manual!IsCard(f) /\ c = f /\ CardReturns(c)
      BY <1>0, <3>1, <3>2, <3>6, <3>10
    <3>11. CASE ~Manual!IsRecord(f) /\ c # f /\ ~Manual!OnlySettled(c, f) /\ Declines
      BY <1>6, <3>1, <3>2, <3>11 DEF Manual!OnlySettled
    <3>12. CASE /\ ~Manual!IsRecord(f) /\ Manual!IsCard(f) /\ Manual!OnlySettled(c, f)
                /\ m_call' = [m_call EXCEPT !.at = "stamp", !.resumed = TRUE, !.original = f]
                /\ UNCHANGED <<m_files, m_entry, m_close, m_partial, m_unanswered, m_told>>
      <4>1. /\ CallTyped' /\ m_call'.at = "stamp" /\ m_call'.original = f /\ m_call'.resumed
            /\ m_call'.request = m_call.request /\ m_call'.record = m_call.record
            /\ m_call'.links = m_call.links /\ m_call'.wrote = m_call.wrote
        BY <1>2, <3>12, ResumedIs
      <4>2. WholeCard(f) /\ f.gen = g /\ Spot(g) \in DOMAIN m_partial /\ m_partial[Spot(g)] = f
        BY <1>0, <1>2, <3>12, FoundIs
      <4>3. c \in {Manual!Stamp(f, "manual"), Manual!Settled(f)} /\ c.body = f.body
        BY <3>12, <4>2, StampIs, SettledIs DEF Manual!OnlySettled
      <4>4. CardAt("manual")' /\ m_files'["manual"] = c
        BY <1>0, <2>1, <3>12, LiesKept
      <4>5. Was' = f /\ Note' = None /\ Out' = Out /\ (Fresh' <=> Fresh)
        BY <1>4, <3>12, <4>1 DEF Was, Note, Out, Fresh
      <4>6. EnterFits'
        BY <1>0, <1>4, <3>0, <3>12, <4>1, <4>2, <4>3, <4>4, <4>5
        DEF EnterFits, Staging, EntryForms, Note
      <4>7. Enters' /\ m_call'.at \in EnterSteps
        BY <1>3, <4>1 DEF Enters, EnterSteps
      <4>8. StepFits'
        BY <4>6, <4>7, EnterFitsThen
      <4>9. /\ Recorded' /\ Descends' /\ Told' /\ (Fresh' => Fresh) /\ Asked' \subseteq Asked
        BY <1>2, <3>12, <4>1, RecordedKept, DescendsKept, ToldKept DEF Data, Fresh, Asked
      <4>10. ASSUME Undisturbed PROVE StepCalm'
        <5>1. Baseline /\ f.status = "todo" /\ Fresh
          BY <1>0, <3>1, <3>2, <3>12, <4>2, <4>10 DEF Baseline
        <5>2. Out = "todo"
          BY <1>2, <1>3, <5>1, RequestOf
        <5>3. Baseline'
          BY <1>1, <3>12, <5>1, CalmKept
        <5>4. EnterCalm'
          BY <4>1, <4>5, <5>1, <5>2, <5>3 DEF EnterCalm
        <5> QED BY <4>7, <5>4, EnterCalmThen
      <4>11. WroteFits' /\ (WroteCard' => WroteCard)
        BY <3>12, <4>1, LiesKept DEF ManualInv, WroteFits, WroteCard, Manual!Zone
      <4>12. Data'
        BY <1>1, <1>2, <3>12, DataKept, SeenKept
      <4>13. Copied'
        BY <1>1, <3>12, <4>11, CopiedKept DEF ManualInv
      <4>14. Requests'
        BY <4>9, RequestsKept DEF ManualInv
      <4>15. Undisturbed' => StepCalm'
        BY <1>1, <4>10 DEF Undisturbed
      <4> QED BY <4>1, <4>8, <4>11, <4>12, <4>13, <4>14, <4>15, AllTogether
    <3>13. CASE ~Manual!IsRecord(f) /\ ~Manual!IsCard(f) /\ CardReturns(c)
      BY <3>1, <3>2, <3>3, <3>6, <3>13
    <3>14. CASE ~Manual!IsRecord(f) /\ ~Manual!IsCard(f) /\ Declines
      BY <1>6, <3>1, <3>2, <3>3, <3>14
    <3> QED BY <1>1, <1>8, <2>4, <3>7, <3>8, <3>9, <3>10, <3>11, <3>12, <3>13, <3>14 DEF ResumedOn
  <2> QED BY <2>3, <2>4
<1> QED BY <1>1, <1>7, <1>8 DEF ResumedOn

-----------------------------------------------------------------------------
(* An exit begins, is resumed and is published.                            *)

-----------------------------------------------------------------------------
\* An exit begins or is resumed.

\* The request of an exit is given up, or the card is leaving for it.
LEMMA WithoutExit ==
  ASSUME Exits, m_call.at # "idle", Well(Asked)
  PROVE  \/ Well(m_unanswered \ {m_call.request})
         \/ \E w \in Manual!Zone : Leaving(w) /\ Into = w
            /\ Unowned(m_files[w].gen, m_call.request.id)
<1>1. Asked = m_unanswered \cup {m_call.request}
  BY AskedNow
<1>2. m_call.request.kind = "exit"
  BY DEF Exits, IsExit
<1>3. Entering(Asked) => Entering(m_unanswered \ {m_call.request})
  <2>1. EnterTodo # m_call.request
    BY <1>2 DEF EnterTodo
  <2> QED BY <1>1, <2>1 DEF Entering
<1>4. Reissuing(Asked) => Reissuing(m_unanswered \ {m_call.request})
  <2>1. \A g : Derivation(g).kind # "exit"
    BY DEF Derivation
  <2>2. \A g : Derivation(g) # m_call.request
    BY <1>2, <2>1
  <2> QED BY <1>1, <2>2 DEF Reissuing
<1>5. ASSUME Exiting(Asked)
      PROVE  \/ Exiting(m_unanswered \ {m_call.request})
             \/ \E w \in Manual!Zone : Leaving(w) /\ Into = w
                /\ Unowned(m_files[w].gen, m_call.request.id)
  <2>1. PICK w \in Manual!Zone, e \in Asked :
          Leaving(w) /\ IsExit(e) /\ e.to = w /\ Unowned(m_files[w].gen, e.id)
    BY <1>5 DEF Exiting
  <2>2. CASE e = m_call.request
    BY <2>1, <2>2 DEF Into
  <2>3. CASE e # m_call.request
    BY <1>1, <2>1, <2>3 DEF Exiting
  <2> QED BY <2>2, <2>3
<1> QED BY <1>3, <1>4, <1>5 DEF Well

\* The last thing written is a partial file.
LEMMA PaperFits ==
  ASSUME NEW z \in Manual!Zone, CardAt(z)', NEW name, NEW key,
         m_call'.wrote = <<"partial", name, key>>,
         name = <<name[1], name[2]>>, name[1] = "entry" => key = Manual!Key
  PROVE  ~WroteCard' /\ WroteFits'
<1>1. m_call'.wrote[1] = "partial" /\ m_call'.wrote[2] = name /\ m_call'.wrote[3] = key
  OBVIOUS
<1> QED BY <1>1 DEF WroteCard, WroteFits

\* An exit takes the card up and stages the close of its generation.
LEMMA ExitStages ==
  ASSUME ManualParameters, ManualInv, Exits, m_call.at \in {"begin", "resume exit"},
         NEW w, NEW c, c = m_files[w], CardAt(w), NEW s, s = m_entry[c.gen].subject,
         c.gen \in DOMAIN m_entry, Manual!Digest(c) \in Forms(s, Into),
         NEW resumed, NEW d, NEW p,
         \/ resumed = FALSE /\ w = "manual" /\ d = c /\ p = "move"
         \/ resumed = TRUE /\ w = Into /\ d = s /\ p = "stamp",
         Manual!Loads(d, c.gen), Manual!StageClose(c.gen, c, resumed),
         UNCHANGED <<m_files, m_inbound, m_entry, m_close, m_receipt, m_told, m_seen>>
  PROVE  ManualInv'
<1>0. PICK g, id, into, n, f :
        /\ g = c.gen /\ id = m_call.request.id /\ into = Into
        /\ n = Manual!Closing(g)
        /\ f = (IF Manual!Published(Manual!CloseName(g)) = None
                THEN <<"partial", Manual!CloseName(g), id>> ELSE None)
  OBVIOUS
<1>1. /\ StepFits /\ CallTyped /\ Requests /\ Recorded /\ Data
      /\ (Undisturbed => StepCalm) /\ m_call.at # "idle"
  BY DEF ManualInv, Data
<1>2. /\ m_partial' = IF Manual!Published(Manual!CloseName(g)) # None THEN m_partial
                      ELSE Manual!Put(m_partial, <<Manual!CloseName(g), id>>, n)
      /\ m_call' = [m_call EXCEPT !.at = p, !.original = c, !.record = n, !.resumed = resumed,
         !.wrote = f]
      /\ m_unanswered' = m_unanswered
  BY <1>0 DEF Manual!StageClose, Manual!Staged, Manual!q
<1>3. /\ CallTyped' /\ m_call'.at = p /\ m_call'.original = c /\ m_call'.record = n
      /\ m_call'.resumed = resumed /\ m_call'.wrote = f
      /\ m_call'.request = m_call.request /\ m_call'.links = m_call.links
  <2>1. p # "idle"
    BY <1>0
  <2>2. m_call' = [m_call EXCEPT !.at = p, !.original = c, !.record = n, !.resumed = resumed,
          !.wrote = f]
    BY <1>2, Zenon
  <2>3. CallTyped
    BY <1>1
  <2>4. resumed \in BOOLEAN
    OBVIOUS
  <2> QED BY <2>1, <2>2, <2>3, <2>4 DEF CallTyped
<1>4. ~m_call.links
  BY <1>1 DEF StepFits
<1>5. /\ g \in DOMAIN m_receipt /\ Manual!Digest(d) = m_entry[g].digest
      /\ m_receipt[g].digest = Manual!Digest(d)
      /\ Manual!Results[m_receipt[g].result] = into
      /\ Manual!Published(Manual!CloseName(g)) = None => ~Manual!Foreign(Manual!CloseName(g), id)
  BY <1>0 DEF Manual!Loads, Manual!PlanExit, Manual!Stageable, Manual!q, Into
<1>6. n = [gen |-> g, digest |-> m_entry[g].digest, req |-> id, result |-> m_receipt[g].result,
        to |-> into]
  BY <1>0 DEF Manual!Closing, Manual!NewClose, Manual!q, Into
<1>7. n.gen = g /\ n.result = m_receipt[g].result
  BY <1>6
<1>8. into \in {"todo", "blocked"}
  BY <1>0 DEF Exits, IsExit, Into
<1>9. /\ WholeCard(c) /\ WholeCard(s) /\ s.gen = g /\ m_entry[g].digest = Manual!Digest(s)
  <2>1. WholeCard(c)
    BY CardOnly
  <2>2. IsEntry(g, m_entry[g])
    BY <1>0, <1>1 DEF Recorded
  <2>3. PICK e : e = m_entry[g] /\ s = e.subject
    BY <1>0
  <2>4. WholeCard(e.subject) /\ e.subject.gen = g /\ e.digest = Manual!Digest(e.subject)
    BY <2>2, <2>3, EntryIsRecord
  <2> QED BY <2>1, <2>3, <2>4
<1>10. Recorded' /\ (Unowned(g, id) => Unowned(g, id)')
  <2>1. CASE Manual!Published(Manual!CloseName(g)) = None
    BY <1>1, <1>2, <2>1, StagedClose
  <2>2. CASE Manual!Published(Manual!CloseName(g)) # None
    BY <1>1, <1>2, <2>2, RecordedKept, UnownedKept
  <2> QED BY <2>1, <2>2
<1>11. CardAt(w)' /\ m_files'[w] = c /\ m_entry' = m_entry
  BY LiesKept
<1>12. Note' = n /\ Was' = c /\ Into' = into /\ (Fresh' <=> Fresh) /\ m_call'.request.id = id
  BY <1>0, <1>3 DEF Note, Was, Into, Fresh
<1>13. ExitFits'
  BY <1>0, <1>3, <1>4, <1>5, <1>6, <1>7, <1>9, <1>11, <1>12 DEF ExitFits, Forms
<1>14. Exits' /\ m_call'.at \in ExitSteps
  BY <1>0, <1>3 DEF Exits, ExitSteps
<1>15. StepFits'
  BY <1>13, <1>14, ExitFitsThen
<1>16. Descends' /\ Told' /\ (Fresh' => Fresh) /\ Asked' \subseteq Asked
  BY <1>1, <1>2, <1>3, DescendsKept, ToldKept DEF Data, Fresh, Asked
<1>17. ~WroteCard' /\ WroteFits'
  <2>1. CASE f = None
    BY <1>3, <2>1 DEF WroteCard, WroteFits
  <2>2. CASE f = <<"partial", Manual!CloseName(g), id>>
    <3>1. PICK name : name = Manual!CloseName(g)
      OBVIOUS
    <3>2. w \in Manual!Zone
      BY DEF CardAt, Lies
    <3>3. f = <<"partial", name, id>> /\ name = <<name[1], name[2]>> /\ name[1] # "entry"
      BY <2>2, <3>1 DEF Manual!CloseName
    <3> QED BY <1>3, <1>11, <3>2, <3>3, PaperFits
  <2> QED BY <1>0, <2>1, <2>2
<1>18. ASSUME Undisturbed PROVE StepCalm'
  <2>1. Well(Asked)
    BY <1>1, <1>18 DEF StepCalm
  <2>2. g \notin DOMAIN m_close => Unowned(g, id)
    BY <1>1, <1>5, ClosePublished DEF Unowned
  <2>3. ~Fresh
    BY <1>0 DEF Fresh
  <2>4. CASE resumed = FALSE
    <3>1. Proper("manual")
      BY <1>0, <2>1, <2>3, <2>4, WellInside DEF Entering, Reissuing, Ready, Baseline, Rewritten
    <3>2. c.status = "manual" /\ m_inbound = "manual" /\ g \notin DOMAIN m_close
      BY <1>0, <2>4, <3>1 DEF Proper
    <3>3. s.status = "manual"
      <4>1. Manual!Digest(c) = Manual!Digest(s)
        BY <1>5, <1>9, <2>4
      <4> QED BY <1>9, <3>2, <4>1, SameDigest
    <3>4. Proper("manual")'
      BY <1>0, <1>11, <2>4, <3>1, <3>2 DEF Proper
    <3>5. Unowned(g, id)'
      BY <1>10, <2>2, <3>2
    <3>6. g \in DOMAIN m_receipt' /\ m_receipt'[g].digest = m_entry'[g].digest
          /\ Manual!Results[m_receipt'[g].result] = into
      BY <1>5, <2>4
    <3>7. m_entry'[g].subject.status = "manual"
      BY <1>0, <1>11, <3>3
    <3>8. m_call'.at = "move"
      BY <1>0, <1>3, <2>4
    <3>9. ExitCalm'
      BY <1>3, <1>7, <1>12, <2>4, <3>2, <3>4, <3>5, <3>6, <3>7, <3>8 DEF ExitCalm, Manual!Results
    <3> QED BY <1>14, <3>9, ExitCalmThen
  <2>5. CASE resumed = TRUE
    <3>1. Proper(w) \/ Leaving(w)
      BY <1>0, <1>8, <2>1, <2>5, WellOutside
    <3>2. Proper(w) => Proper(w)'
      BY <1>11 DEF Proper, Fresh
    <3>3. Leaving(w) => Leaving(w)' /\ Unowned(g, id)'
      <4>1. Leaving(w) => g \notin DOMAIN m_close
        BY <1>0 DEF Leaving
      <4>2. Leaving(w) => Leaving(w)'
        BY <1>11 DEF Leaving
      <4> QED BY <1>10, <2>2, <4>1, <4>2
    <3>4. m_call'.at = "stamp" /\ w = into
      BY <1>0, <1>3, <2>5
    <3>5. ExitCalm'
      BY <1>3, <1>7, <1>12, <2>5, <3>1, <3>2, <3>3, <3>4 DEF ExitCalm
    <3> QED BY <1>14, <3>5, ExitCalmThen
  <2> QED BY <2>4, <2>5
<1> QED BY <1>3, <1>10, <1>15, <1>16, <1>17, <1>18, EvidenceStep

\* An exit begins: refused, started or a resumption.
LEMMA BeginExitStep ==
  ASSUME ManualParameters, ManualInv, Manual!BeginExit
  PROVE  ManualInv'
<1>0. PICK c, g : c = m_files["manual"] /\ g = c.gen
  OBVIOUS
<1>1. m_call.at = "begin" /\ m_call.request.kind = "exit"
  BY DEF Manual!BeginExit, Manual!At, Manual!q
<1>2. /\ StepFits /\ CallTyped /\ Requests /\ Recorded /\ Data
      /\ (Undisturbed => StepCalm) /\ m_call.at # "idle"
  BY <1>1 DEF ManualInv, Data
<1>3. Exits /\ "manual" \in Manual!Zone
  BY <1>1, <1>2, RequestOf DEF Manual!Zone
<1>4. Note = None /\ ~m_call.resumed /\ ~m_call.links
  BY <1>1, <1>2 DEF StepFits
<1>5. Undisturbed => Well(Asked)
  BY <1>1, <1>2 DEF StepCalm
<1>6. /\ UNCHANGED <<m_files, m_inbound, m_entry, m_close, m_receipt, m_told, m_seen>>
      /\ \/ /\ c = None /\ m_call' = [m_call EXCEPT !.at = "resume exit", !.wrote = None]
            /\ UNCHANGED <<m_partial, m_unanswered>>
         \/ /\ Manual!IsCard(c) /\ Manual!Loads(c, g) /\ Manual!StageClose(g, c, FALSE)
         \/ c # None /\ Answered /\ UNCHANGED m_partial
  BY <1>0 DEF Manual!BeginExit, Manual!Now, Manual!q, Manual!Goes, Manual!Evidence, Manual!Human,
     Manual!Answers, Answered
<1>7. CASE c = None /\ m_call' = [m_call EXCEPT !.at = "resume exit", !.wrote = None]
           /\ UNCHANGED <<m_partial, m_unanswered>>
  <2>1. /\ m_call'.at = "resume exit" /\ m_call'.request = m_call.request
           /\ m_call'.record = m_call.record
        /\ m_call'.resumed = m_call.resumed /\ m_call'.links = m_call.links
    BY <1>2, <1>7, GoesIs
  <2>2. StepFits'
    <3>1. Exits' /\ Note' = None /\ ~m_call'.resumed /\ ~m_call'.links
      BY <1>3, <1>4, <2>1 DEF Exits, Note
    <3> QED BY <2>1, <3>1, ResumingFits
  <2>3. Asked' = Asked
    BY <1>1, <1>7, <2>1 DEF Asked
  <2>4. Undisturbed => Well(Asked)'
    BY <1>5, <1>6, <1>7, <2>3, WellKept
  <2>5. Undisturbed' => StepCalm'
    BY <1>6, <2>1, <2>4 DEF StepCalm, Undisturbed, EnterSteps, ExitSteps, ReissueSteps
  <2>6. SeenTyped' /\ m_seen'.body = m_seen.body
    BY <1>2, <1>6, SeenKept
  <2> QED BY <1>1, <1>6, <1>7, <2>2, <2>5, <2>6, GoesStep
<1>8. CASE Manual!IsCard(c) /\ Manual!Loads(c, g) /\ Manual!StageClose(g, c, FALSE)
  <2>1. CardAt("manual") /\ WholeCard(c)
    BY <1>0, <1>2, <1>3, <1>8, CardIsThere, CardOnly
  <2>2. g \in DOMAIN m_entry /\ Manual!Digest(c) = m_entry[g].digest
    BY <1>8 DEF Manual!Loads, Manual!PlanExit
  <2>3. PICK s, e : e = m_entry[g] /\ s = e.subject
    OBVIOUS
  <2>4. IsEntry(g, e)
    BY <1>2, <2>2, <2>3 DEF Recorded
  <2>5. e.digest = Manual!Digest(e.subject)
    BY <2>4, EntryIsRecord
  <2>6. Manual!Digest(c) \in Forms(s, Into)
    BY <2>2, <2>3, <2>5 DEF Forms
  <2>7. s = m_entry[c.gen].subject /\ c.gen \in DOMAIN m_entry
    BY <1>0, <2>2, <2>3
  <2>8. Manual!Loads(c, c.gen) /\ Manual!StageClose(c.gen, c, FALSE)
    BY <1>0, <1>8
  <2>9. UNCHANGED <<m_files, m_inbound, m_entry, m_close, m_receipt, m_told, m_seen>>
    BY <1>6
  <2> QED BY <1>0, <1>1, <1>3, <2>1, <2>6, <2>7, <2>8, <2>9, ExitStages
<1>9. CASE c # None /\ Answered /\ UNCHANGED m_partial
  <2>1. ASSUME Undisturbed PROVE Well(m_unanswered \ {m_call.request})
    <3>1. PICK v \in Manual!Zone : CardAt(v)
      BY <1>5, <2>1, WellCard
    <3>2. v = "manual"
      BY <1>0, <1>3, <1>9, <3>1, CardOnly
    <3>3. \A w \in Manual!Zone : Leaving(w) => FALSE
      BY <1>3, <3>1, <3>2, CardOnly DEF Leaving
    <3> QED BY <1>2, <1>3, <1>5, <2>1, <3>3, WithoutExit
  <2> QED BY <1>2, <1>6, <1>9, <2>1, AnswerStep DEF Answered
<1> QED BY <1>6, <1>7, <1>8, <1>9

\* An exit is resumed (manual_resume.go).
LEMMA ResumeExitStep ==
  ASSUME ManualParameters, ManualInv, Manual!ResumeExit
  PROVE  ManualInv'
<1>0. PICK w, c, g, s : w = Into /\ c = m_files[w] /\ g = c.gen /\ s = m_entry[g].subject
  OBVIOUS
<1>1. m_call.at = "resume exit"
  BY DEF Manual!ResumeExit, Manual!At
<1>2. /\ StepFits /\ CallTyped /\ Requests /\ Recorded /\ Data
      /\ (Undisturbed => StepCalm) /\ m_call.at # "idle"
  BY <1>1 DEF ManualInv, Data
<1>3. Exits /\ w \in {"todo", "blocked"} /\ w \in Manual!Zone
  BY <1>0, <1>1, <1>2, OnlyExits DEF Exits, IsExit, Into, Manual!Zone
<1>5. Undisturbed => Well(Asked)
  BY <1>1, <1>2 DEF StepCalm
<1>6. PICK ok \in BOOLEAN : ok <=> /\ Manual!IsCard(c) /\ g \in DOMAIN m_entry
        /\ Manual!Digest(c) \in Forms(s, w) /\ Manual!Loads(s, g)
  OBVIOUS
<1>7. /\ UNCHANGED <<m_files, m_inbound, m_entry, m_close, m_receipt, m_told, m_seen>>
      /\ IF ok THEN Manual!StageClose(g, c, TRUE) ELSE Answered /\ UNCHANGED m_partial
  BY <1>0, <1>6 DEF Manual!ResumeExit, Manual!Now, Manual!q, Manual!Evidence, Manual!Human,
     Manual!Answers, Answered, Manual!Projections, Forms, Into
<1>8. CASE ok
  <2>1. CardAt(w)
    BY <1>0, <1>2, <1>3, <1>6, <1>8, CardIsThere
  <2>2. /\ Manual!Digest(c) \in Forms(s, Into) /\ s = m_entry[c.gen].subject
           /\ c.gen \in DOMAIN m_entry
        /\ Manual!Loads(s, c.gen) /\ Manual!StageClose(c.gen, c, TRUE)
    BY <1>0, <1>6, <1>7, <1>8
  <2> QED BY <1>0, <1>1, <1>3, <1>7, <2>1, <2>2, ExitStages
<1>9. CASE ~ok
  <2>1. ASSUME Undisturbed PROVE Well(m_unanswered \ {m_call.request})
    <3>1. SUFFICES ASSUME NEW z \in Manual!Zone, Leaving(z), Into = z,
                          Unowned(m_files[z].gen, m_call.request.id)
                   PROVE  FALSE
      BY <1>2, <1>3, <1>5, <2>1, WithoutExit
    <3>2. z = w
      BY <1>0, <3>1
    <3>3. /\ CardAt(w) /\ g \in DOMAIN m_entry /\ g \notin DOMAIN m_close
          /\ g \in DOMAIN m_receipt /\ m_receipt[g].digest = m_entry[g].digest
          /\ Manual!Results[m_receipt[g].result] = w
          /\ Manual!Digest(c) \in Forms(s, w)
             /\ ~Manual!Foreign(Manual!CloseName(g), m_call.request.id)
      BY <1>0, <3>1, <3>2 DEF Leaving, Forms, Unowned
    <3>4. Manual!IsCard(c)
      BY <1>0, <3>3, CardOnly
    <3>5. IsEntry(g, m_entry[g])
      BY <1>2, <3>3 DEF Recorded
    <3>6. m_entry[g].digest = Manual!Digest(s)
      BY <1>0, <3>5, EntryIsRecord
    <3>7. Manual!Published(Manual!CloseName(g)) = None
      BY <1>2, <3>3, ClosePublished
    <3>8. Manual!Loads(s, g)
      BY <1>0, <3>3, <3>6, <3>7 DEF Manual!Loads, Manual!PlanExit, Manual!Stageable, Manual!q, Into
    <3> QED BY <1>6, <1>9, <3>3, <3>4, <3>8
  <2> QED BY <1>2, <1>7, <1>9, <2>1, AnswerStep DEF Answered
<1> QED BY <1>6, <1>8, <1>9

\* A close record is published and answered.
LEMMA PublishCloseStep ==
  ASSUME ManualParameters, ManualInv, Manual!PublishClose
  PROVE  ManualInv'
<1>0. PICK w, c, g, s, n, id, e : /\ w = Into /\ c = m_files[w] /\ g = c.gen /\ e = m_entry[g]
                                     /\ s = e.subject
                               /\ n = Note /\ id = m_call.request.id
  OBVIOUS
<1>1. m_call.at = "publish" /\ m_call.request.kind = "exit"
  BY DEF Manual!PublishClose, Manual!At, Manual!q
<1>2. /\ StepFits /\ CallTyped /\ Requests /\ Recorded /\ Data /\ m_call.resumed \in BOOLEAN
      /\ (Undisturbed => StepCalm) /\ m_call.at # "idle"
  BY <1>1 DEF ManualInv, Data, CallTyped
<1>3. Exits /\ m_call.at \in ExitSteps /\ m_call.at \in EnterSteps
  BY <1>1, <1>2, RequestOf DEF ExitSteps, EnterSteps
<1>4. ExitFits /\ (StepCalm => ExitCalm)
  BY <1>2, <1>3, StepsOfExit
<1>5. /\ CardAt(w) /\ g \in DOMAIN m_entry
      /\ Manual!Digest(c) = Manual!Digest(Manual!Retarget(Manual!Stamp(s, w)))
  BY <1>0, <1>1, <1>4 DEF ExitFits
<1>6. n = [gen |-> g, digest |-> m_entry[g].digest, req |-> id, result |-> n.result, to |-> w]
  BY <1>0, <1>1, <1>4, Zenon DEF ExitFits
<1>7. n.gen = g /\ n.to = w /\ IsClose(g, n)
  <2>1. n.gen = g /\ n.to = w /\ n.req = id
    BY <1>6
  <2> QED BY <1>6, <2>1 DEF IsClose
<1>8. PICK ok \in BOOLEAN : ok <=> Manual!Finalizable(Manual!CloseName(g), id, n)
  OBVIOUS
<1>9. PICK t, p : /\ t = [kind |-> "exit", gen |-> g, evidence |-> n, card |-> c]
                  /\ p = IF m_call.resumed THEN "refuse" ELSE "undo"
  OBVIOUS
<1>10. /\ UNCHANGED <<m_files, m_inbound, m_receipt, m_seen>>
       /\ IF ok THEN /\ Manual!Finalized(Manual!CloseName(g), id, n)
                     /\ Answered /\ m_told' = m_told \cup {t}
          ELSE /\ m_call' = [m_call EXCEPT !.at = p, !.wrote = None]
               /\ UNCHANGED <<m_entry, m_close, m_partial, m_unanswered, m_told>>
  BY <1>0, <1>7, <1>8, <1>9
     DEF Manual!PublishClose, Manual!Succeeds, Manual!Answers, Answered, Manual!Human,
     Manual!Evidence, Manual!Goes, Manual!Now, Manual!q, Note, Into
<1>11. CASE ok
  <2>1. g \in DOMAIN m_close => m_close[g] = n
    BY <1>2, <1>8, <1>11, ClosePublished DEF Manual!Finalizable
  <2>2. /\ Recorded' /\ DOMAIN m_close' = DOMAIN m_close \cup {g} /\ m_close'[g] = n
        /\ Grows(m_close, m_close') /\ m_entry' = m_entry
    BY <1>2, <1>5, <1>7, <1>10, <1>11, <2>1, PublishedClose
  <2>3. /\ CallTyped' /\ m_call'.at = "idle" /\ ~WroteCard' /\ WroteFits' /\ StepFits'
        /\ Asked' = m_unanswered'
    BY <1>10, <1>11, RestIs DEF Answered
  <2>4. Told'
    <3>1. t.kind = "exit" /\ t.gen = g /\ t.evidence = n /\ t.card = c
      BY <1>9
    <3>2. Grows(m_entry, m_entry')
      BY <2>2 DEF Grows
    <3>3. m_entry'[g].subject = s
      BY <1>0, <2>2
    <3>4. Manual!Digest(t.card) = Manual!Digest(
            Manual!Retarget(Manual!Stamp(m_entry'[t.gen].subject, t.evidence.to)))
      BY <1>5, <1>7, <3>1, <3>3
    <3> QED BY <1>2, <1>10, <1>11, <2>2, <3>1, <3>2, <3>4, ToldGrows DEF Data
  <2>5. Descends' /\ (Fresh' => Fresh) /\ Asked' \subseteq Asked
    BY <1>2, <1>10, <1>11, <2>2, <2>3, DescendsKept DEF Data, Fresh, Asked, Answered
  <2>6. ASSUME Undisturbed PROVE StepCalm'
    <3>1. IsEntry(g, e)
      BY <1>0, <1>2, <1>5 DEF Recorded
    <3>2. WholeCard(c) /\ WholeCard(s)
      BY <1>0, <1>5, <3>1, CardOnly, EntryIsRecord
    <3>3. c.status = w
      BY <1>5, <3>2, SameDigest, StampIs, RetargetIs
    <3>4. m_inbound = w
      BY <1>0, <1>1, <1>2, <1>4, <2>6 DEF ExitCalm
    <3>5. w # "manual" /\ w \in Manual!Zone
      BY <1>0, <1>3 DEF Exits, IsExit, Into, Manual!Zone
    <3>6. CardAt(w)' /\ m_files'[w] = c
      BY <1>0, <1>5, <1>10, LiesKept
    <3>7. Proper(w)'
      BY <1>0, <1>10, <2>2, <3>3, <3>4, <3>5, <3>6 DEF Proper
    <3>8. Well(Asked)'
      BY <3>5, <3>7 DEF Well
    <3> QED BY <2>3, <3>8, CalmAtRest
  <2> QED BY <1>5, <1>10, <2>2, <2>3, <2>4, <2>5, <2>6, EvidenceStep
<1>12. CASE ~ok
  <2>1. SameCall /\ m_call'.at = p /\ p # "idle"
    BY <1>2, <1>9, <1>10, <1>12, GoesIs DEF SameCall
  <2>2. SeenTyped' /\ m_seen'.body = m_seen.body /\ (Undisturbed' => Undisturbed)
    BY <1>2, <1>10, SeenKept
  <2>3. CASE m_call.resumed
    <3>1. m_call'.at = "refuse" /\ m_call'.resumed
      BY <1>9, <2>1, <2>3 DEF SameCall
    <3>2. StepFits'
      <4>1. CardAt(w)'
        BY <1>5, <1>10, LiesKept
      <4> QED BY <3>1, <4>1, RefuseFitsThen
    <3>3. ASSUME Undisturbed PROVE StepCalm'
      <4>1. Well(Asked)
        BY <1>1, <1>2, <1>3, <1>4, <3>3, ExitIsWell
      <4>2. Asked' = Asked
        BY <1>2, <1>10, <1>12, <2>1 DEF Asked, SameCall
      <4>3. Well(Asked)'
        BY <1>10, <1>12, <4>1, <4>2, WellKept
      <4> QED BY <3>1, <4>3, RefuseCalmThen
    <3> QED BY <1>1, <1>10, <1>12, <2>1, <2>2, <3>2, <3>3, GoesStep
  <2>4. CASE ~m_call.resumed
    <3>1. m_call'.at = "undo"
      BY <1>9, <2>1, <2>4
    <3>2. ExitFits' /\ Exits' /\ m_call'.at \in ExitSteps
      BY <1>1, <1>3, <1>4, <1>10, <1>12, <2>1, <2>4, <3>1, ExitUndoes
    <3>3. StepFits'
      BY <3>2, ExitFitsThen
    <3>4. ASSUME Undisturbed PROVE StepCalm'
      <4>1. ExitCalm'
        BY <1>1, <1>2, <1>3, <1>4, <1>10, <1>12, <2>1, <2>4, <3>1, <3>4, ExitUndoesCalm
      <4> QED BY <3>2, <4>1, ExitCalmThen
    <3> QED BY <1>1, <1>10, <1>12, <2>1, <2>2, <3>3, <3>4, GoesStep
  <2> QED BY <2>3, <2>4
<1> QED BY <1>11, <1>12

-----------------------------------------------------------------------------
(* A reissue.                                                              *)

-----------------------------------------------------------------------------
\* A card is reissued.

\* Of two changes of generation the last counts.
LEMMA RebindSame ==
  ASSUME NEW c, NEW g, NEW h, WholeCard(c)
  PROVE  /\ c.gen = g => Manual!Rebind(c, g) = c
         /\ Manual!Rebind(Manual!Rebind(c, h), g) = Manual!Rebind(c, g)
<1>1. PICK a, b, d : a = Manual!Rebind(c, h) /\ b = Manual!Rebind(a, g) /\ d = Manual!Rebind(c, g)
  OBVIOUS
<1>2. /\ WholeCard(a) /\ a.body = c.body /\ a.status = c.status /\ a.links = c.links
      /\ a.gen = h /\ a.verdict = c.verdict
  BY <1>1, RebindIs
<1>3. /\ WholeCard(d) /\ d.body = c.body /\ d.status = c.status /\ d.links = c.links
      /\ d.gen = g /\ d.verdict = c.verdict
  BY <1>1, RebindIs
<1>4. /\ WholeCard(b) /\ b.body = a.body /\ b.status = a.status /\ b.links = a.links
      /\ b.gen = g /\ b.verdict = a.verdict
  BY <1>1, <1>2, RebindIs
<1>5. b = d
  BY <1>2, <1>3, <1>4, SameCard
<1>6. c.gen = g => d = c
  BY <1>3, SameCard
<1> QED BY <1>1, <1>5, <1>6

\* The generation a reissue derives.
Derives(n) ==
  /\ n # << >> /\ n = <<n[1], n[2], n[3], n[4]>>
  /\ n[1] = m_call.request.id /\ n[2] = m_call.request.gen
  /\ n[3] = m_call.request.prev /\ n[4] = m_call.request.cur

\* The new generation is derived from the request.
LEMMA DerivesIs ==
  ASSUME NEW n, n = NewGen
  PROVE  Derives(n) /\ n = Manual!Derived
<1>1. PICK id, g, prev, cur :
        /\ id = m_call.request.id /\ g = m_call.request.gen
        /\ prev = m_call.request.prev /\ cur = m_call.request.cur
  OBVIOUS
<1>2. n = <<id, g, prev, cur>>
  BY <1>1 DEF NewGen
<1>3. n # << >> /\ n[1] = id /\ n[2] = g /\ n[3] = prev /\ n[4] = cur
  BY <1>2
<1> QED BY <1>1, <1>2, <1>3 DEF Derives, NewGen, Manual!Derived, Manual!q

\* What every step of a reissue knows.
Knows(c, g, n, r) ==
  /\ c = m_files["manual"] /\ g = m_call.request.gen /\ n = NewGen /\ r = Note
  /\ CardAt("manual") /\ WholeCard(c) /\ g \in DOMAIN m_entry /\ ~m_call.resumed
  /\ c.gen \in {g, n}
  /\ m_entry[g].digest = n[3]
  /\ Manual!Digest(Manual!Rebind(c, g)) = n[4]
  /\ r = Manual!NewEntry(Manual!Rebind(c, n)) /\ IsEntry(n, r) /\ r.subject.body = c.body
  /\ IF n \in DOMAIN m_entry THEN m_entry[n] = r
     ELSE Spot(n) \in DOMAIN m_partial /\ m_partial[Spot(n)] = r
  /\ g \in DOMAIN m_close => m_close[g] = Manual!NewClose(g, n[1], "reissued", "manual")

\* A reissue at work has all it needs.
LEMMA ReissueKnows ==
  ASSUME ManualParameters, ManualInv, m_call.at \in ReissueSteps
  PROVE  /\ \E c, g, n, r : Knows(c, g, n, r)
         /\ Reissues /\ (Undisturbed => ReissueCalm)
         /\ m_call.at \in {"publish reissue", "publish retired"} => m_files["manual"].gen = NewGen
         /\ m_call.at = "publish retired" => NewGen \in DOMAIN m_entry
<1>1. Reissues /\ ReissueFits /\ (Undisturbed => ReissueCalm)
  BY StepsOfReissue DEF ManualInv
<1>2. PICK c, g, n, r, d : /\ c = m_files["manual"] /\ g = m_call.request.gen /\ n = NewGen
                              /\ r = Note
                           /\ d = Manual!Rebind(c, n)
  OBVIOUS
<1>3. Derives(n)
  BY <1>2, DerivesIs
<1>4. /\ CardAt("manual") /\ g \in DOMAIN m_entry /\ ~m_call.resumed
      /\ c.gen \in {g, n} /\ m_entry[g].digest = n[3] /\ Manual!Digest(Manual!Rebind(c, g)) = n[4]
      /\ r = Manual!NewEntry(d)
      /\ IF n \in DOMAIN m_entry THEN m_entry[n] = r
         ELSE Spot(n) \in DOMAIN m_partial /\ m_partial[Spot(n)] = r
      /\ g \in DOMAIN m_close => m_close[g] = Manual!NewClose(g, n[1], "reissued", "manual")
      /\ m_call.at \in {"publish reissue", "publish retired"} => c.gen = n
      /\ m_call.at = "publish retired" => n \in DOMAIN m_entry
  BY <1>1, <1>2, <1>3 DEF ReissueFits, Derives
<1>5. WholeCard(c)
  BY <1>2, <1>4, CardOnly
<1>6. WholeCard(d) /\ d.gen = n /\ d.body = c.body
  BY <1>2, <1>5, RebindIs
<1>7. IsEntry(n, r) /\ r.subject = d
  BY <1>4, <1>6, NewEntryIs
<1>8. Knows(c, g, n, r)
  BY <1>2, <1>4, <1>5, <1>6, <1>7 DEF Knows
<1>9. \E cc, gg, nn, rr : Knows(cc, gg, nn, rr)
  BY <1>8
<1> QED BY <1>1, <1>2, <1>4, <1>9

\* Only the rewritten card has no entry.
LEMMA RewrittenIs ==
  ASSUME NEW c, NEW g, NEW n, NEW r, Knows(c, g, n, r), Derives(n), Rewritten
  PROVE  c.gen = n /\ n \notin DOMAIN m_entry /\ Unowned(g, n[1])
<1>1. c.gen = n /\ n \notin DOMAIN m_entry
  BY DEF Knows, Rewritten
<1>2. n[2] = g
  BY DEF Derives, Knows
<1> QED BY <1>1, <1>2 DEF Rewritten, Knows

\* The request of a reissue is given up, or the card is rewritten for it.
LEMMA WithoutReissue ==
  ASSUME Reissues, m_call.at # "idle", Well(Asked)
  PROVE  Well(m_unanswered \ {m_call.request})
         \/ (Rewritten /\ Derivation(m_files["manual"].gen) = m_call.request)
<1>1. Asked = m_unanswered \cup {m_call.request}
  BY AskedNow
<1>2. m_call.request.kind = "reissue"
  BY DEF Reissues, IsReissue
<1>3. Entering(Asked) => Entering(m_unanswered \ {m_call.request})
  <2>1. EnterTodo # m_call.request
    BY <1>2 DEF EnterTodo
  <2> QED BY <1>1, <2>1 DEF Entering
<1>4. Exiting(Asked) => Exiting(m_unanswered \ {m_call.request})
  <2>1. \A e \in Asked : IsExit(e) => e \in m_unanswered \ {m_call.request}
    BY <1>1, <1>2 DEF IsExit
  <2> QED BY <2>1 DEF Exiting
<1>5. Reissuing(Asked) => Reissuing(m_unanswered \ {m_call.request})
        \/ (Rewritten /\ Derivation(m_files["manual"].gen) = m_call.request)
  BY <1>1 DEF Reissuing
<1> QED BY <1>3, <1>4, <1>5 DEF Well

\* What a step of a reissue has to leave.
LEMMA ReissueFitsAgain ==
  ASSUME NEW c, NEW g, NEW n, NEW r, NEW id, c = m_files'["manual"], g = m_call'.request.gen,
         n = NewGen',
         r = Note', id = m_call'.request.id, CardAt("manual")', g \in DOMAIN m_entry',
           ~m_call'.resumed,
         c.gen \in {g, n}, m_entry'[g].digest = m_call'.request.prev,
         Manual!Digest(Manual!Rebind(c, g)) = m_call'.request.cur,
         r = Manual!NewEntry(Manual!Rebind(c, n)),
         IF n \in DOMAIN m_entry' THEN m_entry'[n] = r
         ELSE Spot(n) \in DOMAIN m_partial' /\ m_partial'[Spot(n)] = r,
         m_call'.at \in {"publish reissue", "publish retired"} => c.gen = n,
         m_call'.at = "publish retired" => n \in DOMAIN m_entry',
         g \in DOMAIN m_close' => m_close'[g] = Manual!NewClose(g, id, "reissued", "manual")',
         m_call'.at \in ReissueSteps, Reissues'
  PROVE  StepFits'
<1>1. ReissueFits'
  BY DEF ReissueFits, Manual!NewClose, Manual!NewEntry, Manual!Rebind, Manual!Digest
<1> QED BY <1>1, ReissueFitsThen

\* A reissue begins (manual_reissue.go).
LEMMA BeginReissueStep ==
  ASSUME ManualParameters, ManualInv, Manual!BeginReissue
  PROVE  ManualInv'
<1>0. PICK c, g, n, d, r, id, name :
        /\ c = m_files["manual"] /\ g = m_call.request.gen /\ n = NewGen /\ d = Manual!Rebind(c, n)
        /\ r = Manual!NewEntry(d) /\ id = m_call.request.id /\ name = Manual!EntryName(n)
  OBVIOUS
<1>1. m_call.at = "begin" /\ m_call.request.kind = "reissue"
  BY DEF Manual!BeginReissue, Manual!At, Manual!q
<1>2. /\ StepFits /\ CallTyped /\ Requests /\ Recorded /\ Data
      /\ (Undisturbed => StepCalm) /\ m_call.at # "idle"
  BY <1>1 DEF ManualInv, Data
<1>3. Reissues /\ "manual" \in Manual!Zone
  BY <1>1, <1>2, RequestOf DEF Manual!Zone
<1>4. ~m_call.resumed
  BY <1>1, <1>2 DEF StepFits
<1>5. Undisturbed => Well(Asked)
  BY <1>1, <1>2 DEF StepCalm
<1>6. n = Manual!Derived /\ Derives(n)
  BY <1>0, DerivesIs
<1>7. PICK f : f = IF Manual!Published(name) = None THEN <<"partial", name, Manual!Key>> ELSE None
  OBVIOUS
<1>8. PICK ok \in BOOLEAN :
        ok <=> Manual!IsCard(c) /\ Manual!PlanReissue(c) /\ Manual!Stageable(name, Manual!Key, r)
  OBVIOUS
<1>9. /\ UNCHANGED <<m_files, m_inbound, m_entry, m_close, m_receipt, m_told, m_seen>>
      /\ IF ok
         THEN /\ Manual!Staged(name, Manual!Key, r) /\ UNCHANGED m_unanswered
              /\ m_call' = [m_call EXCEPT !.at = "stage close", !.original = c, !.record = r,
                 !.wrote = f]
         ELSE Answered /\ UNCHANGED m_partial
  BY <1>0, <1>6, <1>7, <1>8
     DEF Manual!BeginReissue, Manual!Now, Manual!q, Manual!Evidence, Manual!Human,
     Manual!Answers, Answered
<1>10. CASE ok
  <2>1. CardAt("manual") /\ WholeCard(c)
    BY <1>0, <1>2, <1>3, <1>8, <1>10, CardIsThere, CardOnly
  <2>2. /\ g \in DOMAIN m_entry /\ m_entry[g].digest = m_call.request.prev
        /\ \/ c.gen = g /\ Manual!Digest(c) = m_call.request.cur
           \/ c.gen = n /\ Manual!Digest(Manual!Rebind(c, g)) = m_call.request.cur
        /\ Manual!Published(Manual!CloseName(g)) \in {None,
           Manual!NewClose(g, id, "reissued", "manual")}
    BY <1>0, <1>6, <1>8, <1>10 DEF Manual!PlanReissue, Manual!q
  <2>3. Manual!Digest(Manual!Rebind(c, g)) = m_call.request.cur /\ c.gen \in {g, n}
    BY <2>1, <2>2, RebindSame
  <2>4. WholeCard(d) /\ d.gen = n
    BY <1>0, <2>1, RebindIs
  <2>5. IsEntry(n, r)
    BY <1>0, <2>4, NewEntryIs
  <2>6. g \in DOMAIN m_close => m_close[g] = Manual!NewClose(g, id, "reissued", "manual")
    BY <1>2, <2>2, ClosePublished
  <2>7. /\ Recorded' /\ \A h, i : Unowned(h, i) => Unowned(h, i)'
        /\ IF n \in DOMAIN m_entry THEN m_entry[n] = r
           ELSE Spot(n) \in DOMAIN m_partial' /\ m_partial'[Spot(n)] = r
    <3>1. CASE n \in DOMAIN m_entry
      <4>1. Manual!Published(name) = m_entry[n] /\ Manual!Published(name) # None
        BY <1>0, <1>2, <3>1, EntryPublished
      <4>2. m_partial' = m_partial /\ m_entry[n] = r
        BY <1>8, <1>9, <1>10, <4>1 DEF Manual!Staged, Manual!Stageable
      <4> QED BY <1>2, <1>9, <3>1, <4>2, RecordedKept, UnownedKept
    <3>2. CASE n \notin DOMAIN m_entry
      <4>1. Manual!Published(name) = None
        BY <1>0, <1>2, <3>2, EntryPublished
      <4>2. m_partial' = Manual!Put(m_partial, Spot(n), r)
        BY <1>0, <1>9, <1>10, <4>1 DEF Manual!Staged, Spot
      <4> QED BY <1>2, <1>9, <2>5, <3>2, <4>2, StagedEntry
    <3> QED BY <3>1, <3>2
  <2>8. /\ CallTyped' /\ m_call'.at = "stage close" /\ m_call'.original = c /\ m_call'.record = r
        /\ m_call'.wrote = f /\ m_call'.request = m_call.request
        /\ m_call'.links = m_call.links /\ m_call'.resumed = m_call.resumed
    <3>1. m_call' = [m_call EXCEPT !.at = "stage close", !.original = c, !.record = r, !.wrote = f]
      BY <1>9, <1>10, Zenon
    <3>2. CallTyped
      BY <1>2
    <3> QED BY <3>1, <3>2 DEF CallTyped
  <2>9. CardAt("manual")' /\ m_files'["manual"] = c /\ m_entry' = m_entry /\ m_close' = m_close
    BY <1>0, <1>9, <2>1, LiesKept
  <2>10. Note' = r /\ NewGen' = n /\ Reissues' /\ m_call'.at \in ReissueSteps
    BY <1>0, <1>3, <2>8 DEF Note, NewGen, Reissues, ReissueSteps
  <2>11. StepFits'
    <3>1. g \in DOMAIN m_close' => m_close'[g] = Manual!NewClose(g, id, "reissued", "manual")'
      BY <2>6, <2>9 DEF Manual!NewClose
    <3>2. c = m_files'["manual"] /\ g = m_call'.request.gen /\ n = NewGen' /\ r = Note'
            /\ id = m_call'.request.id
      BY <1>0, <2>8, <2>9, <2>10
    <3>3. CardAt("manual")' /\ g \in DOMAIN m_entry' /\ ~m_call'.resumed
      BY <1>4, <2>2, <2>8, <2>9
    <3>4. m_entry'[g].digest = m_call'.request.prev
            /\ Manual!Digest(Manual!Rebind(c, g)) = m_call'.request.cur
      BY <2>2, <2>3, <2>8, <2>9
    <3>5. /\ r = Manual!NewEntry(Manual!Rebind(c, n))
          /\ IF n \in DOMAIN m_entry' THEN m_entry'[n] = r
             ELSE Spot(n) \in DOMAIN m_partial' /\ m_partial'[Spot(n)] = r
      BY <1>0, <2>7, <2>9
    <3>6. m_call'.at \notin {"publish reissue", "publish retired"}
      BY <2>8
    <3> QED BY <2>3, <2>10, <3>1, <3>2, <3>3, <3>4, <3>5, <3>6, ReissueFitsAgain
  <2>12. Descends' /\ Told' /\ (Fresh' => Fresh) /\ Asked' \subseteq Asked
    BY <1>2, <1>9, <1>10, <2>8, DescendsKept, ToldKept DEF Data, Fresh, Asked
  <2>13. ~WroteCard' /\ WroteFits'
    <3>1. CASE f = None
      BY <2>8, <3>1 DEF WroteCard, WroteFits
    <3>2. CASE f = <<"partial", name, Manual!Key>>
      <4>1. name = <<name[1], name[2]>>
        BY <1>0 DEF Manual!EntryName
      <4> QED BY <1>3, <2>8, <2>9, <3>2, <4>1, PaperFits
    <3> QED BY <1>7, <3>1, <3>2
  <2>14. ASSUME Undisturbed PROVE StepCalm'
    <3>1. Proper("manual") \/ Rewritten
      BY <1>5, <2>1, <2>2, <2>14, WellInside DEF Entering, Reissuing, Ready, Baseline, Fresh
    <3>2. Proper("manual") => Proper("manual")'
      BY <1>9, <2>9 DEF Proper
    <3>3. ASSUME Rewritten PROVE Rewritten'
      <4>1. c.gen = n /\ n \notin DOMAIN m_entry
        BY <1>0, <2>2, <2>3, <3>3 DEF Rewritten
      <4>2. r = Manual!NewEntry(c)
        BY <1>0, <2>1, <4>1, RebindSame
      <4>3. Spot(n) \in DOMAIN m_partial' /\ m_partial'[Spot(n)] = Manual!NewEntry(c)
        BY <2>7, <4>1, <4>2
      <4>4. Unowned(n[2], n[1]) => Unowned(n[2], n[1])'
        BY <2>7
      <4> QED BY <1>0, <1>9, <2>9, <3>3, <4>1, <4>3, <4>4
                 DEF Rewritten, Manual!NewClose, Manual!NewEntry,
              Manual!Digest, Manual!Rebind
    <3>4. ReissueCalm'
      BY <2>8, <3>1, <3>2, <3>3 DEF ReissueCalm
    <3> QED BY <2>10, <3>4, ReissueCalmThen
  <2> QED BY <1>9, <2>1, <2>7, <2>8, <2>11, <2>12, <2>13, <2>14, EvidenceStep
<1>11. CASE ~ok
  <2>1. ASSUME Undisturbed PROVE Well(m_unanswered \ {m_call.request})
    <3>1. SUFFICES ASSUME Rewritten, Derivation(m_files["manual"].gen) = m_call.request PROVE FALSE
      BY <1>2, <1>3, <1>5, <2>1, WithoutReissue
    <3>2. PICK x, o : x = c.gen /\ o = m_call.request
      OBVIOUS
    <3>3. o = [kind |-> "reissue", from |-> "manual", to |-> "manual", id |-> x[1], gen |-> x[2],
               prev |-> x[3], cur |-> x[4]]
      BY <1>0, <3>1, <3>2 DEF Derivation
    <3>4. o.id = x[1] /\ o.gen = x[2] /\ o.prev = x[3] /\ o.cur = x[4]
      BY <3>3
    <3>5. x = <<x[1], x[2], x[3], x[4]>>
      BY <1>0, <3>1, <3>2 DEF Rewritten
    <3>6. n = x /\ g = x[2] /\ id = x[1]
      BY <1>0, <3>2, <3>4, <3>5 DEF NewGen
    <3>7. /\ CardAt("manual") /\ n \notin DOMAIN m_entry /\ g \in DOMAIN m_entry
          /\ m_entry[g].digest = o.prev /\ Manual!Digest(Manual!Rebind(c, g)) = o.cur
          /\ g \in DOMAIN m_close => m_close[g] = Manual!NewClose(g, id, "reissued", "manual")
      BY <1>0, <3>1, <3>2, <3>4, <3>6 DEF Rewritten
    <3>8. Manual!IsCard(c)
      BY <1>0, <3>7, CardOnly
    <3>9. Manual!Published(Manual!CloseName(g)) \in {None,
            Manual!NewClose(g, id, "reissued", "manual")}
      BY <1>2, <3>7, ClosePublished
    <3>10. Manual!PlanReissue(c)
      BY <1>0, <1>6, <3>2, <3>6, <3>7, <3>9 DEF Manual!PlanReissue, Manual!q
    <3>11. Manual!Stageable(name, Manual!Key, r)
      BY <1>0, <1>2, <3>7, EntryPublished, EntryUnowned DEF Manual!Stageable
    <3> QED BY <1>8, <1>11, <3>8, <3>10, <3>11
  <2> QED BY <1>2, <1>9, <1>11, <2>1, AnswerStep DEF Answered
<1> QED BY <1>10, <1>11

\* The retired generation's close record is staged.
LEMMA StageRetiredStep ==
  ASSUME ManualParameters, ManualInv, Manual!StageRetired
  PROVE  ManualInv'
<1>1. m_call.at = "stage close" /\ m_call.at \in ReissueSteps
  BY DEF Manual!StageRetired, Manual!At, ReissueSteps
<1>2. /\ StepFits /\ CallTyped /\ Requests /\ Recorded /\ Data /\ m_call.at # "idle"
  BY <1>1 DEF ManualInv, Data
<1>3. Reissues /\ (Undisturbed => ReissueCalm) /\ "manual" \in Manual!Zone
  BY <1>1, ReissueKnows DEF Manual!Zone
<1>4. PICK c, g, n, r : Knows(c, g, n, r)
  BY <1>1, ReissueKnows
<1>5. PICK id, k, name, f :
        /\ id = m_call.request.id /\ k = Manual!NewClose(g, id, "reissued", "manual")
        /\ name = Manual!CloseName(g)
        /\ f = IF Manual!Published(name) = None THEN <<"partial", name, id>> ELSE None
  OBVIOUS
<1>6. Derives(n) /\ n[1] = id /\ g = m_call.request.gen
  BY <1>4, <1>5, DerivesIs DEF Knows, Derives
<1>7. PICK ok \in BOOLEAN : ok <=> Manual!Stageable(name, id, k)
  OBVIOUS
<1>8. /\ UNCHANGED <<m_files, m_inbound, m_entry, m_close, m_receipt, m_unanswered, m_told, m_seen>>
      /\ IF ok THEN /\ Manual!Staged(name, id, k)
                       /\ m_call' = [m_call EXCEPT !.at = "rewrite", !.wrote = f]
         ELSE m_call' = [m_call EXCEPT !.at = "refuse", !.wrote = None] /\ UNCHANGED m_partial
  BY <1>5, <1>6, <1>7
     DEF Manual!StageRetired, Manual!Retired, Manual!q, Manual!Evidence, Manual!Human,
     Manual!Wrote, Manual!Goes
<1>9. CardAt("manual") /\ CardAt("manual")' /\ m_files'["manual"] = c /\ m_entry' = m_entry
        /\ m_close' = m_close
  BY <1>4, <1>8, LiesKept DEF Knows
<1>10. CASE ok
  <2>1. /\ CallTyped' /\ m_call'.at = "rewrite" /\ m_call'.wrote = f
        /\ m_call'.request = m_call.request /\ m_call'.original = m_call.original
        /\ m_call'.record = m_call.record /\ m_call'.resumed = m_call.resumed
        /\ m_call'.links = m_call.links
    BY <1>2, <1>8, <1>10, GoesIs
  <2>2. /\ Recorded' /\ (Unowned(g, id) => Unowned(g, id)')
        /\ Spot(n) \in DOMAIN m_partial =>
             Spot(n) \in DOMAIN m_partial' /\ m_partial'[Spot(n)] = m_partial[Spot(n)]
    <3>1. CASE Manual!Published(name) = None
      <4>1. m_partial' = Manual!Put(m_partial, <<Manual!CloseName(g), id>>, k)
        BY <1>5, <1>8, <1>10, <3>1 DEF Manual!Staged
      <4> QED BY <1>2, <1>8, <4>1, StagedClose
    <3>2. CASE Manual!Published(name) # None
      <4>1. m_partial' = m_partial
        BY <1>8, <1>10, <3>2 DEF Manual!Staged
      <4> QED BY <1>2, <1>8, <4>1, RecordedKept, UnownedKept
    <3> QED BY <3>1, <3>2
  <2>3. Note' = r /\ NewGen' = n /\ Reissues' /\ m_call'.at \in ReissueSteps
    BY <1>3, <1>4, <2>1 DEF Knows, Note, NewGen, Reissues, ReissueSteps
  <2>4. StepFits'
    <3>1. g \in DOMAIN m_close' => m_close'[g] = Manual!NewClose(g, id, "reissued", "manual")'
      BY <1>4, <1>6, <1>9 DEF Manual!NewClose, Knows
    <3>2. c = m_files'["manual"] /\ g = m_call'.request.gen /\ n = NewGen' /\ r = Note'
            /\ id = m_call'.request.id
      BY <1>5, <1>6, <1>9, <2>1, <2>3
    <3>3. CardAt("manual")' /\ g \in DOMAIN m_entry' /\ ~m_call'.resumed /\ c.gen \in {g, n}
      BY <1>4, <1>9, <2>1 DEF Knows
    <3>4. m_entry'[g].digest = m_call'.request.prev
            /\ Manual!Digest(Manual!Rebind(c, g)) = m_call'.request.cur
      BY <1>4, <1>6, <1>9, <2>1 DEF Knows, Derives
    <3>5. /\ r = Manual!NewEntry(Manual!Rebind(c, n))
          /\ IF n \in DOMAIN m_entry' THEN m_entry'[n] = r
             ELSE Spot(n) \in DOMAIN m_partial' /\ m_partial'[Spot(n)] = r
      BY <1>4, <1>9, <2>2 DEF Knows
    <3>6. m_call'.at \notin {"publish reissue", "publish retired"}
      BY <2>1
    <3> QED BY <2>3, <3>1, <3>2, <3>3, <3>4, <3>5, <3>6, ReissueFitsAgain
  <2>5. Descends' /\ Told' /\ (Fresh' => Fresh) /\ Asked' \subseteq Asked
    BY <1>2, <1>8, <2>1, DescendsKept, ToldKept DEF Data, Fresh, Asked
  <2>6. ~WroteCard' /\ WroteFits'
    <3>1. CASE f = None
      BY <2>1, <3>1 DEF WroteCard, WroteFits
    <3>2. CASE f = <<"partial", name, id>>
      <4>1. name = <<name[1], name[2]>> /\ name[1] # "entry"
        BY <1>5 DEF Manual!CloseName
      <4> QED BY <1>3, <1>9, <2>1, <3>2, <4>1, PaperFits
    <3> QED BY <1>5, <3>1, <3>2
  <2>7. ASSUME Undisturbed PROVE StepCalm'
    <3>1. Proper("manual") \/ Rewritten
      BY <1>3, <2>7 DEF ReissueCalm
    <3>2. Proper("manual") => Proper("manual")'
      BY <1>8, <1>9 DEF Proper
    <3>3. g \notin DOMAIN m_close => Unowned(g, id)
      BY <1>2, <1>5, <1>7, <1>10, ClosePublished DEF Manual!Stageable, Unowned
    <3>4. ASSUME Rewritten PROVE Rewritten'
      <4>1. c.gen = n /\ n \notin DOMAIN m_entry /\ Unowned(g, n[1])
        BY <1>4, <1>6, <3>4, RewrittenIs
      <4>2. Unowned(n[2], n[1])'
        BY <1>6, <2>2, <4>1 DEF Derives
      <4>3. c = m_files["manual"] /\ Spot(n) \in DOMAIN m_partial'
              /\ m_partial'[Spot(n)] = m_partial[Spot(n)]
        BY <1>4, <2>2, <4>1 DEF Knows
      <4> QED BY <1>8, <1>9, <3>4, <4>1, <4>2, <4>3 DEF Rewritten, Manual!NewClose, Manual!NewEntry,
              Manual!Digest, Manual!Rebind
    <3>5. ReissueCalm'
      <4>1. m_call'.request.gen = g /\ m_call'.request.id = id
        BY <1>5, <1>6, <2>1
      <4> QED BY <1>9, <2>1, <2>2, <3>1, <3>2, <3>3, <3>4, <4>1 DEF ReissueCalm
    <3> QED BY <2>3, <3>5, ReissueCalmThen
  <2> QED BY <1>8, <1>9, <2>1, <2>2, <2>4, <2>5, <2>6, <2>7, EvidenceStep
<1>11. CASE ~ok
  <2>1. m_call'.at = "refuse" /\ m_call'.resumed = m_call.resumed
          /\ m_call'.request = m_call.request
    BY <1>2, <1>8, <1>11, GoesIs
  <2>2. StepFits'
    BY <1>9, <2>1, RefuseFitsThen
  <2>3. ASSUME Undisturbed PROVE StepCalm'
    <3>1. Proper("manual") \/ Rewritten
      BY <1>3, <2>3 DEF ReissueCalm
    <3>2. ASSUME Rewritten PROVE FALSE
      <4>1. Unowned(g, id)
        BY <1>4, <1>6, <3>2, RewrittenIs
      <4>2. g \in DOMAIN m_close => m_close[g] = k
        BY <1>4, <1>5, <1>6 DEF Knows
      <4>3. Manual!Stageable(name, id, k)
        BY <1>2, <1>5, <4>1, <4>2, ClosePublished DEF Manual!Stageable, Unowned
      <4> QED BY <1>7, <1>11, <4>3
    <3>3. Proper("manual")'
      BY <1>8, <1>9, <3>1, <3>2 DEF Proper
    <3> QED BY <1>3, <2>1, <3>3, RefuseCalmThen DEF Well
  <2>4. SeenTyped' /\ m_seen'.body = m_seen.body /\ (Undisturbed' => Undisturbed)
    BY <1>2, <1>8, SeenKept
  <2> QED BY <1>2, <1>8, <1>11, <2>2, <2>3, <2>4, GoesStep
<1> QED BY <1>10, <1>11

\* The card is given its new generation.
LEMMA RewriteCardStep ==
  ASSUME ManualParameters, ManualInv, Manual!RewriteCard
  PROVE  ManualInv'
<1>1. m_call.at = "rewrite" /\ m_call.at \in ReissueSteps
  BY DEF Manual!RewriteCard, Manual!At, ReissueSteps
<1>2. /\ StepFits /\ CallTyped /\ Requests /\ Recorded /\ Data /\ m_call.at # "idle"
      /\ Descends /\ Told /\ Copied
  BY <1>1 DEF ManualInv, Data
<1>3. Reissues /\ (Undisturbed => ReissueCalm) /\ "manual" \in Manual!Zone
  BY <1>1, ReissueKnows DEF Manual!Zone
<1>4. PICK c, g, n, r : Knows(c, g, n, r)
  BY <1>1, ReissueKnows
<1>5. PICK id, d : id = m_call.request.id /\ d = Manual!Rebind(c, n)
  OBVIOUS
<1>6. Derives(n) /\ n = Manual!Derived /\ n[1] = id /\ g = m_call.request.gen /\ n[2] = g
        /\ n # << >>
  BY <1>4, <1>5, DerivesIs DEF Knows, Derives
<1>7. PICK f : f = IF m_files' = m_files THEN None ELSE <<"card", "manual">>
  OBVIOUS
<1>8. /\ UNCHANGED <<m_inbound, m_entry, m_close, m_partial, m_receipt, m_unanswered, m_told,
         m_seen>>
      /\ m_files' = [m_files EXCEPT !["manual"] = d]
      /\ m_call' = [m_call EXCEPT !.at = "publish reissue", !.wrote = f]
  BY <1>4, <1>5, <1>6, <1>7
     DEF Manual!RewriteCard, Manual!Evidence, Manual!Human, Manual!Wrote, Knows
<1>9. /\ CardAt("manual") /\ c = m_files["manual"] /\ WholeCard(c) /\ g \in DOMAIN m_entry
         /\ c.gen \in {g, n}
      /\ IsEntry(n, r) /\ r.subject.body = c.body /\ r = Manual!NewEntry(d)
      /\ IF n \in DOMAIN m_entry THEN m_entry[n] = r
         ELSE Spot(n) \in DOMAIN m_partial /\ m_partial[Spot(n)] = r
  BY <1>4, <1>5 DEF Knows
<1>10. WholeCard(d) /\ d.gen = n /\ d.body = c.body /\ d.status = c.status
  BY <1>5, <1>9, RebindIs
<1>11. CardAt("manual")' /\ m_files'["manual"] = d
  BY <1>3, <1>8, <1>9, <1>10, WrittenIs
<1>12. c.gen = n => d = c
  BY <1>5, <1>9, RebindSame
<1>13. c.gen # n => n \notin DOMAIN m_entry /\ c.gen = g
  BY <1>2, <1>3, <1>6, <1>9 DEF Descends
<1>14. m_seen.body = c.body /\ m_seen.body \in Copies
  <2>1. m_seen.body = c.body
    BY <1>2, <1>3, <1>9 DEF Copied
  <2>2. Manual!IsRecord(r)
    BY <1>9, EntryIsRecord
  <2> QED BY <1>9, <2>1, <2>2 DEF Copies
<1>15. /\ CallTyped' /\ m_call'.at = "publish reissue" /\ m_call'.wrote = f
       /\ m_call'.request = m_call.request /\ m_call'.original = m_call.original
       /\ m_call'.record = m_call.record /\ m_call'.resumed = m_call.resumed
       /\ m_call'.links = m_call.links
  BY <1>2, <1>8, GoesIs
<1>16. Note' = r /\ NewGen' = n /\ Reissues' /\ m_call'.at \in ReissueSteps
  BY <1>3, <1>4, <1>15 DEF Knows, Note, NewGen, Reissues, ReissueSteps
<1>17. StepFits'
  <2>1. g \in DOMAIN m_close' => m_close'[g] = Manual!NewClose(g, id, "reissued", "manual")'
    BY <1>4, <1>6, <1>8 DEF Manual!NewClose, Knows
  <2>2. d = m_files'["manual"] /\ g = m_call'.request.gen /\ n = NewGen' /\ r = Note'
          /\ id = m_call'.request.id
    BY <1>5, <1>6, <1>11, <1>15, <1>16
  <2>3. CardAt("manual")' /\ g \in DOMAIN m_entry' /\ ~m_call'.resumed /\ d.gen \in {g, n}
    BY <1>4, <1>8, <1>10, <1>11, <1>15 DEF Knows
  <2>4. Manual!Rebind(d, g) = Manual!Rebind(c, g) /\ Manual!Rebind(d, n) = d
    BY <1>5, <1>9, <1>10, RebindSame
  <2>5. m_entry'[g].digest = m_call'.request.prev
          /\ Manual!Digest(Manual!Rebind(d, g)) = m_call'.request.cur
    BY <1>4, <1>6, <1>8, <1>15, <2>4 DEF Knows, Derives
  <2>6. /\ r = Manual!NewEntry(Manual!Rebind(d, n))
        /\ IF n \in DOMAIN m_entry' THEN m_entry'[n] = r
           ELSE Spot(n) \in DOMAIN m_partial' /\ m_partial'[Spot(n)] = r
    BY <1>8, <1>9, <2>4
  <2>7. m_call'.at # "publish retired"
    BY <1>15
  <2> QED BY <1>10, <1>16, <2>1, <2>2, <2>3, <2>5, <2>6, <2>7, ReissueFitsAgain
<1>18. Data'
  <2>1. Recorded' /\ Told' /\ SeenTyped'
    BY <1>2, <1>8, RecordedKept, ToldKept, SeenKept
  <2>2. FirstEntry'
    BY <1>8, <1>9 DEF FirstEntry, Fresh
  <2>3. Descends'
    <3>1. \A z \in Manual!Zone : CardAt(z)' => z = "manual"
      BY <1>3, <1>11 DEF CardAt, Lies
    <3>2. \A h \in DOMAIN m_entry : h # << >> => h[2] \in DOMAIN m_entry /\ h[2] # n
      BY <1>2, <1>3, <1>9, <1>13 DEF Descends
    <3> QED BY <1>6, <1>8, <1>9, <1>10, <1>11, <3>1, <3>2 DEF Descends
  <2> QED BY <1>3, <1>11, <2>1, <2>2, <2>3 DEF Data, CardAt
<1>19. Copied'
  <2>1. m_seen'.body \in Copies' /\ m_files'["manual"].body = m_seen'.body
    BY <1>8, <1>10, <1>11, <1>14, CopiesKept
  <2> QED BY <1>11, <2>1, CopiedFrom
<1>20. Requests'
  BY <1>2, <1>8, <1>15, RequestsKept DEF Asked, Fresh
<1>21. WroteFits'
  BY <1>3, <1>7, <1>11, <1>15 DEF WroteFits
<1>22. ASSUME Undisturbed PROVE StepCalm'
  <2>1. ReissueCalm
    BY <1>3, <1>22
  <2>2. CASE c.gen = n
    <3>1. UNCHANGED m_files
      BY <1>8, <1>9, <1>12, <2>2 DEF CardAt, Lies
    <3>2. Proper("manual")' \/ Rewritten'
      BY <1>8, <2>1, <3>1, CalmKept DEF ReissueCalm
    <3>3. ReissueCalm'
      BY <1>15, <3>2 DEF ReissueCalm
    <3> QED BY <1>16, <3>3, ReissueCalmThen
  <2>3. CASE c.gen # n
    <3>1. ~Rewritten
      BY <1>4, <1>6, <2>3, RewrittenIs
    <3>2. /\ c.status = "manual" /\ m_inbound = "manual" /\ g \notin DOMAIN m_close
          /\ Unowned(g, n[1])
      BY <1>1, <1>5, <1>6, <1>9, <1>13, <2>1, <2>3, <3>1 DEF ReissueCalm, Proper
    <3>3. Unowned(g, n[1])'
      BY <1>8, <3>2, UnownedKept
    <3>4. m_entry[g].digest = n[3] /\ Manual!Digest(Manual!Rebind(d, g)) = n[4]
      BY <1>4, <1>5, <1>9, RebindSame DEF Knows
    <3>5. n = <<n[1], n[2], n[3], n[4]>>
      BY <1>6 DEF Derives
    <3>6. Rewritten'
      BY <1>6, <1>8, <1>9, <1>10, <1>11, <1>13, <2>3, <3>2, <3>3, <3>4, <3>5 DEF Rewritten
    <3>7. ReissueCalm'
      BY <1>15, <3>6 DEF ReissueCalm
    <3> QED BY <1>16, <3>7, ReissueCalmThen
  <2> QED BY <2>2, <2>3
<1>23. Undisturbed' => Undisturbed
  BY <1>2, <1>8, SeenKept
<1> QED BY <1>15, <1>17, <1>18, <1>19, <1>20, <1>21, <1>22, <1>23, AllTogether

\* Answers stay true while the records only grow.
LEMMA ToldGrew ==
  ASSUME Recorded, Told, Grows(m_entry, m_entry'), Grows(m_close, m_close'), m_told' = m_told
  PROVE  Told'
<1>1. \A u \in m_told : u.kind # "enter" => u.gen \in DOMAIN m_entry
  BY DEF Told, Recorded
<1>2. \A u \in m_told :
        IF u.kind = "enter" THEN u.gen \in DOMAIN m_entry' /\ u.evidence = m_entry'[u.gen]
        ELSE /\ u.gen \in DOMAIN m_close' /\ u.evidence = m_close'[u.gen]
             /\ u.kind = "exit" =>
                  Manual!Digest(u.card) = Manual!Digest(
                    Manual!Retarget(Manual!Stamp(m_entry'[u.gen].subject, u.evidence.to)))
  BY <1>1 DEF Told, Grows
<1> QED BY <1>2 DEF Told, Manual!Digest, Manual!Retarget, Manual!Stamp

\* The new generation's entry is published.
LEMMA PublishReissueStep ==
  ASSUME ManualParameters, ManualInv, Manual!PublishReissue
  PROVE  ManualInv'
<1>1. m_call.at = "publish reissue" /\ m_call.at \in ReissueSteps
  BY DEF Manual!PublishReissue, Manual!At, ReissueSteps
<1>2. /\ StepFits /\ CallTyped /\ Requests /\ Recorded /\ Data /\ m_call.at # "idle"
      /\ Descends /\ Told
  BY <1>1 DEF ManualInv, Data
<1>3. Reissues /\ (Undisturbed => ReissueCalm) /\ "manual" \in Manual!Zone
  BY <1>1, ReissueKnows DEF Manual!Zone
<1>4. PICK c, g, n, r : Knows(c, g, n, r)
  BY <1>1, ReissueKnows
<1>5. PICK id : id = m_call.request.id
  OBVIOUS
<1>6. Derives(n) /\ n = Manual!Derived /\ n[1] = id /\ g = m_call.request.gen /\ n[2] = g
        /\ n # << >>
  BY <1>4, <1>5, DerivesIs DEF Knows, Derives
<1>7. /\ CardAt("manual") /\ c = m_files["manual"] /\ WholeCard(c) /\ g \in DOMAIN m_entry
      /\ IsEntry(n, r) /\ (n \in DOMAIN m_entry => m_entry[n] = r) /\ c.gen = n
  BY <1>1, <1>4, ReissueKnows DEF Knows
<1>8. /\ Manual!Finalized(Manual!EntryName(n), Manual!Key, r)
      /\ m_call' = [m_call EXCEPT !.at = "publish retired", !.wrote = None]
      /\ UNCHANGED <<m_files, m_inbound, m_receipt, m_unanswered, m_told, m_seen>>
  BY <1>4, <1>6 DEF Manual!PublishReissue, Manual!Human, Manual!Goes, Knows, Note
<1>9. /\ Recorded' /\ DOMAIN m_entry' = DOMAIN m_entry \cup {n} /\ m_entry'[n] = r
      /\ Grows(m_entry, m_entry') /\ m_close' = m_close
  BY <1>2, <1>7, <1>8, PublishedEntry
<1>10. CardAt("manual")' /\ m_files'["manual"] = c
  BY <1>7, <1>8, LiesKept
<1>11. /\ CallTyped' /\ m_call'.at = "publish retired" /\ m_call'.wrote = None
       /\ m_call'.request = m_call.request /\ m_call'.original = m_call.original
       /\ m_call'.record = m_call.record /\ m_call'.resumed = m_call.resumed
       /\ m_call'.links = m_call.links
  BY <1>2, <1>8, GoesIs
<1>12. Note' = r /\ NewGen' = n /\ Reissues' /\ m_call'.at \in ReissueSteps
  BY <1>3, <1>4, <1>11 DEF Knows, Note, NewGen, Reissues, ReissueSteps
<1>13. m_entry'[g] = m_entry[g] /\ g \in DOMAIN m_entry'
  BY <1>7, <1>9 DEF Grows
<1>14. StepFits'
  <2>1. g \in DOMAIN m_close' => m_close'[g] = Manual!NewClose(g, id, "reissued", "manual")'
    BY <1>4, <1>6, <1>9, <1>13 DEF Manual!NewClose, Knows
  <2>2. c = m_files'["manual"] /\ g = m_call'.request.gen /\ n = NewGen' /\ r = Note'
          /\ id = m_call'.request.id
    BY <1>5, <1>6, <1>10, <1>11, <1>12
  <2>3. ~m_call'.resumed /\ c.gen \in {g, n}
    BY <1>4, <1>11 DEF Knows
  <2>4. m_entry'[g].digest = m_call'.request.prev
          /\ Manual!Digest(Manual!Rebind(c, g)) = m_call'.request.cur
    BY <1>4, <1>6, <1>11, <1>13 DEF Knows, Derives
  <2>5. r = Manual!NewEntry(Manual!Rebind(c, n)) /\ n \in DOMAIN m_entry' /\ m_entry'[n] = r
    BY <1>4, <1>9 DEF Knows
  <2> QED BY <1>7, <1>10, <1>12, <1>13, <2>1, <2>2, <2>3, <2>4, <2>5, ReissueFitsAgain
<1>15. Descends'
  <2>1. n \notin DOMAIN m_entry /\ n # << >>
          => n[2] \in DOMAIN m_entry /\ n[2] # m_files["manual"].gen
    BY <1>6, <1>7
  <2> QED BY <1>2, <1>7, <1>8, <1>9, <2>1, DescendsGrows
<1>16. Told' /\ ~Fresh' /\ Asked' \subseteq Asked /\ ~WroteCard' /\ WroteFits'
  <2>1. Grows(m_close, m_close')
    BY <1>9 DEF Grows
  <2>2. Told'
    BY <1>2, <1>8, <1>9, <2>1, ToldGrew
  <2> QED BY <1>2, <1>8, <1>9, <1>11, <2>2 DEF Fresh, Asked, WroteCard, WroteFits
<1>17. ASSUME Undisturbed PROVE StepCalm'
  <2>1. /\ c.status = "manual" /\ m_inbound = "manual"
        /\ Proper("manual") \/ Rewritten
    BY <1>3, <1>7, <1>17 DEF ReissueCalm, Proper, Rewritten
  <2>2. n \notin DOMAIN m_close
    <3>1. Proper("manual") => n \notin DOMAIN m_close
      BY <1>7 DEF Proper
    <3>2. Rewritten => n \notin DOMAIN m_entry
      BY <1>7 DEF Rewritten
    <3> QED BY <1>2, <2>1, <3>1, <3>2 DEF Recorded
  <2>3. r.digest = Manual!Digest(c)
    <3>1. r = Manual!NewEntry(c)
      BY <1>4, <1>7, RebindSame DEF Knows
    <3> QED BY <1>7, <3>1, NewEntryIs
  <2>4. Proper("manual")'
    BY <1>7, <1>8, <1>9, <1>10, <2>1, <2>2, <2>3 DEF Proper
  <2>5. ReissueCalm'
    BY <1>11, <2>4 DEF ReissueCalm
  <2> QED BY <1>12, <2>5, ReissueCalmThen
<1> QED BY <1>7, <1>8, <1>9, <1>11, <1>14, <1>15, <1>16, <1>17, EvidenceStep

\* The retired generation's close is published and the reissue answered.
LEMMA PublishRetiredStep ==
  ASSUME ManualParameters, ManualInv, Manual!PublishRetired
  PROVE  ManualInv'
<1>1. m_call.at = "publish retired" /\ m_call.at \in ReissueSteps
  BY DEF Manual!PublishRetired, Manual!At, ReissueSteps
<1>2. /\ StepFits /\ CallTyped /\ Requests /\ Recorded /\ Data /\ m_call.at # "idle"
      /\ Descends /\ Told
  BY <1>1 DEF ManualInv, Data
<1>3. Reissues /\ (Undisturbed => ReissueCalm) /\ "manual" \in Manual!Zone
  BY <1>1, ReissueKnows DEF Manual!Zone
<1>4. PICK c, g, n, r : Knows(c, g, n, r)
  BY <1>1, ReissueKnows
<1>5. PICK id, k, t : /\ id = m_call.request.id /\ k = Manual!NewClose(g, id, "reissued", "manual")
                      /\ t = [kind |-> "reissue", gen |-> g, evidence |-> k, card |-> c]
  OBVIOUS
<1>6. Derives(n) /\ n[1] = id /\ g = m_call.request.gen /\ n[2] = g /\ n # << >>
  BY <1>4, <1>5, DerivesIs DEF Knows, Derives
<1>7. /\ CardAt("manual") /\ c = m_files["manual"] /\ g \in DOMAIN m_entry
      /\ n \in DOMAIN m_entry /\ c.gen = n /\ (g \in DOMAIN m_close => m_close[g] = k)
  BY <1>1, <1>4, <1>5, <1>6, ReissueKnows DEF Knows
<1>8. /\ Manual!Finalized(Manual!CloseName(g), id, k)
      /\ Answered /\ m_told' = m_told \cup {t}
      /\ UNCHANGED <<m_files, m_inbound, m_receipt, m_seen>>
  BY <1>5, <1>6, <1>7
     DEF Manual!PublishRetired, Manual!Human, Manual!Succeeds, Manual!Answers, Answered,
     Manual!Retired, Manual!q, Manual!Now
<1>9. IsClose(g, k)
  <2>1. k = [gen |-> g, digest |-> m_entry[g].digest, req |-> id, result |-> "reissued",
          to |-> "manual"]
    BY <1>5 DEF Manual!NewClose
  <2>2. k.req = id /\ k.result = "reissued" /\ k.to = "manual"
    BY <2>1
  <2> QED BY <2>1, <2>2 DEF IsClose
<1>10. /\ Recorded' /\ DOMAIN m_close' = DOMAIN m_close \cup {g} /\ m_close'[g] = k
       /\ Grows(m_close, m_close') /\ m_entry' = m_entry
  BY <1>2, <1>7, <1>8, <1>9, PublishedClose
<1>11. /\ CallTyped' /\ m_call'.at = "idle" /\ ~WroteCard' /\ WroteFits' /\ StepFits'
       /\ Asked' = m_unanswered'
  BY <1>8, RestIs DEF Answered
<1>12. Told'
  <2>1. t.kind = "reissue" /\ t.gen = g /\ t.evidence = k
    BY <1>5
  <2>2. Grows(m_entry, m_entry')
    BY <1>10 DEF Grows
  <2> QED BY <1>2, <1>8, <1>10, <2>1, <2>2, ToldGrows
<1>13. Descends' /\ (Fresh' => Fresh) /\ Asked' \subseteq Asked
  BY <1>2, <1>8, <1>10, <1>11, DescendsKept DEF Fresh, Asked, Answered
<1>14. ASSUME Undisturbed PROVE StepCalm'
  <2>1. Proper("manual")
    BY <1>1, <1>3, <1>14 DEF ReissueCalm
  <2>2. g # n
    BY <1>2, <1>3, <1>6, <1>7 DEF Descends
  <2>3. CardAt("manual")' /\ m_files'["manual"] = c
    BY <1>7, <1>8, LiesKept
  <2>4. Proper("manual")'
    BY <1>7, <1>8, <1>10, <2>1, <2>2, <2>3 DEF Proper
  <2>5. Well(Asked)'
    BY <1>3, <2>4 DEF Well
  <2> QED BY <1>11, <2>5, CalmAtRest
<1> QED BY <1>7, <1>8, <1>10, <1>11, <1>12, <1>13, <1>14, EvidenceStep

-----------------------------------------------------------------------------
(* The invariant and the theorems.                                         *)

\* The invariant holds at the start.
LEMMA ManualBegins == ASSUME ManualParameters, Manual!Init PROVE ManualInv
<1>1. PICK c : c = [body |-> 0, status |-> "todo", links |-> "near", gen |-> << >>,
        verdict |-> FALSE]
  OBVIOUS
<1>2. /\ m_files = [z \in Manual!Zone |-> IF z # "todo" THEN None ELSE c] /\ m_inbound = "todo"
      /\ m_entry = << >> /\ m_close = << >> /\ m_partial = << >> /\ m_receipt = << >>
      /\ m_call = Manual!AtRest /\ m_unanswered = {} /\ m_told = {}
      /\ m_seen = [calls |-> 0, stops |-> 0, edits |-> 0, body |-> 0, torn |-> FALSE,
                   undone |-> FALSE, touched |-> FALSE]
  BY <1>1 DEF Manual!Init, Manual!Original
<1>3. WholeCard(c) /\ c.body = 0 /\ c.status = "todo" /\ c.gen = << >>
  BY <1>1 DEF WholeCard
<1>4. CardAt("todo") /\ m_files["todo"] = c /\ \A z \in Manual!Zone : CardAt(z) => z = "todo"
  <2>1. c \notin {None, Torn}
    BY <1>3, CardIsCard
  <2> QED BY <1>2, <1>3, <2>1 DEF CardAt, Lies, Manual!Zone
<1>5. DOMAIN m_entry = {} /\ DOMAIN m_close = {} /\ DOMAIN m_partial = {}
  BY <1>2
<1>6. SeenTyped /\ m_seen.body = 0
  BY <1>2 DEF SeenTyped
<1>7. \A f : f = << >> => f = [x \in DOMAIN f |-> f[x]]
  OBVIOUS
<1>8. Recorded
  BY <1>2, <1>5, <1>7 DEF Recorded
<1>9. Descends /\ Told /\ FirstEntry
  BY <1>2, <1>3, <1>4, <1>5 DEF Descends, Told, FirstEntry, CardAt
<1>10. Data
  BY <1>4, <1>6, <1>8, <1>9 DEF Data, CardAt, Manual!Zone
<1>11. /\ DOMAIN m_call = {"request", "at", "original", "record", "resumed", "links", "wrote"}
       /\ m_call.at = "idle" /\ m_call.wrote = None /\ m_call.resumed = FALSE
          /\ m_call.links = FALSE
  <2>1. \A a, b :
          LET x == [request |-> None, at |-> "idle", original |-> None, record |-> None,
                    resumed |-> a, links |-> b, wrote |-> None] IN
          /\ DOMAIN x = {"request", "at", "original", "record", "resumed", "links", "wrote"}
          /\ x.at = "idle" /\ x.wrote = None /\ x.resumed = a /\ x.links = b
    OBVIOUS
  <2>2. LET x == Manual!AtRest IN
          /\ DOMAIN x = {"request", "at", "original", "record", "resumed", "links", "wrote"}
          /\ x.at = "idle" /\ x.wrote = None /\ x.resumed = FALSE /\ x.links = FALSE
    BY <2>1, Zenon DEF Manual!AtRest
  <2> QED BY <1>2, <2>2, Zenon
<1>12. CallTyped
  <2>1. m_call.resumed \in BOOLEAN /\ m_call.links \in BOOLEAN
    BY <1>11
  <2> QED BY <1>2, <1>11, <2>1, Zenon DEF CallTyped
<1>13. WroteFits /\ ~WroteCard /\ Asked = {}
  BY <1>2, <1>11 DEF WroteFits, WroteCard, Asked
<1>14. Copied
  BY <1>3, <1>4, <1>6, <1>13, CardOnly DEF Copied, Lies, CardAt
<1>15. Requests
  BY <1>13 DEF Requests
<1>16. StepFits
  BY <1>11 DEF StepFits, EnterSteps, ExitSteps, ReissueSteps
<1>17. Proper("todo")
  BY <1>2, <1>3, <1>4, <1>5 DEF Proper, Fresh
<1>18. StepCalm
  BY <1>11, <1>17 DEF StepCalm, EnterSteps, ExitSteps, ReissueSteps, Well, Manual!Zone
<1> QED BY <1>10, <1>12, <1>13, <1>14, <1>15, <1>16, <1>18 DEF ManualInv

\* The invariant holds where the manual zone rests.
LEMMA ManualRests == ASSUME ManualInv, UNCHANGED Manual!vars PROVE ManualInv'
<1>1. UNCHANGED <<m_files, m_inbound, m_entry, m_close, m_partial, m_receipt, m_call,
        m_unanswered, m_told, m_seen>>
  BY DEF Manual!vars
<1>2. Data' /\ CallTyped' /\ Copied' /\ Requests' /\ (Undisturbed' <=> Undisturbed)
  <2>1. Data' /\ m_seen'.body = m_seen.body
    BY <1>1, DataKept, SeenKept DEF ManualInv
  <2>2. Copied'
    BY <1>1, CopiedKept DEF ManualInv, WroteCard
  <2>3. Asked' \subseteq Asked /\ (Fresh' => Fresh)
    BY <1>1 DEF Asked, Fresh
  <2> QED BY <1>1, <2>1, <2>2, <2>3, RequestsKept DEF ManualInv, CallTyped, Undisturbed
<1>3. \A w : CardAt(w) <=> CardAt(w)'
  BY <1>1, LiesKept
<1>4. WroteFits'
  BY <1>1, <1>3 DEF ManualInv, WroteFits
<1>5. /\ EnterFits => EnterFits'
      /\ ExitFits => ExitFits'
      /\ ReissueFits => ReissueFits'
  <2>1. EnterFits => EnterFits'
    BY <1>1, <1>3 DEF EnterFits, Staging, EntryForms, IsEntry, Out, Was, Note
  <2>2. ExitFits => ExitFits'
    BY <1>1, <1>3 DEF ExitFits, Forms, Into, Was, Note
  <2>3. ReissueFits => ReissueFits'
    BY <1>1, <1>3 DEF ReissueFits, NewGen, Note, Manual!NewClose
  <2> QED BY <2>1, <2>2, <2>3
<1>6. StepFits'
  BY <1>1, <1>3, <1>5 DEF ManualInv, StepFits, Enters, Exits, Reissues, Note
<1>7. /\ EnterCalm => EnterCalm'
      /\ ExitCalm => ExitCalm'
      /\ ReissueCalm => ReissueCalm'
  <2>1. /\ (Baseline => Baseline') /\ (Ready => Ready') /\ (Rewritten => Rewritten')
        /\ \A w : (Proper(w) => Proper(w)') /\ (Leaving(w) => Leaving(w)')
        /\ \A g, id : Unowned(g, id) => Unowned(g, id)'
    BY <1>1, CalmKept, UnownedKept
  <2>2. EnterCalm => EnterCalm'
    <3>1. /\ m_call' = m_call /\ m_inbound' = m_inbound /\ (Fresh => Fresh') /\ Out' = Out
             /\ Was' = Was
          /\ Note' = Note /\ (Proper("todo") => Proper("todo")')
          /\ (Baseline => Baseline') /\ (Ready => Ready')
      BY <1>1, <2>1 DEF Fresh, Out, Was, Note
    <3>2. CASE m_call.at = "move"
      BY <3>1, <3>2 DEF EnterCalm
    <3>3. CASE m_call.at = "restore"
      BY <3>1, <3>3 DEF EnterCalm
    <3>4. CASE m_call.at # "move" /\ m_call.at # "restore"
      BY <3>1, <3>4 DEF EnterCalm
    <3> QED BY <3>2, <3>3, <3>4
  <2>3. ExitCalm => ExitCalm'
    <3>1. PICK w, g, id, n : w = Into /\ g = Note.gen /\ id = m_call.request.id /\ n = Note
      OBVIOUS
    <3>2. /\ m_call' = m_call /\ m_inbound' = m_inbound /\ Into' = w /\ Was' = Was /\ Note' = n
          /\ m_files' = m_files /\ m_entry' = m_entry /\ m_close' = m_close
             /\ m_receipt' = m_receipt
          /\ (Proper("manual") => Proper("manual")') /\ (Proper(w) => Proper(w)')
          /\ (Leaving(w) => Leaving(w)') /\ (Unowned(g, id) => Unowned(g, id)')
      BY <1>1, <2>1, <3>1 DEF Into, Was, Note
    <3>3. CASE m_call.at = "move"
      BY <3>1, <3>2, <3>3 DEF ExitCalm
    <3>4. CASE m_call.at = "restore"
      BY <3>1, <3>2, <3>4 DEF ExitCalm
    <3>5. CASE m_call.at # "move" /\ m_call.at # "restore"
      BY <3>1, <3>2, <3>5 DEF ExitCalm
    <3> QED BY <3>3, <3>4, <3>5
  <2>4. ReissueCalm => ReissueCalm'
    <3>1. PICK g, id : g = m_call.request.gen /\ id = m_call.request.id
      OBVIOUS
    <3>2. /\ m_call' = m_call /\ m_close' = m_close /\ (Unowned(g, id) => Unowned(g, id)')
          /\ (Proper("manual") => Proper("manual")') /\ (Rewritten => Rewritten')
      BY <1>1, <2>1
    <3> QED BY <3>1, <3>2 DEF ReissueCalm
  <2> QED BY <2>2, <2>3, <2>4
<1>8. ASSUME StepCalm PROVE StepCalm'
  <2>1. /\ Well(Asked) => Well(Asked)'
        /\ Well(m_unanswered \ {m_call.request}) => Well(m_unanswered \ {m_call.request})'
    <3>1. PICK a, b : a = Asked /\ b = m_unanswered \ {m_call.request}
      OBVIOUS
    <3>2. Asked' = a /\ (m_unanswered \ {m_call.request})' = b
      BY <1>1, <3>1 DEF Asked
    <3>3. (Well(a) => Well(a)') /\ (Well(b) => Well(b)')
      BY <1>1, WellKept
    <3> QED BY <3>1, <3>2, <3>3 DEF Well, Entering, Exiting, Reissuing
  <2> QED BY <1>1, <1>7, <1>8, <2>1 DEF StepCalm, Enters, Exits, Reissues
<1> QED BY <1>2, <1>4, <1>6, <1>8, AllTogether DEF ManualInv

\* Every step keeps the invariant.
LEMMA ManualSteps ==
  ASSUME ManualParameters, ManualInv, [Manual!Next]_(Manual!vars) PROVE ManualInv'
<1>1. CASE Manual!Call
  BY <1>1, CallStep
<1>2. CASE Manual!Work
  BY <1>2, BeginEntryStep, RecordEntryStep, PublishEntryStep, ResumeEntryStep, BeginExitStep,
     ResumeExitStep, PublishCloseStep, MoveCardStep, StampCardStep, RetargetOutboundStep,
     RetargetInboundStep, UndoLinksStep, UnstageStep, MoveBackStep, RestoreBytesStep, RefuseStep,
     BeginReissueStep, StageRetiredStep, RewriteCardStep, PublishReissueStep, PublishRetiredStep
  DEF Manual!Work
<1>3. CASE Manual!StepFails
  BY <1>3, StepFailsStep
<1>4. CASE \E torn \in BOOLEAN : Manual!Kill(torn)
  BY <1>4, KillWhole, KillTorn
<1>5. CASE \E g \in DOMAIN m_entry, result \in DOMAIN Manual!Results :
        Manual!WriteReceipt(g, result)
  BY <1>5, WriteReceiptStep
<1>6. CASE \E zone \in Manual!Zone, body \in BOOLEAN : Manual!Edit(zone, body)
  BY <1>6, EditStep
<1>7. CASE UNCHANGED Manual!vars
  BY <1>7, ManualRests
<1> QED BY <1>1, <1>2, <1>3, <1>4, <1>5, <1>6, <1>7 DEF Manual!Next

\* The invariant is strong enough.
LEMMA ManualInvHolds == ASSUME ManualParameters, ManualInv PROVE Manual!ManualKept
<1>1. Data /\ CallTyped /\ Copied /\ Recorded /\ Told
  BY DEF ManualInv, Data
<1>2. PICK w \in Manual!Zone : Lies(w)
  BY <1>1 DEF Data
<1>3. Manual!TypeOK
  <2>1. {z \in Manual!Zone : Manual!Now(z) # None} = {w}
    BY <1>2, LiesOnly DEF Manual!Now
  <2>2. Manual!Cardinality({z \in Manual!Zone : Manual!Now(z) # None}) = 1
    <3>1. Cardinality({w}) = 1
      BY FS_Singleton
    <3>2. Manual!Cardinality({w}) = 1
      BY <3>1 DEF Manual!Cardinality, Cardinality
    <3> QED BY <2>1, <3>2
  <2>3. \A g \in DOMAIN m_entry : m_entry[g].gen = g /\ m_entry[g].subject.gen = g
    BY <1>1, EntryIsRecord DEF Recorded
  <2>4. \A g \in DOMAIN m_close : m_close[g].gen = g /\ m_close[g].digest = m_entry[g].digest
    BY <1>1 DEF Recorded, IsClose
  <2>5. \A t \in m_told : t.evidence = IF t.kind = "enter" THEN Manual!Get(m_entry, t.gen)
                                       ELSE Manual!Get(m_close, t.gen)
    BY <1>1 DEF Told, Manual!Get
  <2>6. Manual!At("idle") => m_call = Manual!AtRest
    BY <1>1 DEF CallTyped, Manual!At
  <2> QED BY <2>2, <2>3, <2>4, <2>5, <2>6 DEF Manual!TypeOK, Manual!At
<1>4. Manual!LeavesAsEntered
  BY <1>1 DEF Told, Manual!LeavesAsEntered
<1>5. Manual!Settles
  <2>1. SUFFICES ASSUME m_call.at = "idle", m_unanswered = {}, Undisturbed, NEW z \in Manual!Zone,
                        m_files[z] # None
                 PROVE  /\ m_files[z].status = z /\ m_inbound = z
                        /\ IF z = "manual"
                           THEN /\ m_files[z].gen \in DOMAIN m_entry \ DOMAIN m_close
                                /\ m_entry[m_files[z].gen].digest = Manual!Digest(m_files[z])
                           ELSE m_files[z].gen \in DOMAIN m_entry
                             => m_files[z].gen \in DOMAIN m_close
    BY DEF Manual!Settles, Manual!At, Manual!Now, Undisturbed
  <2>2. Asked = {} /\ Well(Asked)
    BY <2>1 DEF Asked, ManualInv, StepCalm
  <2>3. PICK v \in Manual!Zone : Proper(v)
    BY <2>2 DEF Well, Entering, Exiting, Reissuing
  <2>4. v = z
    BY <2>1, <2>3, CardOnly DEF Proper
  <2> QED BY <2>3, <2>4 DEF Proper
<1>6. Manual!TextSurvives
  <2>1. Copies \subseteq Manual!Bodies
    BY DEF Copies, Manual!Bodies
  <2>2. CASE m_files[w] = Torn
    BY <1>1, <1>2, <2>1, <2>2 DEF Copied, Manual!TextSurvives
  <2>3. CASE m_files[w] # Torn
    <3>1. CardAt(w)
      BY <1>2, <2>3 DEF Lies, CardAt
    <3>2. Manual!IsCard(m_files[w]) /\ m_files[w].body = m_seen.body
      BY <1>1, <1>2, <3>1, CardOnly DEF Copied
    <3> QED BY <1>2, <3>2 DEF Manual!TextSurvives, Manual!Bodies, Manual!Now
  <2> QED BY <2>2, <2>3
<1> QED BY <1>3, <1>4, <1>5, <1>6 DEF Manual!ManualKept

\* What the human entered comes out, calls leave the card settled, and its text is
\* somewhere at every moment (EnterManual, ExitManual, ReissueManual).
THEOREM ManualKeptAlone ==
  ASSUME ManualParameters PROVE Manual!Spec => []Manual!ManualKept
<1>1. Manual!Init => ManualInv
  BY ManualBegins
<1>2. ManualInv /\ [Manual!Next]_(Manual!vars) => ManualInv'
  BY ManualSteps
<1>3. ManualInv => Manual!ManualKept
  BY ManualInvHolds
<1> QED BY <1>1, <1>2, <1>3, PTL DEF Manual!Spec

\* It is so in LooseProtocols too, where the other protocols rest (EnterManual).
THEOREM ManualKeptAlways ==
  ASSUME ManualParameters PROVE Behaviour => []ManualKept
<1>1. ManualInv => ManualKept
  BY ManualInvHolds DEF ManualKept
<1>2. Begins => ManualInv
  BY ManualBegins DEF Begins
<1>3. ManualInv /\ [Continues]_all => ManualInv'
  <2>1. manual' = manual => Manual!vars' = Manual!vars
    BY DEF manual, Manual!vars
  <2>2. [Continues]_all => [Manual!Next]_(Manual!vars)
    BY <2>1 DEF Continues, all
  <2> QED BY <2>2, ManualSteps
<1> QED BY <1>1, <1>2, <1>3, PTL DEF Behaviour

=========================================================================
