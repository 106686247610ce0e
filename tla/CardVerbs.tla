----------------------------- MODULE CardVerbs -----------------------------
(***************************************************************************)
(* task move, archive, new and promote (internal/taskflow: move.go,        *)
(* newcard.go, promote.go, files.go; internal/cardid: the reservation      *)
(* ledger).  No verb takes a lock on the board.                            *)
(*                                                                         *)
(* A moved card here links to nothing, so a move rewrites the links of     *)
(* other documents only.                                                   *)
(***************************************************************************)
EXTENDS CardFiles

Steps == UNCHANGED <<aside, lock, evidence, retained, acts>>

-----------------------------------------------------------------------------
(* Move and archive.                                                       *)

\* MoveCard: the destination must not be there.
Move(p, q, zone) ==
  /\ run[p].cmd = "none"
  /\ q \in DOMAIN board /\ q[1] \in {"todo", "doing", "review", "blocked", "done"}
  /\ LET dst == <<zone, q[2]>>
     IN run' = [run EXCEPT ![p] =
          IF q[1] = zone THEN [Begin(p, "move", "cell") EXCEPT !.src = q, !.dst = q]
          ELSE IF Has(dst) THEN [Idle EXCEPT !.cmd = "move"]
          ELSE [Begin(p, "move", "rename") EXCEPT !.src = q, !.dst = dst, !.seen = Looked(dst)]]
  /\ UNCHANGED board /\ Steps /\ UNCHANGED reservation

\* ArchiveCard: the word is stamped before the card moves.
Archive(p, q) ==
  /\ run[p].cmd = "none"
  /\ q \in DOMAIN board /\ q[1] \notin {"archive", "receipts"}
  /\ LET dst == <<"archive", q[2]>>
     IN run' = [run EXCEPT ![p] =
          IF Has(dst) THEN [Idle EXCEPT !.cmd = "archive"]
          ELSE [Begin(p, "archive", "word") EXCEPT !.src = q, !.dst = dst, !.seen = Looked(dst)]]
  /\ UNCHANGED board /\ Steps /\ UNCHANGED reservation

\* moveFile: git mv refuses a destination, the rename it falls back to does not.
Rename(p) ==
  /\ run[p].cmd \in {"move", "archive"} /\ run[p].at = "rename"
  /\ LET r == run[p]
     IN IF Has(r.src)
        THEN /\ board' = Put(Without(board, r.src), r.dst, board[r.src])
             /\ Goes(p, IF r.cmd = "move" THEN "cell" ELSE "links")
        ELSE UNCHANGED board /\ Ends(p)
  /\ Steps /\ UNCHANGED reservation

\* The file a command is stamping: a moved card where it went, others in place.
Stamped(r) == IF r.cmd = "move" THEN r.dst ELSE r.src

\* rewriteStatusCell and stampFrontmatterField read the file, then write it.
ReadStamp(p) ==
  /\ run[p].cmd \in {"move", "archive"} /\ run[p].at \in {"cell", "word"} /\ run[p].text = None
  /\ LET q == Stamped(run[p])
     IN IF Has(q)
        THEN run' = [run EXCEPT ![p].text = board[q], ![p].seen = SeesToo(p, Looked(q))]
        ELSE Ends(p)
  /\ UNCHANGED board /\ Steps /\ UNCHANGED reservation

WriteStamp(p) ==
  /\ run[p].cmd \in {"move", "archive"} /\ run[p].at \in {"cell", "word"} /\ run[p].text # None
  /\ LET r == run[p]
         zone == IF r.cmd = "move" THEN r.dst[1] ELSE "done"
         new == IF r.at = "cell" THEN [r.text EXCEPT !.cell = zone] ELSE [r.text EXCEPT !.word = zone]
         next == IF r.at = "cell" THEN "word"
                 ELSE IF r.cmd = "archive" THEN "rename"
                 ELSE IF r.src = r.dst THEN "end" ELSE "links"
     IN /\ board' = Put(board, Stamped(r), new)
        /\ IF next = "end" THEN Ends(p)
           ELSE run' = [run EXCEPT ![p].at = next, ![p].text = None]
  /\ Steps /\ UNCHANGED reservation

\* reconcileInbound, document by document; archived documents are left alone.
ReadLinks(p) ==
  /\ run[p].cmd \in {"move", "archive"} /\ run[p].at = "links" /\ run[p].text = None
  /\ LET hits == {d \in Linking(run[p].src) : d[1] # "archive" /\ d # run[p].dst}
     IN IF hits = {} THEN Ends(p)
        ELSE \E d \in hits : run' = [run EXCEPT ![p].text = board[d], ![p].left = {d},
                                                ![p].seen = SeesToo(p, Looked(d))]
  /\ UNCHANGED board /\ Steps /\ UNCHANGED reservation

WriteLinks(p) ==
  /\ run[p].cmd \in {"move", "archive"} /\ run[p].at = "links" /\ run[p].text # None
  /\ \E d \in run[p].left : board' = Put(board, d, [run[p].text EXCEPT !.link = run[p].dst])
  /\ run' = [run EXCEPT ![p].text = None, ![p].left = {}]
  /\ Steps /\ UNCHANGED reservation

-----------------------------------------------------------------------------
(* New and promote.                                                        *)

\* Without --id the number is the next one that is free.
New(p) ==
  /\ run[p].cmd = "none"
  /\ run' = [run EXCEPT ![p] = Begin(p, "new", "floor")]
  /\ UNCHANGED board /\ Steps /\ UNCHANGED reservation

\* With --id the number is the caller's: neither the board nor the ledger is read.
NewById(p, n) ==
  /\ run[p].cmd = "none"
  /\ run' = [run EXCEPT ![p] = [Begin(p, "new", "write") EXCEPT !.number = -n]]
  /\ UNCHANGED board /\ Steps /\ UNCHANGED reservation

\* promoteCandidates with --all-open: the open issues without a link.
Promote(p) ==
  /\ run[p].cmd = "none"
  /\ LET open == {q \in DOMAIN board : q[1] = "issue" /\ board[q].promoted = {}}
     IN run' = [run EXCEPT ![p] = [Begin(p, "promote", "next") EXCEPT !.left = open]]
  /\ UNCHANGED board /\ Steps /\ UNCHANGED reservation

\* The loop of Promote: the next issue, or the end.
NextIssue(p) ==
  /\ Is(p, "promote", "next")
  /\ IF run[p].left = {} THEN Ends(p)
     ELSE \E q \in run[p].left :
            run' = [run EXCEPT ![p].at = "floor", ![p].src = q, ![p].left = @ \ {q}]
  /\ UNCHANGED board /\ Steps /\ UNCHANGED reservation

\* A failed promotion deletes what it created; a failed creation just ends.
GivesUp(p) == IF run[p].cmd = "promote" THEN Goes(p, "undo") ELSE Ends(p)

\* ScanFloor lists the directories under tasks/ once.  A zone without a file may
\* have one too.
Floor(p) ==
  /\ run[p].cmd \in {"new", "promote"} /\ run[p].at = "floor"
  /\ \E empty \in SUBSET Vacant :
       run' = [run EXCEPT ![p].at = "walk", ![p].number = 0, ![p].files = {},
                          ![p].zones = {q[1] : q \in DOMAIN board} \cup empty]
  /\ UNCHANGED board /\ Steps /\ UNCHANGED reservation

Higher(m, n) == IF m > n THEN m ELSE n
Walks(p) == run[p].cmd \in {"new", "promote"} /\ run[p].at = "walk"

\* A directory is listed when the walk comes to it; one that an exchange has left
\* out since fails the scan.
ListZone(p) ==
  /\ Walks(p) /\ run[p].files = {} /\ run[p].zones # {}
  /\ LET zone == Foremost(run[p].zones)
         cards == {q \in DOMAIN board : q[1] = zone}
     IN \/ run' = [run EXCEPT ![p].zones = @ \ {zone},
                              ![p].files = {q \in cards : NumberOf(q[2]) > 0}]
        \/ cards = {} /\ retained # Nothing /\ GivesUp(p)
  /\ UNCHANGED board /\ Steps /\ UNCHANGED reservation

\* A file that is gone by now contributes nothing.
ReadFile(p) ==
  /\ Walks(p)
  /\ \E q \in run[p].files :
       run' = [run EXCEPT ![p].files = @ \ {q},
                          ![p].number = IF Has(q) THEN Higher(@, NumberOf(q[2])) ELSE @]
  /\ UNCHANGED board /\ Steps /\ UNCHANGED reservation

\* RefFloor: what the commits on any ref name.  No command here commits.
RefFloor(p) ==
  /\ Walks(p) /\ run[p].files = {} /\ run[p].zones = {}
  /\ run' = [run EXCEPT ![p].at = "lock", ![p].number = Higher(@, RefHighest)]
  /\ UNCHANGED board /\ Steps /\ UNCHANGED reservation

\* lockReservation: the sentinel is created, or has been there too long, its
\* holder dead or slow.
TakeSentinel(p) ==
  /\ run[p].cmd \in {"new", "promote"} /\ run[p].at = "lock"
  /\ IF reservation.holder = None
     THEN reservation' = [reservation EXCEPT !.holder = p] /\ Goes(p, "reserve")
     ELSE UNCHANGED reservation /\ GivesUp(p)
  /\ UNCHANGED board /\ Steps

\* Mutant of Reached: a ledger that is there counts alone, the floor does not.
ReachedRecorded(p) == reservation.highest

\* Next: one more than the ledger and the floor, recorded before it is used.
Reached(p) == Higher(reservation.highest, run[p].number)

Reserve(p) ==
  /\ run[p].cmd \in {"new", "promote"} /\ run[p].at = "reserve"
  /\ LET next == Reached(p) + 1
     IN IF next > MaxNumber
        THEN reservation' = [reservation EXCEPT !.holder = None] /\ GivesUp(p)
        ELSE /\ reservation' = [reservation EXCEPT !.highest = next]
             /\ run' = [run EXCEPT ![p].at = "release", ![p].number = next]
  /\ UNCHANGED board /\ Steps

Release(p) ==
  /\ run[p].cmd \in {"new", "promote"} /\ run[p].at = "release"
  /\ reservation' = [reservation EXCEPT !.holder = None]
  /\ Goes(p, "write")
  /\ UNCHANGED board /\ Steps

\* render: a card in todo that links to nothing.
NewCard == [First EXCEPT !.by = Made]

\* writeNewFile: the file must not be there.
WriteNew(p) ==
  /\ run[p].cmd \in {"new", "promote"} /\ run[p].at = "write"
  /\ LET q == <<"todo", run[p].number>>
     IN IF Has(q) THEN UNCHANGED board /\ GivesUp(p)
        ELSE /\ board' = Put(board, q, NewCard)
             /\ IF run[p].cmd = "new" THEN Ends(p)
                ELSE run' = [run EXCEPT ![p].at = "stamp", ![p].made = @ \cup {q},
                                        ![p].seen = SeesToo(p, [x \in {q} |-> NewCard])]
  /\ Steps /\ UNCHANGED reservation

\* stampPromotedTo inserts a link beside any that is there.
ReadIssue(p) ==
  /\ Is(p, "promote", "stamp") /\ run[p].text = None
  /\ LET q == run[p].src
     IN IF Has(q)
        THEN run' = [run EXCEPT ![p].text = board[q], ![p].seen = SeesToo(p, Looked(q))]
        ELSE GivesUp(p)
  /\ UNCHANGED board /\ Steps /\ UNCHANGED reservation

WriteIssue(p) ==
  /\ Is(p, "promote", "stamp") /\ run[p].text # None
  /\ board' = Put(board, run[p].src, [run[p].text EXCEPT !.promoted = @ \cup {run[p].number}])
  /\ run' = [run EXCEPT ![p].at = "next", ![p].text = None]
  /\ Steps /\ UNCHANGED reservation

\* The rollback: whatever is at the paths it created; earlier links stay.
Undo(p) ==
  /\ Is(p, "promote", "undo")
  /\ IF run[p].made = {} THEN Ends(p) /\ UNCHANGED board
     ELSE \E q \in run[p].made :
            /\ board' = Without(board, q)
            /\ run' = [run EXCEPT ![p].made = @ \ {q}]
  /\ Steps /\ UNCHANGED reservation

VerbStep(p) ==
  \/ Rename(p) \/ ReadStamp(p) \/ WriteStamp(p) \/ ReadLinks(p) \/ WriteLinks(p)
  \/ NextIssue(p) \/ Floor(p) \/ ListZone(p) \/ ReadFile(p) \/ RefFloor(p)
  \/ TakeSentinel(p) \/ Reserve(p) \/ Release(p) \/ WriteNew(p)
  \/ ReadIssue(p) \/ WriteIssue(p) \/ Undo(p)
=============================================================================
