-------------------------- MODULE BoardMaintenance --------------------------
(***************************************************************************)
(* task reconcile, task cleanup and task maintenance (internal/boardruntime *)
(* with internal/taskruntime/guard.go).  Each holds the runtime mutation    *)
(* lock while it changes the board; editors and the verbs do not wait for   *)
(* it, so each sets files aside, looks at what it has, and puts it back     *)
(* when it is not what was proved.                                          *)
(*                                                                         *)
(* The group of the cleanup is one finished card and the one file it owns;  *)
(* the plan of the maintenance moves the card in doing to todo.             *)
(***************************************************************************)
EXTENDS CardFiles

Keeps == UNCHANGED <<reservation, evidence, acts>>
Stops(p) == Ends(p) /\ Unlocks(p)

TakesLock(p, at) == lock = None /\ lock' = p /\ Goes(p, at)

-----------------------------------------------------------------------------
(* Reconcile.                                                              *)

Reconcile(p) ==
  /\ run[p].cmd = "none"
  /\ lock = None
  /\ lock' = p
  /\ run' = [run EXCEPT ![p] = Begin(p, "reconcile", "scan")]
  /\ UNCHANGED <<board, aside, retained>> /\ Keeps

\* reconcileCandidates: one card of that identity on the board, in doing, and
\* one delivery execution with a receipt that binds it.
Terminal == evidence[DoingTask] \in {"abort", "done"}
Candidate == Has(DoingCard) /\ Homes(DoingNumber) = {DoingCard} /\ Terminal
Target == <<IF evidence[DoingTask] = "abort" THEN "blocked" ELSE "review", DoingTask>>

Scan(p) ==
  /\ Is(p, "reconcile", "scan")
  /\ IF Candidate
     THEN /\ run' = [run EXCEPT ![p].at = "again", ![p].text = board[DoingCard], ![p].dst = Target]
          /\ UNCHANGED lock
     ELSE Stops(p)
  /\ UNCHANGED <<board, aside, retained>> /\ Keeps

\* Reconcile looks again before each move; reconcileMove wants no destination.
ScanAgain(p) ==
  /\ Is(p, "reconcile", "again")
  /\ IF Candidate /\ board[DoingCard] = run[p].text /\ ~Has(run[p].dst)
     THEN Goes(p, "claim") /\ UNCHANGED lock
     ELSE Stops(p)
  /\ UNCHANGED <<board, aside, retained>> /\ Keeps

\* The card goes to the recovery directory, whatever it is by now.
Claim(p) ==
  /\ Is(p, "reconcile", "claim")
  /\ IF Has(DoingCard)
     THEN /\ board' = Without(board, DoingCard)
          /\ aside' = [aside EXCEPT ![p] = Put(@, DoingCard, board[DoingCard])]
          /\ Goes(p, "verify") /\ UNCHANGED lock
     ELSE UNCHANGED <<board, aside>> /\ Stops(p)
  /\ UNCHANGED retained /\ Keeps

\* Mutant of VerifyClaim: what has come to the destination is not looked at.
VerifyClaimBytes(p) ==
  /\ Is(p, "reconcile", "verify")
  /\ LET r == run[p]
     IN IF aside[p][DoingCard] # r.text \/ Has(DoingCard)
        THEN run' = [run EXCEPT ![p].at = "restore", ![p].left = {DoingCard}]
        ELSE Goes(p, "publish")
  /\ UNCHANGED <<board, aside, lock, retained>> /\ Keeps

\* The claimed bytes, the source and the destination, in this order.
VerifyClaim(p) ==
  /\ Is(p, "reconcile", "verify")
  /\ LET r == run[p]
     IN IF aside[p][DoingCard] # r.text \/ Has(DoingCard) \/ Has(r.dst)
        THEN run' = [run EXCEPT ![p].at = "restore", ![p].left = {DoingCard}]
        ELSE run' = [run EXCEPT ![p].at = "publish", ![p].seen = Looked(r.dst)]
  /\ UNCHANGED <<board, aside, lock, retained>> /\ Keeps

\* The rewritten text is renamed to the destination; the claimed one stays.
Publish(p) ==
  /\ Is(p, "reconcile", "publish")
  /\ board' = Put(board, run[p].dst, [run[p].text EXCEPT !.cell = run[p].dst[1]])
  /\ Stops(p)
  /\ UNCHANGED <<aside, retained>> /\ Keeps

-----------------------------------------------------------------------------
(* Putting back what was set aside: not over what has come there since.    *)

LookBack(p) ==
  /\ run[p].at = "restore" /\ run[p].stage = Nothing
  /\ IF run[p].left = {}
     THEN Stops(p)
     ELSE /\ \E q \in run[p].left :
               run' = IF Has(q) THEN [run EXCEPT ![p].left = @ \ {q}]
                      ELSE [run EXCEPT ![p].stage = [x \in {q} |-> aside[p][q]],
                                       ![p].seen = SeesToo(p, Looked(q))]
          /\ UNCHANGED lock
  /\ UNCHANGED <<board, aside, retained>> /\ Keeps

PutBack(p) ==
  /\ run[p].at = "restore" /\ run[p].stage # Nothing
  /\ \E q \in DOMAIN run[p].stage :
       /\ board' = Put(board, q, aside[p][q])
       /\ aside' = [aside EXCEPT ![p] = Without(@, q)]
       /\ run' = [run EXCEPT ![p].stage = Nothing, ![p].left = @ \ {q}]
  /\ UNCHANGED <<lock, retained>> /\ Keeps

Restores(p) == run' = [run EXCEPT ![p].at = "restore", ![p].left = DOMAIN aside[p]]

-----------------------------------------------------------------------------
(* Cleanup.                                                                *)

\* cleanupCandidates: the bytes are those of the pinned commit, the owned
\* file is there too, and nothing else names the group.
Named == \E q \in Group : Linking(q) \ Group # {}
Removable == /\ \A q \in Group : Has(q) /\ board[q] = Source[q]
             /\ Cardinality(Homes(DoneNumber)) = 1
             /\ ~Named

\* cleanupBlocker
Blocked == evidence[DoneTask] = "active"

\* The preview is made without the lock.
Cleanup(p) ==
  /\ run[p].cmd = "none"
  /\ Removable /\ ~Blocked
  /\ run' = [run EXCEPT ![p] = Begin(p, "cleanup", "protect")]
  /\ UNCHANGED <<board, aside, lock, retained>> /\ Keeps

\* Mutant of Protect: an execution started since the preview is not looked for.
ProtectUnread(p) ==
  /\ Is(p, "cleanup", "protect")
  /\ TakesLock(p, "prove")
  /\ UNCHANGED <<board, aside, retained>> /\ Keeps

Protect(p) ==
  /\ Is(p, "cleanup", "protect")
  /\ IF Blocked THEN lock = None /\ UNCHANGED lock /\ Ends(p) ELSE TakesLock(p, "prove")
  /\ UNCHANGED <<board, aside, retained>> /\ Keeps

\* applyCleanupGroup lists again; the proof must be the one of the preview.
Prove(p) ==
  /\ Is(p, "cleanup", "prove")
  /\ IF Removable
     THEN run' = [run EXCEPT ![p].at = "look", ![p].left = Group] /\ UNCHANGED lock
     ELSE Stops(p)
  /\ UNCHANGED <<board, aside, retained>> /\ Keeps

\* Each file, the owned one first: still the pinned bytes, then into quarantine.
Turn(p) == IF Owned \in run[p].left THEN Owned ELSE DoneCard

LookAt(p) ==
  /\ Is(p, "cleanup", "look")
  /\ LET q == Turn(p)
     IN IF At(board, q) = Source[q]
        THEN run' = [run EXCEPT ![p].at = "take", ![p].seen = SeesToo(p, Looked(q))]
        ELSE Restores(p)
  /\ UNCHANGED <<board, aside, lock, retained>> /\ Keeps

Quarantine(p) ==
  /\ Is(p, "cleanup", "take")
  /\ LET q == Turn(p)
     IN IF Has(q)
        THEN /\ board' = Without(board, q)
             /\ aside' = [aside EXCEPT ![p] = Put(@, q, board[q])]
             /\ run' = [run EXCEPT ![p].at = IF run[p].left = {q} THEN "check" ELSE "look",
                                   ![p].left = @ \ {q}]
        ELSE UNCHANGED <<board, aside>> /\ Restores(p)
  /\ UNCHANGED <<lock, retained>> /\ Keeps

\* The quarantined bytes, and references added since.
VerifyQuarantine(p) ==
  /\ Is(p, "cleanup", "check")
  /\ IF (\A q \in Group : aside[p][q] = Source[q]) /\ ~Named
     THEN Goes(p, "reclaim")
     ELSE Restores(p)
  /\ UNCHANGED <<board, aside, lock, retained>> /\ Keeps

\* sourceUnchanged once more; the removal of the quarantine is the commit.
Reclaim(p) ==
  /\ Is(p, "cleanup", "reclaim")
  /\ aside' = [aside EXCEPT ![p] = Nothing]
  /\ Stops(p)
  /\ UNCHANGED <<board, retained>> /\ Keeps

\* git fails, the source has moved or the command is cancelled.
SourceMoved(p) ==
  /\ acts < MaxActs
  /\ acts' = acts + 1
  /\ run[p].cmd = "cleanup" /\ run[p].at \in {"look", "check", "reclaim"}
  /\ Restores(p)
  /\ UNCHANGED <<board, aside, lock, reservation, evidence, retained>>

-----------------------------------------------------------------------------
(* Maintenance.  The plan lists the card in doing with its bytes, and the  *)
(* same text in todo as what replaces it.                                  *)

Planned == Start[DoingCard]
Replacement == <<"todo", DoingTask>>

\* compareCards: a mapped card may change its path and nothing else.
Replaced == Planned

\* RejectUnresolved, and a board that carries a receipt is not retained again.
Maintain(p) ==
  /\ run[p].cmd = "none"
  /\ lock = None
  /\ \A t \in DOMAIN evidence : evidence[t] # "active"
  /\ At(board, DoingCard) = Planned
  /\ retained = Nothing
  /\ lock' = p
  /\ run' = [run EXCEPT ![p] = [Begin(p, "maintain", "copy") EXCEPT !.left = Zone]]
  /\ UNCHANGED <<board, aside, retained>> /\ Keeps

\* copyBoard walks the zones in the order of their names.
Copied == {"blocked", "doing", "issue", "todo"}   \* where cards come and go here
NextZones(p) == LET rest == run[p].left \cap Copied
                    stop == Foremost(rest)
                IN IF rest = {} THEN run[p].left
                   ELSE {z \in run[p].left : Place[z] <= Place[stop]}

Copy(p) ==
  /\ Is(p, "maintain", "copy")
  /\ LET zones == NextZones(p)
         there == {q \in Path : q[1] \in zones}
         copy == [q \in there \cap DOMAIN board |-> board[q]]
         staged == [q \in DOMAIN run[p].stage \cup DOMAIN copy |->
                      IF q \in DOMAIN copy THEN copy[q] ELSE run[p].stage[q]]
     IN run' = [run EXCEPT ![p].stage = staged, ![p].left = @ \ zones,
                           ![p].seen = SeesToo(p, [q \in there |-> At(board, q)]),
                           ![p].at = IF run[p].left = zones THEN "stage" ELSE "copy"]
  /\ UNCHANGED <<board, aside, lock, retained>> /\ Keeps

\* The listed cards are removed from the stage and the new ones written to it.
Stage(p) ==
  /\ Is(p, "maintain", "stage")
  /\ IF DoingCard \in DOMAIN run[p].stage
     THEN /\ run' = [run EXCEPT ![p].at = "exchange",
                       ![p].stage = Put(Without(@, DoingCard), Replacement, Replaced)]
          /\ UNCHANGED lock
     ELSE Stops(p)
  /\ UNCHANGED <<board, aside, retained>> /\ Keeps

\* verifyLiveBefore: what the plan lists is still what it was.
VerifyLive(p) ==
  /\ Is(p, "maintain", "exchange")
  /\ IF At(board, DoingCard) = Planned
     THEN run' = [run EXCEPT ![p].at = "swap", ![p].seen = SeesToo(p, Looked(DoingCard))] /\ UNCHANGED lock
     ELSE Stops(p)
  /\ UNCHANGED <<board, aside, retained>> /\ Keeps

\* The directories change places; the old board stays where the stage was.
Exchange(p) ==
  /\ Is(p, "maintain", "swap")
  /\ board' = run[p].stage
  /\ retained' = board
  /\ Stops(p)
  /\ UNCHANGED aside /\ Keeps

MaintenanceStep(p) ==
  \/ Scan(p) \/ ScanAgain(p) \/ Claim(p) \/ VerifyClaim(p) \/ Publish(p)
  \/ LookBack(p) \/ PutBack(p)
  \/ Protect(p) \/ Prove(p) \/ LookAt(p) \/ Quarantine(p) \/ VerifyQuarantine(p) \/ Reclaim(p)
  \/ SourceMoved(p)
  \/ Copy(p) \/ Stage(p) \/ VerifyLive(p) \/ Exchange(p)
=============================================================================
