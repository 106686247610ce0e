----------------------------- MODULE CardBoard -----------------------------
(***************************************************************************)
(* The card board as the verbs, the maintenance commands and the editors   *)
(* share it: every command interleaved with every other, file by file.     *)
(***************************************************************************)
EXTENDS CardVerbs, BoardMaintenance

Init ==
  /\ board = Start
  /\ aside = [p \in Proc |-> Nothing]
  /\ run = [p \in Proc |-> Idle]
  /\ lock = None
  /\ reservation = [holder |-> None, highest |-> 0]
  /\ evidence \in [{DoingTask, DoneTask} -> Evidence]
  /\ evidence[DoneTask] = "done"
  /\ retained = Nothing
  /\ acts = 0
  /\ stayed = [p \in Proc |-> {}]

\* From the list of the directories to the reservation.
Scanning(r) == r.at \in {"walk", "lock", "reserve"}
Stays(p) ==
  IF ~Scanning(run'[p]) THEN {}
  ELSE IF Scanning(run[p]) THEN stayed[p] \cap DOMAIN board'
  ELSE DOMAIN board'

Step ==
  \/ \E p \in Proc :
       \/ \E z \in {"review", "blocked", "doing"} : Move(p, DoingCard, z)
       \/ Archive(p, DoneCard)
       \/ New(p) \/ \E n \in Asked : NewById(p, n)
       \/ Promote(p) \/ Reconcile(p) \/ Cleanup(p) \/ Maintain(p)
       \/ VerbStep(p) \/ MaintenanceStep(p)
       \/ Kill(p)
  \/ \E q \in DOMAIN board \cup UNION {{run[p].src, run[p].dst} : p \in Proc} : Save(q)
  \/ \E t \in {DoingTask, DoneTask}, e \in {"active", "abort"} : Runs(t, e)

Next == Step /\ stayed' = [p \in Proc |-> Stays(p)]

Spec == Init /\ [][Next]_vars

-----------------------------------------------------------------------------
(* Properties.                                                             *)

TypeOK ==
  /\ DOMAIN board \subseteq Path
  /\ \A q \in DOMAIN board : board[q] \in Text
  /\ \A p \in Proc : DOMAIN aside[p] \subseteq Path
  /\ lock \in Proc \cup {None}
  /\ lock # None => run[lock].cmd \in {"reconcile", "cleanup", "maintain"} /\ run[lock].at # "end"
  /\ reservation \in [holder : Proc \cup {None}, highest : 0..MaxNumber]
  /\ evidence \in [{DoingTask, DoneTask} -> Evidence]

\* A command takes a saved text from the board for good only if the file has
\* changed since the command last looked at it: nothing is overwritten, removed
\* or retained away on the strength of no look at all.
Saw(p, q) == q \in DOMAIN run[p].seen /\ run[p].seen[q] # board[q]
NothingLostUnseen ==
  [][run' # run =>
       \A m \in Kept \ Kept' :
         \E p \in Proc, q \in DOMAIN board :
           /\ run'[p] # run[p]
           /\ <<q[2], board[q].by>> = m
           /\ Saw(p, q)]_vars

\* The ledger gives no number twice, and none that a commit names or that a card
\* has: not a card it made, wherever that has gone since, and no other that has
\* stayed where it is while the number was looked for.  A card with a number of its
\* own (--id) that came, or was moved, behind the walk is not seen.
NumbersOnce ==
  [][\A p \in Proc :
       run[p].at = "reserve" /\ run'[p].at = "release" =>
         LET n == run'[p].number
         IN /\ n > RefHighest
            /\ \A q \in Homes(n) : q[2] \notin Number /\ q \notin stayed[p]
            /\ \A o \in Proc \ {p} : run[o].at \in {"release", "write", "stamp"} => run[o].number # n]_vars

\* A card whose execution has not ended is not cleaned away, whatever the
\* preview saw.
ActiveKept ==
  \A p \in Proc : run[p].cmd = "cleanup" /\ run[p].at \in {"look", "take", "check", "reclaim"} => ~Blocked
=============================================================================
