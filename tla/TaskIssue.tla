----------------------------- MODULE TaskIssue -----------------------------
(***************************************************************************)
(* What giving out identifiers promises, whoever gives them out: a request *)
(* is served at most once on a board, all of its identifiers at a time,    *)
(* and none of them is one that was given out before.                      *)
(***************************************************************************)
CONSTANTS Board, Request, Id, Create

VARIABLES
  shared,   \* whether the boards share their identifiers
  issued    \* on each board, the identifiers given out and to what request

Init ==
  /\ shared \in BOOLEAN
  /\ issued = [b \in Board |-> {}]

\* The identifiers that are taken as far as a board is concerned.
Taken(b) == {i.id : i \in UNION {issued[c] : c \in IF shared THEN Board ELSE {b}}}

Issue(b, r, ids) ==
  /\ r # Create => \A i \in issued[b] : i.to # r
  /\ ids \cap Taken(b) = {}
  /\ issued' = [issued EXCEPT ![b] = @ \cup [id : ids, to : {r}]]
  /\ UNCHANGED shared

Next == \E b \in Board, r \in Request \cup {Create}, ids \in SUBSET Id : Issue(b, r, ids)

Spec == Init /\ [][Next]_<<shared, issued>>
=============================================================================
