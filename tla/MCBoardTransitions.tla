------------------------ MODULE MCBoardTransitions ------------------------
(***************************************************************************)
(* Task b depends on a.  Both can be claimed; a finishes its review and is *)
(* reopened, b is started; one request ID is reused for a different move.  *)
(***************************************************************************)
EXTENDS BoardTransitions, TLC

CONSTANTS a, b, alice, bob, ta, tb, ta2, r1, r2, r3, p1, p2

Depends == [t \in Task |-> IF t = b THEN {a} ELSE {}]

Claims ==
  { [task |-> a, owner |-> alice, token |-> ta],
    [task |-> a, owner |-> bob, token |-> ta2],
    [task |-> b, owner |-> bob, token |-> tb] }

Moves ==
  { [id |-> r1, task |-> a, owner |-> alice, token |-> ta,
     from |-> "done", to |-> "todo"],
    [id |-> r2, task |-> b, owner |-> bob, token |-> tb,
     from |-> "todo", to |-> "doing"],
    [id |-> r2, task |-> b, owner |-> bob, token |-> tb,
     from |-> "todo", to |-> "done"] }

Placements == {[t \in Task |-> IF t = b THEN "todo" ELSE z] : z \in {"todo", "done"}}

Symmetry == Permutations(Process)

=============================================================================
