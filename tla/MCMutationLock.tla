--------------------------- MODULE MCMutationLock ---------------------------
(***************************************************************************)
(* Three commands: all on one host, or the third on another host that      *)
(* shares the runtime directory.  Three is the smallest number in which a  *)
(* dead owner, a fast reclaimer and a slow one all occur.                  *)
(***************************************************************************)
EXTENDS MutationLock

CONSTANTS p1, p2, p3, hostA, hostB

Placements ==
  { [p \in Invocation |-> hostA],
    [p \in Invocation |-> IF p = p3 THEN hostB ELSE hostA] }

=============================================================================
