-------------------------- MODULE MCQueueExecutor --------------------------
(***************************************************************************)
(* Two owners compete for one resource with requests a and b; c resubmits  *)
(* a's idempotency key under another identifier.  Three invocations give   *)
(* a first worker, one that recovers it and a late third.                  *)
(***************************************************************************)
EXTENDS QueueExecutor

CONSTANTS a, b, c, k1, k2, res, alice, bob, w1, w2, w3

Submissions ==
  { [id |-> a, key |-> k1, resource |-> res, owner |-> alice],
    [id |-> b, key |-> k2, resource |-> res, owner |-> bob],
    [id |-> c, key |-> k1, resource |-> res, owner |-> alice] }

Owners == [w \in Worker |-> IF w = w3 THEN bob ELSE alice]

\* A negative code makes the outcome invalid, 4 means revalidation, and every
\* other one is recorded as it is.
AnyExits == {-1, 2, 4}

=============================================================================
