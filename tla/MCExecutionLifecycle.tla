------------------------ MODULE MCExecutionLifecycle ------------------------
(***************************************************************************)
(* Two commands at a time, on two hosts, over one delivery branch or over  *)
(* it and the branch of a review.                                          *)
(***************************************************************************)
EXTENDS ExecutionLifecycle

CONSTANTS c1, c2, here, there, dev, review

Hosts == [c \in Process |-> IF c = c1 THEN here ELSE there]

=============================================================================
