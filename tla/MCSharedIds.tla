----------------------------- MODULE MCSharedIds -----------------------------
(***************************************************************************)
(* Two worktrees, of which the second may be added later.  Two identifiers *)
(* leave room for a hole, and run out.                                     *)
(***************************************************************************)
EXTENDS SharedIds

CONSTANTS p1, p2, main, side

=============================================================================
