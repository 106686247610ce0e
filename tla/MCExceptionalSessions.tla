----------------------- MODULE MCExceptionalSessions -----------------------
(***************************************************************************)
(* TLC instance of ExceptionalSessions: two worktrees and two policies,    *)
(* one of which declares modules; two copies of one board and two rejoins. *)
(***************************************************************************)
EXTENDS ExceptionalSessions

CONSTANTS flat, modular, t1, t2

=============================================================================
