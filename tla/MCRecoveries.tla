---------------------------- MODULE MCRecoveries ----------------------------
(***************************************************************************)
(* TLC instance of what two other commands take up when one was killed: a  *)
(* pending transition on the board, and a finishing execution in the       *)
(* runtime's ledger.  Neither reads the other's files: a behaviour is that *)
(* of one of them, and the other rests where it began.                     *)
(***************************************************************************)
EXTENDS MCBoardTransitions

CONSTANTS c1, c2, here, there, dev, review, Free, NoRow, NoReceipt, NoView

VARIABLES
  which,   \* "board" or "ledger"
  l_row, l_latest, l_gens, l_refs, l_lock, l_pc, l_view, l_claims, l_run, l_landed,
  l_declared, l_kills

lifecycle == <<l_row, l_latest, l_gens, l_refs, l_lock, l_pc, l_view, l_claims, l_run,
               l_landed, l_declared, l_kills>>
all == <<which, vars, lifecycle>>

\* A claimant and another command on two hosts, one generation, one claim, the
\* branch of a review beside the delivery, and ledger writes that fail.
Lifecycle == INSTANCE ExecutionLifecycle WITH
  Process <- {c1, c2}, Host <- {here, there},
  HostOf <- [c \in {c1, c2} |-> IF c = c1 THEN here ELSE there],
  Branch <- {dev, review}, Delivery <- {dev},
  SaveErrors <- TRUE, MaxGens <- 1, MaxClaims <- 1, MaxKills <- 1,
  row <- l_row, latest <- l_latest, gens <- l_gens, refs <- l_refs, lock <- l_lock,
  pc <- l_pc, view <- l_view, claims <- l_claims, run <- l_run, landed <- l_landed,
  declared <- l_declared, kills <- l_kills

Begins ==
  /\ which \in {"board", "ledger"}
  /\ Init /\ (which # "board" => \A t \in Task : files[t]["todo"] # NoFile)
  /\ Lifecycle!Init

Continues ==
  /\ UNCHANGED which
  /\ \/ which = "board" /\ Next /\ UNCHANGED lifecycle
     \/ which = "ledger" /\ Lifecycle!Next /\ UNCHANGED vars

\* At rest nothing is enabled that fairness is asked of.
Behaviour == Begins /\ [][Continues]_all /\ Fairness /\ Lifecycle!Fairness

-----------------------------------------------------------------------------
(* Properties; PendingResolved is that of BoardTransitions.                *)

\* A claim whose claimant died does not hold the task for ever (run-recover).
ClaimResolves == Lifecycle!ClaimResolves

=============================================================================
