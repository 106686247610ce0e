------------------------ MODULE MCStorageOperations ------------------------
(***************************************************************************)
(* A small instance of StorageOperations: two worktrees, one owner, a      *)
(* repair of the card, after which it is relocated or archived.            *)
(***************************************************************************)
EXTENDS StorageOperations, TLC

CONSTANTS repair, relocate, archive, drifted, plain, filed, todo, plan, old, worker

Ask(family, from, to, before, after, held) ==
  [family |-> family, from |-> from, to |-> to, old |-> before, new |-> after,
   claim |-> held]

Operations ==
  repair :> Ask("repair", todo, todo, drifted, plain, NoClaim) @@
  relocate :> Ask("relocation", todo, plan, plain, plain, worker) @@
  archive :> Ask("archive", todo, old, plain, filed, NoClaim)

\* For the run of two archives: the board is archived at once.
Archives == archive :> Ask("archive", todo, old, drifted, filed, NoClaim)
=============================================================================
