-------------------------- MODULE MCPendingMarkers --------------------------
(***************************************************************************)
(* TLC instance of PendingMarkers.  Two bundles: one request names an      *)
(* identifier and leaves one to the tool, the other leaves its only one to *)
(* it; a third card has one identifier left.                               *)
(***************************************************************************)
EXTENDS PendingMarkers, MCStorageOperations

CONSTANTS r1, r2

Named == r1 :> {2} @@ r2 :> {}
Counted == r1 :> 1 @@ r2 :> 1

=============================================================================
