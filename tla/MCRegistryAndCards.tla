------------------------ MODULE MCRegistryAndCards ------------------------
(***************************************************************************)
(* TLC instance of RegistryAndCards.  The registry: two revisions of a     *)
(* maintenance intent, a batch, two iterations, a task and four receipts   *)
(* for one event, two of which the task may be linked with.  The card      *)
(* board: two processes, one issue, one task in doing and one finished     *)
(* task that owns a file.                                                  *)
(***************************************************************************)
EXTENDS RegistryAndCards, TLC

CONSTANTS i1, e1, t1, t2, x1, x2, doing, done

IntentOf(revision) ==
  [kind |-> "intent", id |-> i1, revision |-> revision, mode |-> "maintenance"]
TheIntents == {IntentOf(1), IntentOf(2)}
ReceiptOf(t, certainty, observed) ==
  [event |-> e1, classified |-> e1, task |-> t, reason |-> "provider_policy",
   certainty |-> certainty, observed |-> observed]
TheReceipts == {ReceiptOf(None, "inferred", FALSE), ReceiptOf(t1, "confirmed", TRUE),
                ReceiptOf(t2, "inferred", FALSE), ReceiptOf(t1, "confirmed", FALSE)}

Symmetric == Permutations({x1, x2})

=============================================================================
