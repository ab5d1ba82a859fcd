----------------------- MODULE AsyncOutboxRefinement -----------------------
(***************************************************************************)
(* AsyncOutbox implements JobLease: the attempt number a claim writes into *)
(* the row, with the guard of the terminal updates, is a lease.            *)
(***************************************************************************)
EXTENDS AsyncOutbox

Phase(j) ==
  CASE outbox[j].status = "ABSENT"      -> "absent"
    [] outbox[j].status \in Pending     -> "open"
    [] outbox[j].status = "SUCCEEDED"   -> "done"
    [] outbox[j].status = "DEAD_LETTER" -> "dead"

(* The handlers whose terminal update would pass its guard; LeaseInv says  *)
(* there is at most one.                                                   *)
Owners(j) == {w \in Workers : ActingOn(w, j) /\ Owned(outbox[j], handler[w].attempt)}

Holder(j) == IF Owners(j) = {} THEN NoWorker ELSE CHOOSE w \in Owners(j) : TRUE

Lease == INSTANCE JobLease WITH
  phase <- [j \in Jobs |-> Phase(j)],
  holder <- [j \in Jobs |-> Holder(j)],
  ran <- delivered

(* Every step of publishers, workers, queue and faults is a step of the    *)
(* abstract lease, or invisible to it.                                     *)
ImplementsLease == Lease!Spec
=============================================================================
