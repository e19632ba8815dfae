------------------------ MODULE StackQueueRefinement ------------------------
(***************************************************************************)
(* StackQueue implements BatchQueue for a single queue, the one of its     *)
(* owner, with a capacity of the whole buffer.                             *)
(***************************************************************************)
EXTENDS StackQueue

\* The queue has a name of its own.
ASSUME NameAssumption == NONE # "owner"

IsBatch(b) == handle[b] # "none"
IsOpen(b)  == handle[b] \in {"claimed", "unbounded"}
OpenBatch  == IF \E b \in Tasks : IsOpen(b) THEN CHOOSE b \in Tasks : IsOpen(b) ELSE NONE

(***************************************************************************)
(* A batch is there from the fetch_add that claims its first slot, before  *)
(* it is counted, and gone with the fetch_sub that gives its region back,  *)
(* before anybody is woken.                                                *)
(***************************************************************************)
openBar     == [q \in {"owner"} |-> OpenBatch]
homeBar     == [b \in Tasks |-> IF IsBatch(b) THEN "owner" ELSE NONE]
batchBar    == [b \in Tasks |-> IF IsBatch(b) THEN InOrder(b) ELSE << >>]
releasedBar == {b \in Tasks : handle[b] \in {"waking", "released"}}

Abstract == INSTANCE BatchQueue WITH
  Queues    <- {"owner"},
  Capacity  <- N,
  open      <- openBar,
  home      <- homeBar,
  batch     <- batchBar,
  delivered <- taken,
  released  <- releasedBar

(***************************************************************************)
(* Every step of the owner or of a consumer is a step of BatchQueue, or    *)
(* changes nothing that its users see.  So a queue never keeps more tasks  *)
(* than it has cells; a task that was accepted stays in its place in its   *)
(* batch whatever is pushed, wrapped or overwritten later; a batch grows   *)
(* until it is bounded and not a task longer; and consumers are given the  *)
(* tasks of their batch and no others (queue.rs push and enqueue,          *)
(* assignment.rs).                                                         *)
(***************************************************************************)
ImplementsBatchQueue == Abstract!Spec

=============================================================================
