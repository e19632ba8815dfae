----------------------------- MODULE BatchQueue -----------------------------
(***************************************************************************)
(* What the queues of one type promise to those who use them, with nothing *)
(* of the buffer: a queue per worker thread, and in each at most one batch *)
(* that tasks still join.  Whoever opens a batch holds it, bounds it, is   *)
(* given its tasks in the order of their arrival and releases it.  A batch *)
(* has the name of the task that opened it.                                *)
(*                                                                         *)
(* StackQueue implements this specification for one queue (module          *)
(* StackQueueRefinement); Collectors is built on its actions.              *)
(***************************************************************************)
EXTENDS Integers, Sequences, FiniteSets

CONSTANTS
  Tasks,     \* the tasks that are enqueued, each once
  NONE,      \* no task
  Queues,    \* the queues, one per worker thread
  Capacity   \* how many tasks a queue holds until their batches are released

VARIABLES
  open,       \* the batch that is open in each queue, or NONE
  home,       \* the queue of each batch, NONE if the task opened none
  batch,      \* the tasks of each batch, in order
  delivered,  \* what each batch has handed to its holder
  released    \* the batches that are over

queueVars == <<open, home, batch, delivered, released>>

Init ==
  /\ open = [q \in Queues |-> NONE]
  /\ home = [t \in Tasks |-> NONE]
  /\ batch = [t \in Tasks |-> << >>]
  /\ delivered = [t \in Tasks |-> << >>]
  /\ released = {}

-----------------------------------------------------------------------------

Batched(t) == \E b \in Tasks : \E i \in DOMAIN batch[b] : batch[b][i] = t

\* The batches of a queue that are not released.
LiveIn(q) == {b \in Tasks : home[b] = q} \ released

\* The tasks that a queue has to keep.
Held(q) == UNION {{b} \X DOMAIN batch[b] : b \in LiveIn(q)}

HasRoom(q) == Cardinality(Held(q)) < Capacity

-----------------------------------------------------------------------------

\* A task finds no batch open: it opens one, and its sender holds the batch.
Open(q, t) ==
  /\ open[q] = NONE
  /\ open' = [open EXCEPT ![q] = t]
  /\ ~ Batched(t) /\ HasRoom(q)
  /\ home' = [home EXCEPT ![t] = q]
  /\ batch' = [batch EXCEPT ![t] = <<t>>]
  /\ UNCHANGED <<delivered, released>>

Join(q, t) ==
  /\ open[q] # NONE
  /\ ~ Batched(t) /\ HasRoom(q)
  /\ batch' = [batch EXCEPT ![open[q]] = Append(@, t)]
  /\ UNCHANGED <<open, home, delivered, released>>

\* The holder bounds its batch: nothing joins it from now on.
Bound(b) ==
  /\ home[b] # NONE /\ open[home[b]] = b
  /\ open' = [open EXCEPT ![home[b]] = NONE]
  /\ UNCHANGED <<home, batch, delivered, released>>

IsBounded(b) == home[b] # NONE /\ open[home[b]] # b /\ b \notin released

Deliver(b) ==
  /\ IsBounded(b)
  /\ Len(delivered[b]) < Len(batch[b])
  /\ delivered' = [delivered EXCEPT ![b] = Append(@, batch[b][Len(@) + 1])]
  /\ UNCHANGED <<open, home, batch, released>>

Release(b) ==
  /\ IsBounded(b)
  /\ delivered[b] = batch[b]
  /\ released' = released \cup {b}
  /\ UNCHANGED <<open, home, batch, delivered>>

Next ==
  \/ \E q \in Queues, t \in Tasks : Open(q, t) \/ Join(q, t)
  \/ \E b \in Tasks : Bound(b) \/ Deliver(b) \/ Release(b)

Spec == Init /\ [][Next]_queueVars

=============================================================================
