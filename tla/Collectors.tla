----------------------------- MODULE Collectors -----------------------------
(***************************************************************************)
(* The futures that consume what they batch: BatchReduce and BatchCollect  *)
(* (task.rs), and background_process with its BackgroundEnqueue (queue.rs, *)
(* task.rs), over one queue per worker thread.                             *)
(*                                                                         *)
(* A future pushes on whichever worker polls it.  The one that opens a     *)
(* batch becomes its collector: it wakes itself, is polled again, maybe on *)
(* another worker, and takes all that has joined meanwhile.  Those who     *)
(* joined are told None at once, and depend on the collector from then on. *)
(* The queues are those of BatchQueue; a step is one access to a queue.    *)
(* A type may implement BatchReducer and BackgroundQueue over one queue.   *)
(***************************************************************************)
EXTENDS Integers, Sequences, FiniteSets, FiniteSetsExt, SequencesExt

CONSTANTS
  Tasks,       \* the futures and calls, each with its task
  NONE,        \* no task
  Queues,      \* the queues, one per worker thread
  Capacity,    \* cells of a queue
  RegionSize,  \* region_size::<N>(), the wakers that one release wakes
  Reducers,    \* the tasks given to batch_reduce
  Background   \* the tasks given to background_process; others: batch_collect

ASSUME CollectorsAssumption ==
  /\ IsFiniteSet(Tasks) /\ NONE \notin Tasks /\ NONE \notin Queues
  /\ Capacity \in Nat \ {0} /\ RegionSize \in Nat \ {0}
  /\ Reducers \subseteq Tasks /\ Background \subseteq Tasks \ Reducers

VARIABLES
  open, home, batch, delivered, released,  \* see BatchQueue
  pending,    \* StackQueue.pending of each queue, the parked wakers
  refused,    \* the future each worker was refused and has yet to park
  future,     \* ReduceState, CollectState, BackgroundEnqueue
  scheduled,  \* futures that the runtime is going to poll
  given,      \* what the reducer, or the Vec, of each collector has received
  wasted      \* history: tasks that were dropped in their cells

Queue == INSTANCE BatchQueue

queueVars == <<open, home, batch, delivered, released>>
vars == <<queueVars, pending, refused, future, scheduled, given, wasted>>

Init ==
  /\ Queue!Init
  /\ pending = [q \in Queues |-> << >>]
  /\ refused = [q \in Queues |-> NONE]
  /\ future = [t \in Tasks |-> IF t \in Background THEN "called" ELSE "unbatched"]
  /\ scheduled = Tasks
  /\ given = [t \in Tasks |-> << >>]
  /\ wasted = {}

-----------------------------------------------------------------------------
(* push, as polls and background_process use it                            *)

\* Worker q polls t, or runs the call of background_process.
Polls(q, t) ==
  /\ refused[q] = NONE
  /\ t \in scheduled /\ future[t] \in {"called", "unbatched"}

\* Faulty variant: the collector does not wake itself.
PushOpens_NoWake(q, t) ==
  /\ Polls(q, t)
  /\ Queue!Open(q, t)
  /\ future' = [future EXCEPT ![t] = "collecting"]
  /\ scheduled' = scheduled \ {t}
  /\ UNCHANGED <<pending, refused, given, wasted>>

\* Ok(Some(batch)): wake_by_ref, or spawn of batch_process, sees to the next poll.
PushOpens(q, t) ==
  /\ Polls(q, t)
  /\ Queue!Open(q, t)
  /\ future' = [future EXCEPT ![t] = "collecting"]
  /\ UNCHANGED <<pending, refused, scheduled, given, wasted>>

\* Ok(None): the future is ready, with None, and its task is someone else's.
PushJoins(q, t) ==
  /\ Polls(q, t)
  /\ Queue!Join(q, t)
  /\ future' = [future EXCEPT ![t] = "joined"]
  /\ scheduled' = scheduled \ {t}
  /\ UNCHANGED <<pending, refused, given, wasted>>

\* Err(task) for a future: to be followed by its waker.
PushRefused(q, t) ==
  /\ Polls(q, t) /\ future[t] = "unbatched"
  /\ Queue!LiveIn(q) # {}
  /\ refused' = [refused EXCEPT ![q] = t]
  /\ scheduled' = scheduled \ {t}
  /\ UNCHANGED <<queueVars, pending, future, given, wasted>>

\* Faulty variant: the task goes into BackgroundEnqueue, which nobody spawns.
CallRefused_NotSpawned(q, t) ==
  /\ Polls(q, t) /\ future[t] = "called"
  /\ Queue!LiveIn(q) # {}
  /\ future' = [future EXCEPT ![t] = "unbatched"]
  /\ scheduled' = scheduled \ {t}
  /\ UNCHANGED <<queueVars, pending, refused, given, wasted>>

\* Err(task) for background_process: no waker, BackgroundEnqueue is spawned.
CallRefused(q, t) ==
  /\ Polls(q, t) /\ future[t] = "called"
  /\ Queue!LiveIn(q) # {}
  /\ future' = [future EXCEPT ![t] = "unbatched"]
  /\ UNCHANGED <<queueVars, pending, refused, scheduled, given, wasted>>

\* Faulty variant: the poll forgets its future before it has parked the waker.
Park_Cleared(q) ==
  /\ refused[q] # NONE
  /\ refused' = [refused EXCEPT ![q] = NONE]
  /\ pending' = [pending EXCEPT ![q] = Append(@, refused'[q])]
  /\ UNCHANGED <<queueVars, future, scheduled, given, wasted>>

Park(q) ==
  /\ refused[q] # NONE
  /\ pending' = [pending EXCEPT ![q] = Append(@, refused[q])]
  /\ refused' = [refused EXCEPT ![q] = NONE]
  /\ UNCHANGED <<queueVars, future, scheduled, given, wasted>>

-----------------------------------------------------------------------------
(* The collector of a batch                                                *)

\* The poll after the one that opened the batch: into_bounded.
Collect(b) ==
  /\ b \in scheduled /\ future[b] = "collecting"
  /\ Queue!Bound(b)
  /\ future' = [future EXCEPT ![b] = "consuming"]
  /\ scheduled' = scheduled \ {b}
  /\ UNCHANGED <<pending, refused, given, wasted>>

\* The reducer calls next, batch_process iterates, or to_vec copies.
Consume(b) ==
  /\ future[b] = "consuming"
  /\ Queue!Deliver(b)
  /\ given' = [given EXCEPT ![b] = Append(@, Last(delivered'[b]))]
  /\ UNCHANGED <<pending, refused, future, scheduled, wasted>>

\* Faulty variant: to_vec may be left halfway as well.
StopsEarly_Vec(b) == TRUE

\* A reducer, and batch_process, may drop its iterator before the end.
StopsEarly(b) == b \in Reducers \cup Background

DropIterator(b) ==
  /\ future[b] = "consuming" /\ StopsEarly(b)
  /\ future' = [future EXCEPT ![b] = "draining"]
  /\ UNCHANGED <<queueVars, pending, refused, scheduled, given, wasted>>

\* The drop of an iterator, or of a range, drops what is left in the cells.
Drain(b) ==
  /\ future[b] \in {"draining", "discarding"}
  /\ Queue!Deliver(b)
  /\ wasted' = wasted \cup {Last(delivered'[b])}
  /\ UNCHANGED <<pending, refused, future, scheduled, given>>

(***************************************************************************)
(* deoccupy_region finds the batch alone in its queue.  A batch that has   *)
(* just been opened may not be counted yet.                                *)
(***************************************************************************)
MayBeLast(q, b)  == Queue!LiveIn(q) \ {b} \subseteq {open[q]}
MustBeLast(q, b) == Queue!LiveIn(q) = {b}

\* The wakers that the release of a batch takes from its queue.
TakenWakers(q) == SubSeq(pending[q], 1, Min({Len(pending[q]), RegionSize}))

\* After the last task the range is gone, and a collector's future is ready.
Finish(b) ==
  LET q == home[b] IN
  /\ future[b] \in {"consuming", "draining", "discarding"}
  /\ Queue!Release(b)
  /\ \E woken \in {<< >>, TakenWakers(q)} :
       /\ woken = << >> => ~ MustBeLast(q, b) \/ pending[q] = << >>
       /\ woken # << >> => MayBeLast(q, b)
       /\ pending' = [pending EXCEPT ![q] = SubSeq(@, Len(woken) + 1, Len(@))]
       /\ scheduled' = scheduled \cup {t \in Range(woken) : future[t] = "unbatched"}
  /\ future' = [future EXCEPT ![b] = IF @ = "discarding" THEN "dropped" ELSE "collected"]
  /\ UNCHANGED <<refused, given, wasted>>

-----------------------------------------------------------------------------
(* Futures are dropped; what background_process spawned is not.            *)

\* The task goes with the future; a waker that was parked stays.
DropUnbatched(t) ==
  /\ t \notin Background /\ future[t] = "unbatched"
  /\ \A q \in Queues : refused[q] # t
  /\ future' = [future EXCEPT ![t] = "dropped"]
  /\ scheduled' = scheduled \ {t}
  /\ UNCHANGED <<queueVars, pending, refused, given, wasted>>

\* Drop of the UnboundedRange: the batch is bounded, and its tasks are dropped,
\* those of the futures that have been told None with them.
DropCollecting(b) ==
  /\ b \notin Background /\ future[b] = "collecting"
  /\ Queue!Bound(b)
  /\ future' = [future EXCEPT ![b] = "discarding"]
  /\ scheduled' = scheduled \ {b}
  /\ UNCHANGED <<pending, refused, given, wasted>>

-----------------------------------------------------------------------------

\* Worker q: the push of a future that waits to be polled, to its end.
WorkerStep(q) ==
  \/ \E t \in Tasks : PushOpens(q, t) \/ PushJoins(q, t)
  \/ \E t \in Tasks : PushRefused(q, t) \/ CallRefused(q, t)
  \/ Park(q)

CollectorStep(b) ==
  \/ Collect(b)
  \/ Consume(b)
  \/ Drain(b)
  \/ Finish(b)

Next ==
  \/ \E q \in Queues : WorkerStep(q)
  \/ \E b \in Tasks : CollectorStep(b) \/ DropIterator(b)
  \/ \E t \in Tasks : DropUnbatched(t) \/ DropCollecting(t)

Spec == Init /\ [][Next]_vars

\* Workers go on polling, and a collector that was woken is polled and runs to
\* its end.  Nothing is assumed of drops.
Fairness ==
  /\ \A q \in Queues : WF_vars(WorkerStep(q))
  /\ \A b \in Tasks : WF_vars(CollectorStep(b))

FairSpec == Spec /\ Fairness

-----------------------------------------------------------------------------
(* Properties                                                              *)

TypeOK ==
  /\ open \in [Queues -> Tasks \cup {NONE}]
  /\ home \in [Tasks -> Queues \cup {NONE}]
  /\ batch \in [Tasks -> Seq(Tasks)] /\ delivered \in [Tasks -> Seq(Tasks)]
  /\ given \in [Tasks -> Seq(Tasks)]
  /\ released \subseteq Tasks /\ scheduled \subseteq Tasks /\ wasted \subseteq Tasks
  /\ pending \in [Queues -> Seq(Tasks)]
  /\ refused \in [Queues -> Tasks \cup {NONE}]
  /\ future \in [Tasks -> {"called", "unbatched", "collecting", "consuming", "draining",
                           "discarding", "joined", "collected", "dropped"}]

(***************************************************************************)
(* A future that waits to be enqueued is registered somewhere: scheduled,  *)
(* about to park its waker, or parked in the pending of some queue, not    *)
(* necessarily that of the worker that will poll it next.  A refused       *)
(* background_process leaves no waker and relies on spawn (queue.rs:546).  *)
(* Whether the queue it is parked in releases another batch is not said.   *)
(***************************************************************************)
WaitersAreRegistered ==
  \A t \in Tasks : future[t] \in {"called", "unbatched"} =>
    \/ t \in scheduled
    \/ \E q \in Queues : \/ refused[q] = t
                         \/ Contains(pending[q], t)

(***************************************************************************)
(* A batch that is not released is in the hands of a collector that is     *)
(* going to run: scheduled for the poll that bounds it, or at work on it,  *)
(* also when the future that opened it is being dropped.  Every other      *)
(* push to that queue, and the tasks that have joined, depend on it.       *)
(***************************************************************************)
BatchHasCollector ==
  \A q \in Queues : \A b \in Queue!LiveIn(q) :
    \/ future[b] = "collecting" /\ b \in scheduled
    \/ future[b] \in {"consuming", "draining", "discarding"}

(***************************************************************************)
(* None is the answer to a task that is in the batch of another future,    *)
(* Some that of a collector, whose own task is in it.  When both are added *)
(* up over all futures every task counts once, the totals that the tests   *)
(* it_batch_reduces and it_batch_collects compare (queue.rs:915, 938),     *)
(* unless a reducer stopped early or a collector was dropped.              *)
(***************************************************************************)
Received(t) == UNION {{b} \X {i \in DOMAIN given[b] : given[b][i] = t} : b \in Tasks}

EachTaskCountsOnce ==
  /\ \A t \in Tasks : Cardinality(Received(t)) <= 1
  /\ (\A t \in Tasks : future[t] \in {"joined", "collected"}) =>
       \A t \in Tasks :
         \/ Cardinality(Received(t)) = 1
         \/ \E b \in Reducers \cup Background :
              t \in wasted /\ Contains(batch[b], t)

(***************************************************************************)
(* A task that was accepted does not lie in the buffer for ever: its       *)
(* collector receives it, or drops it, whatever happens to the future it   *)
(* came from (task.rs:526 and 605, the state Collecting).                  *)
(***************************************************************************)
AcceptedIsProcessed ==
  \A t \in Tasks : Queue!Batched(t) ~> (Received(t) # {} \/ t \in wasted)

=============================================================================
