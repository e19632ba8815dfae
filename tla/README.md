# stack-queue, specified and proved

A TLA+ development kept beside `stack-queue`, a Rust crate of heapless,
auto-batching task queues. It models the thread-owned circular buffer, also under
the memory orderings the code names, the handles over its task ranges, the
futures that batch and collect tasks, and the way values travel back to the
futures that wait for them; TLC checks the models on small instances and TLAPS
proves every safety property of the passing runs for every instance.

Source paths below are relative to `src/crates/stack-queue/src/`.

## 1. Inventory

| Part | State | Operations | What makes it correct |
|---|---|---|---|
| `StackQueue` / `Inner` (`queue.rs`) | shared: `slot` (index and phase), `occupancy` (a counter per region), `buffer`, `pending` wakers; owner's: copies of slot and occupancy | `push`, `enqueue`, `check_regional_occupancy`, `occupy_region`, `deoccupy_region`, `background_process` | no cell is written while a live batch holds it; refusals are justified; a refused future is woken again |
| layout (`helpers.rs`) | none | `slot_index`, `current_region`, `region_mask`, `one_shifted` | an index that wraps still finds its cell; counters of regions do not disturb each other |
| range handles (`assignment.rs`) | base slot, or range | `into_bounded`, `into_assignment`, `as_slices`, `to_vec`, `BufferIter::next`, `Drop` | a batch has all its tasks, once each, in order; the region is released once |
| `TaskAssignment` (`assignment.rs`) | range | `map`, `resolve_with_iter`, `Drop` | each task is taken once and resolved once |
| `TaskRef`, `Receiver`, `BatchedTask` (`task.rs`) | flags, pointer and task in the cell; value and waker in the future | `poll`, `PinnedDrop`, `resolve_unchecked` | no side touches memory the other has given up; every value arrives, or is destroyed |
| `BackgroundEnqueue`, `BatchReduce`, `BatchCollect` (`task.rs`) | not pushed yet, collecting, done | `poll`, `Drop` | who waits is scheduled or parked; every batch has a collector that will run; every accepted task is given to a collector once |
| traits, `local_queue` macro | a thread-local queue per type and worker | | declarations |
| integrations (diesel, redis), bencher | | | delegation, benchmarks |

One thread owns a `StackQueue` and is the only one that pushes. A push that
finds the phase of the shared slot changed since the previous push opens a batch
and returns its handle, which may go to any thread; *bounding* the handle flips
the phase, so the next push opens the next batch. Releasing a handle takes the
batch off the counter of the region in which it starts; the release that empties
the whole word wakes futures that were refused. The two sides share four words
of memory and no lock.

What is hard here: the owner works from stale copies; a batch exists before it is
counted; it is counted where it starts and nowhere else; occupancy is looked at
once per region; counters and indexes wrap; the queue-full test and the
registration of the waker are two steps; futures are dropped while they are being
resolved, after their cell was given away, or with their waker still parked.
`PROJECT.json` lists these under `hazards`, each with the properties aimed at it.

## 2. Modules

| Module | Contents |
|---|---|
| `BatchQueue` | what a queue promises its users: batches opened, joined, bounded, delivered, released, for any number of queues |
| `StackQueue` | the buffer, its owner, the consumers of batches: state, actions, properties, inductive invariant |
| `StackQueueRefinement` | the mapping under which `StackQueue` implements `BatchQueue` |
| `MCQueue` | `StackQueue` and its refinement for TLC, with the symmetry of tasks |
| `Publication`, `MCPublication` | `StackQueue` with happens-before and stale loads |
| `Collectors` | `BatchReduce`, `BatchCollect`, `background_process` and `BackgroundEnqueue` over several `BatchQueue` queues |
| `RegionArithmetic` | lemmas on quotients and remainders behind masks and shifts |
| `StackQueueProofs` | type correctness, the inductive invariant of the buffer, and the theorems that follow |
| `BatchProofs` | what is in the cells: every batch finds its tasks |
| `RefinementProofs` | `StackQueue` implements `BatchQueue` |
| `PublicationProofs` | overwrites are ordered after reads, with stale loads |
| `CollectorsProofs`, `ReceiversProofs` | the invariants of `Collectors` and of `Receivers` |
| `Receivers`, `MCReceivers` | `TaskRef`, `Receiver`, `BatchedTask` and the resolver |

Definitions whose name continues that of another after an underscore
(`FlipPhase_Or`) are faulty variants; no specification uses them. Each is
a plausible mistake in the code that a property is known to catch.

### StackQueue

A step is one access to memory that two threads share. The owner goes through
`pc`: `PushCheck` (`current_write_index`, `check_regional_occupancy`; `PushLoads`
takes the word that the load returns, here always the latest), then
`RegisterWaker` if the push is refused, else `PushWrite`, `PushClaim`
(`fetch_add`, `replace_slot`) and, if the phase had changed, `OccupyRegion`.
`push` and `enqueue` run the same steps and share these actions. A handle goes
through `claimed`, `unbounded`, `bounded`, `waking`, `released` by `SetBounds`,
`VisitCell`, `DeoccupyRegion`, `WakeNext` and `WakeDone`; these stand for both
kinds of handle, and for consuming as well as dropping them. A consumer walks its
range in one of two views: `"slices"` (`as_slices`, `iter`, `to_vec`, all of
`TaskAssignment`) or `"iter"` (`BufferIter::next` and the loops of the `Drop`
impls). For task types that need no drop those loops are skipped; the model
always walks, and so checks the types that do.

A task stands for the future or call that pushes it, a batch for the task that
opened it. `pushed`, `pos` and `taken` are history: the order of claims, and what
each batch found. The occupancy word is a function from regions to digits;
`AddShifted` and `SubShifted` carry and borrow as the machine word does, and lose
what leaves the last region.

`MultiThreaded` says whether consumers run on other threads than the owner's: on the
other workers of a runtime, or on the blocking thread to which `with_blocking`
(`assignment.rs:57`, 162, 233, 349) moves a batch on any runtime. If not, polls and the
consumers' steps exclude each other: a current-thread runtime where `batch_process`
does not call `with_blocking`. `Cancellation` allows futures to be dropped before they are enqueued.

### BatchQueue and StackQueueRefinement

`BatchQueue` knows nothing of cells, regions and phases. It says that a queue has
at most one open batch, that tasks join it in order until its holder bounds it,
that the holder is then given exactly those tasks and releases the batch, and that
unreleased batches together never exceed the capacity. When a push is refused is
left open: the abstract queue may refuse any.

Under the mapping a batch exists from `PushClaim` on, before it is counted, and is
over with the `fetch_sub` of `DeoccupyRegion`, before anybody is woken. `PushCheck`,
`PushWrite`, `OccupyRegion`, parking and waking are stutters; `PushClaim` is `Open`
or `Join`, `SetBounds` is `Bound`, `VisitCell` is `Deliver`.

### Publication

Cells are written and read with plain accesses, so any two accesses to a cell must
be ordered by happens-before. `knows[th]` is the set of accesses that happen before
the next step of thread `th`. It grows by the thread's own accesses, by the
hand-over of a handle (`spawn`, or the poll of a collector by another worker: what
the owner knew when it returned the handle), and by acquiring a version of the
occupancy. `versions` is the modification order of that word; a read-modify-write
takes the latest version and continues its release sequence, a load may return any
version not older than the one the owner has seen. Operations on `slot` are Relaxed
and leave `knows` alone. Other synchronisation that the runtime may happen to add is
left out, which only allows more behaviours. Reordering of a Relaxed read with later
accesses of the same thread (load buffering) is not modelled.

### Collectors

A step is one access to a queue. `Polls(q, t)`: worker `q` polls future `t`, whoever
polled it before. `PushOpens` makes it the collector of a batch (state `Collecting`)
and keeps it scheduled (`wake_by_ref`, or `spawn` of `batch_process`); `PushJoins` is
`Ready(None)`; `PushRefused` and `Park` are the two halves of a refusal; `CallRefused`
is the refusal of `background_process`, which has no waker and spawns a
`BackgroundEnqueue`. `Collect` is the second poll; `Consume`, `DropIterator`, `Drain`
and `Finish` are the reducer, `to_vec` or `batch_process` at work, leaving early, the
`Drop` impls, and `deoccupy_region`. `DropUnbatched` and `DropCollecting` are drops of
the future. A release that finds a just-opened batch may or may not take it into
account, since a batch is opened before it is counted (`MayBeLast`, `MustBeLast`).
A future is polled only when woken or new; spurious polls would only park more wakers.

### Receivers

The queue is reduced to what `StackQueue` guarantees: cells are handed out in
circular order, not while their batch is unreleased. `PollUnbatched` enqueues;
`PollBatched` reads the value; `DropBatched` and `DropSpin` are `PinnedDrop`. The
resolver's `TakeTask`, `MarkSetting`, `StoreValue`, `WakeReceiver`, `WakeReturns`,
`PublishValue` are the accesses of `map` and `resolve_unchecked`; `wake_by_ref` is two
steps, since the future it schedules may be polled before the call returns; `Abandon`,
`Panic` and `ShortIter` are what `batch_process` may do instead, and
`DropAssignment` is the unwinding. `RuntimeTasks` says which futures are polled
together under one waker. An uninitialised read is the value `"garbage"`.

## 3. Runs

`queue_threads`: safety with consumers on other threads and futures dropped at
will. Two regions of two cells are the least layout in which a region has an inside
and the buffer a second region; six tasks go round the buffer one and a half times,
so that every cell is reused, a batch can span the buffer, and the counters reach
two. `IndexLimit` is the buffer length, so that every turn wraps the index; ranges
are walked as slices. Tasks are symmetric. The same run checks the refinement.

`queue_current_thread`: liveness with consumers on the owner's thread (a current-thread
runtime without `with_blocking`; with it, `queue_lost_wakeup` applies), with four tasks on two cells (regions of one
cell), so that the queue is full most of the time, and the iterating view on an
index that does not wrap.

`queue_iter_wrap`: the iterating view on two cells and an index that wraps after two
turns of the buffer; a batch of two tasks in which it wraps is enough.

`publication`: the layout of `queue_threads`, no drops, an index that does not wrap.
Six tasks make the owner overwrite the second cell of a region, where no check is
made, on the strength of what it learnt at the first. `NoLoadUnderstates` says what
makes stale loads harmless; the other two say what the loads must bring along.

`collectors`: a reducer, a `batch_collect` and a background call, two workers, queues
of two cells, one wake per release. Three tasks suffice for a batch with a joiner, a
refusal behind a live batch, two parked futures behind one wake, and migration; a
fourth task multiplies the states by more than thirty.

`queue_lost_wakeup`, `queue_iter_wrap`, `publication_join` and the `receivers_` runs
named in section 6: what the code does where it disagrees with its own
documentation.

`receivers_faults`, `receivers_reuse`: three tasks on three cells with drops and
failing batches, and four tasks on two cells without either. The first gives each
task its own cell, because a drop after reuse is the subject of
`receivers_stale_drop`; the second checks that reuse as such is harmless. The first
also checks `SpinHasWriter`, the safety half of `DropTerminates`.

Deadlock is not checked: when all tasks are done the system rests.

Fairness. `StackQueue`: weak fairness of the owner's step and of each consumer:
an executor polls what was woken, and a handle that was returned is processed or
dropped, since its `Drop` does the rest. No fairness for cancellation. Among
several woken futures the owner may choose any; that is weaker than what the
runtime's queues give and still suffices, because every future is polled once
per wake. `Receivers`: weak fairness of the resolver and of each future's polls
and spin loop; none for drops and faults. `Collectors`: weak fairness of each worker
and of each collector: a future that has woken itself is polled, reducers and
`batch_process` come to an end, or are dropped; none for drops or for leaving early.
`Publication` states safety only.

## 4. Proofs

All proofs rest on the `ASSUME`s of the component modules, which TLC evaluates in the
runs: tasks are finitely many in `StackQueue`; the buffer length divides the range of
the index counter, as powers of two do; names are distinct. Further hypotheses are
stated in each theorem:

| Hypothesis | Meaning | Why |
|---|---|---|
| `RegionFits` | `RegionSize <= REGION_MASK`: buffers of at most 1024 cells on 64-bit targets | beyond, counters overflow (section 6) |
| `ViewsAreSafe` | ranges are walked as slices, or the index does not wrap | `queue_iter_wrap` |
| `OneWakerEach` | no two futures share a waker | `receivers_shared_waker` |
| `NoStaleDrops` | futures are not dropped, or there is a cell for each task | `receivers_stale_drop` |
| `DropsMatch` | if the value has a destructor, so has the task | `task.rs:416` asks the task (section 6) |
| `PanicFree` | the closure does not panic, or tasks need no drop | `receivers_panic` |

Each excludes a case in which TLC finds the property violated.

### The buffer: `StackQueueProofs`

`TypeCorrect` and `BatchesOpenOneByOne` (`OneOpenBatch`, inductive together with one
fact about the owner) hold without `RegionFits`. Under it: `Invariance`
(`Spec => []IInv`), and from it `WritesAreExclusive`, `CacheNeverWronglyFree` and
`RefusalsAreJustified`.

`ExclusiveWrite` is not inductive: it speaks of all cells of a batch, while the
code knows the batch only by the counter of the region in which it starts.
`IInv` therefore says (`PositionsInv`) that slots and handles are positions
reduced modulo `IndexLimit`; (`OwnerInv`) what the owner holds in the middle of a
push; (`CountInv`) that each counter is the number of occupied batches that start
in its region, the owner's copy being no smaller; and (`WindowInv`) that the owner
is less than one turn ahead of the start *region* of every live batch when it is
about to write, and at most at the end of that turn otherwise.

The two steps that carry the argument are lemmas. `Admission`: at the first cell
of a region the counter was seen at zero, so no live batch started there one turn
ago; anywhere else the owner is inside a region. `RoomInRegion`: batches counted
in one region are of the same turn (`SameTurn`), so they start in distinct cells
of it and, by the pigeonhole principle, the counter has room. That is the step
that needs `RegionFits`. `ExclusiveWrite` follows because within one turn no cell
comes up twice.

The proof never uses that a load returns the latest word, only that it returns one
with no counter below the latest. It is made for that larger relation, `StaleNext`
(`IInvStep`), and so serves `Publication` as well.

### What is in the cells: `BatchProofs`, `RefinementProofs`

`BatchesAreIntact`. `BInv` adds to `IInv`: every position below `pushed` has its task
(`PlacesInv`); a bounded batch ends where the next one starts, or at the last position
while none was opened since, and the open batch is the last (`ExtentInv`); a task lies in
the cell of its position until its batch visits that cell, and what a batch has
still to visit are the cells of its remaining positions in order (`ContentInv`). That
`as_slices` and `BufferIter` compute these cells from two wrapped indexes is
`SlicesCells` and its neighbours; `ViewsAreSafe` enters there and nowhere else.
`PushWrite` preserves `ContentInv` because of `ExclusiveWrite`.

`QueueImplementsBatches`: the initial states map to initial states, and under `BInv`
each action maps to the step of `BatchQueue` named in section 2, or to a stutter.
The capacity of the abstract queue is `WindowInv` seen from outside.

### The orderings: `PublicationProofs`

`OverwritesAreOrdered`, `FreeRegionsAreKnown`, `StaleWordsOnlyOverstate`, `PubTypeCorrect`,
`StaleLoadsAreSafe`. `PubInv` adds to `BInv` that no version the owner can still load counts
fewer batches than there are (`NoLoadUnderstates`); that for a batch that is over, each such version either still
shows its region occupied or teaches its reads, and likewise the owner's copy
(`KnowInv`); that every pushed task is in a batch (`CoverInv`); and that a batch whose
reads the owner does not know holds it back like a live one (`ReachInv`, the same
window as in `IInv`). By `NoLoadUnderstates` each step of `Publication` is a `StaleNext` step
(`PubStale`), so all of `BInv` carries over.

### The futures: `CollectorsProofs`

`TypeCorrect`, `WaitersStayRegistered`, `BatchesHaveCollectors`, `TasksCountOnce`, with no
further hypothesis. `WaitersStayRegistered` says that a future that waits is scheduled,
about to park, or parked in some queue; not that this queue will release a batch
again, which the code does not guarantee (section 6). The invariant ties the state of a future to the batch it holds
(`HolderInv`, `OpenInv`), puts each task in at most one batch, once (`BatchInv`), and says
that what a collector was given is a prefix of what left the buffer, which is a
prefix of the batch, the difference having been dropped (`DeliveryInv`).

### The receivers: `ReceiversProofs`

Three layers, because the hypotheses differ. `PlaceInv`, under none: cells in use are
distinct, pointer and back pointer of a cell agree, and the resolver stays inside its
batch: `PointersLeadToReceivers`, together with the types, and with `PanicFree`
`TasksAreTakenOnce`. `SlotInv`, under `OneWakerEach`: a cell whose write was
not announced is as `init` left it, a future is polled only if its value is there,
and flags and value are never further apart than the write under way; from it
`ReceiversStayInPlace`, with drops, faults and reuse of cells. `OutcomeInv` and `SpinInv`
need moreover that a receiver that is alive is the one its cell points at
(`ReceiversKept`). `KeptReceiversAreSafe` has that condition as a temporal hypothesis,
so that it says what a repair of the stale drop has to establish;
`FewTasksKeepTheirCells` derives it where there is a cell for each task, whence
`NoValueIsGarbage`, `OnlyDroppedAreSkipped`, `SpinsHaveWriters` and, with `DropsMatch`,
`DropsLeakNothing`.

Each inductive invariant was checked by TLC on the instance of its run before it
was proved.

## 5. What is only model-checked, and what is not modelled

Out of the prover's reach, and so left to TLC: the liveness properties
`EventuallyBatched`, `AcceptedIsProcessed`, `EachTaskResolves`, `DropTerminates`, which
need fairness and `ENABLED`. Induction over data is out of reach as well; no proof needs
it, since ranges and counters are characterised position by position.

`StackQueue`, `Collectors` and `Receivers` are sequentially consistent. `Publication`
covers the orderings between a push and the consumer of its batch; those of the
receiver's flags are taken as stronger than they are written. In `Publication` a stale
load can refuse a push although the queue is empty, one more way into
`queue_lost_wakeup`.

Not modelled: `async-local`'s lifetimes and the shutdown of a runtime, the parsing of
the macro's attributes, the integrations and the benchmarks; a load so heavy that the
occupancy never returns to zero, under which parked futures starve (every run has
finitely many tasks); what a waker does after it has scheduled its task. Wakers'
`Steal::Retry` is a stutter.

## 6. Findings

| Run | Where | What happens |
|---|---|---|
| `queue_lost_wakeup` | `queue.rs:420`, `task.rs:378` | full, last release, then the waker is parked: never woken |
| `queue_iter_wrap` | `assignment.rs:415` | a range in which the index wraps is iterated as empty |
| `publication_join` | `queue.rs:517`, `assignment.rs:217` | a task that joins a batch after the hand-over is read without being ordered after its write |
| `receivers_stale_drop` | `task.rs:407` | a drop marks a cell that has a new tenant, whose value is discarded |
| `receivers_shared_waker` | `task.rs:387` | a poll not caused by this receiver's wake reads an unwritten value |
| `receivers_panic` | `assignment.rs:179` | unwinding takes tasks that were taken before |

Six more can be had from the same modules by changing constants or a property:

* `queue_current_thread` with `Cancellation = TRUE`: `EventuallyBatched` fails. Parked
  wakers of dropped futures use up the wakes of a release (`queue.rs:242`), and a live
  future behind them is never woken.
* `queue_threads` with `REGION_MASK = 1` and seven tasks: `ExclusiveWrite` fails. One-bit
  counters over regions of two cells stand for 8-bit counters over regions of 256 or
  more, that is, buffers of 2048 cells or more on 64-bit targets: the counter of the
  last region carries out of the word and reads zero, while `queue.rs:436` expects an
  overflow to result in `QueueFull`.
* `Receivers` with two tasks on one cell, drops and `FairSpec`: `DropTerminates` fails, and
  with it `SpinHasWriter`. A spinning drop that is slow to look again may find the flag
  raised for the next tenant of the cell; if that one was dropped too, `resolve_unchecked`
  leaves the flag up (`task.rs:201`) and the drop spins until the cell is used once more.
* `Collectors`: a parked future is not always enqueued in the end, even if refusal and
  parking were one step. A release wakes one of two futures that are parked in its
  queue, that one is polled by another worker and enqueued there, and nothing will
  release a batch of the first queue again (`task.rs:378`).

* `receivers_faults` with `TaskNeedsDrop = FALSE`: `NoLeakedValue` fails. `task.rs:416` asks
  `needs_drop` of the task where it drops the value, so that the drop of a future leaks a
  value with a destructor if the task has none.
* `receivers_faults` with `"waking"` added to the `pc` values of `ReceiverInPlace`: it fails.
  Once `wake_by_ref` (`task.rs:209`) has scheduled the future, another worker may poll it
  and drop its `Receiver`, and with it the waker the call is still running on. No comment in
  the code denies this; whether it is harmless depends on the runtime's waker, which must
  not look at itself again after it has scheduled its task.

## 7. Plan

Done: the buffer, the abstract queue and the refinement, the memory orderings of the
buffer, the collecting futures on several queues, the receivers; for each of them, the
proofs of all safety properties that its passing runs check.

Left:

1. Proofs: consequences of `BatchQueue` that its users rely on, proved once on the abstract
   queue; that the first task of a batch, unlike those that join, is read after its write
   (the part of `ReadIsOrdered` that holds).
2. The wake protocol under an unbounded supply of tasks.
3. The memory orderings of the receiver's flags.
