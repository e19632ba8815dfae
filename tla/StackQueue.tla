----------------------------- MODULE StackQueue -----------------------------
(***************************************************************************)
(* The thread-owned circular buffer of stack-queue: StackQueue and Inner   *)
(* (queue.rs), the region arithmetic they rest on (helpers.rs), and the    *)
(* handles over task ranges (assignment.rs).                               *)
(*                                                                         *)
(* One owner thread pushes tasks.  Every push that finds the phase of the  *)
(* shared slot changed opens a batch and gets its handle; the handle may   *)
(* travel to any thread, which bounds the batch, visits its cells and      *)
(* gives the region back.  A step of the model is one access to memory     *)
(* that two threads share; what a thread does to its own memory is part of *)
(* the step before or after it.                                            *)
(*                                                                         *)
(* push (BufferCell) and enqueue (TaskRef) run the same steps and are one  *)
(* set of actions; so are UnboundedRange and PendingAssignment, and        *)
(* BoundedRange, BufferIter and TaskAssignment.  A task is identified with *)
(* the future or call that enqueues it, a batch with the task that opened  *)
(* it.                                                                     *)
(***************************************************************************)
EXTENDS Integers, Sequences, FiniteSets

CONSTANTS
  Tasks,          \* the tasks that are enqueued, each once
  NONE,           \* no task: an uninitialised cell, an idle owner
  REGION_COUNT,   \* occupancy regions of the buffer: 8 on 64-bit targets
  RegionSize,     \* region_size::<N>(), cells per region
  REGION_MASK,    \* the greatest count a region's bits can hold: 255
  IndexLimit,     \* 2^(pointer width - INDEX_SHIFT): where the index wraps
  Views,          \* how consumers walk their range: {"iter", "slices"}
  MultiThreaded,  \* may consumers run on other threads than the owner's?
  Cancellation    \* may futures be dropped before they are batched?

N == REGION_COUNT * RegionSize

ASSUME TasksAssumption == IsFiniteSet(Tasks) /\ NONE \notin Tasks

ASSUME LayoutAssumption ==
  /\ REGION_COUNT \in Nat \ {0}
  /\ RegionSize   \in Nat \ {0}
  /\ REGION_MASK  \in Nat \ {0}
  /\ IndexLimit   \in Nat \ {0} /\ IndexLimit % N = 0

ASSUME ModeAssumption ==
  /\ Views \subseteq {"iter", "slices"} /\ Views # {}
  /\ MultiThreaded \in BOOLEAN
  /\ Cancellation  \in BOOLEAN

Cells   == 0 .. (N - 1)
Regions == 0 .. (REGION_COUNT - 1)
Indexes == 0 .. (IndexLimit - 1)
Slots   == [index : Indexes, phase : {0, 1}]
Words   == [Regions -> 0 .. REGION_MASK]

-----------------------------------------------------------------------------

VARIABLES
  slot,            \* Inner.slot: next index and PHASE, shared
  occupancy,       \* Inner.occupancy: live batches by region, shared
  buffer,          \* Inner.buffer, shared
  pending,         \* wakers of the futures that met a full queue, shared
  localSlot,       \* StackQueue.slot, the owner's copy of slot
  localOccupancy,  \* StackQueue.occupancy, the owner's copy of occupancy
  pc,              \* where the owner is in push
  current,         \* the task the owner is pushing
  writeIndex,      \* the owner's write_index
  future,          \* state of the task's future
  notified,        \* has the future been scheduled to be polled?
  handle,          \* state of the batch handle the task was given, if any
  base,            \* base_slot >> INDEX_SHIFT of the handle
  todo,            \* cells of the bounded range still to be visited
  wakeLimit,       \* batch_limit of the handle's waking loop
  pushed,          \* history: how many tasks were claimed a slot
  pos,             \* history: the position of the task in that order
  taken            \* history: what each batch found in the cells it visited

sharedVars  == <<slot, occupancy, buffer, pending>>
ownerVars   == <<localSlot, localOccupancy, pc, current, writeIndex>>
futureVars  == <<future, notified>>
handleVars  == <<handle, base, todo, wakeLimit>>
historyVars == <<pushed, pos, taken>>
vars == <<sharedVars, ownerVars, futureVars, handleVars, historyVars>>

-----------------------------------------------------------------------------
(* helpers.rs                                                              *)

\* The index counter wraps; N divides its range, so masking it gives the cell.
slot_index(index) == index % N

current_region(index) == index \div RegionSize

\* Faulty variant: the guard is dropped, push never consults the occupancy.
AtCheckpoint_Never(index) == FALSE

\* Write indexes at which push consults the occupancy of the region it enters.
AtCheckpoint(index) == index % RegionSize = 0

(***************************************************************************)
(* The occupancy word, one digit per region, least significant first.      *)
(* Adding or subtracting one_shifted(index) carries into, or borrows from, *)
(* the regions above; what leaves the last region is lost, as it is from   *)
(* the usize.                                                              *)
(***************************************************************************)
AddShifted(word, r) ==
  LET Reached(i) == i >= r /\ \A j \in r .. (i - 1) : word[j] = REGION_MASK
  IN  [i \in Regions |->
         IF Reached(i) THEN (word[i] + 1) % (REGION_MASK + 1) ELSE word[i]]

SubShifted(word, r) ==
  LET Reached(i) == i >= r /\ \A j \in r .. (i - 1) : word[j] = 0
  IN  [i \in Regions |->
         IF Reached(i) THEN (word[i] - 1) % (REGION_MASK + 1) ELSE word[i]]

one_shifted(r) == [i \in Regions |-> IF i = r THEN 1 ELSE 0]

\* Faulty variant: the mask is wider than the step between two regions, and
\* covers the neighbour too.  This is the layout of 32-bit targets: an 8-bit
\* mask, shifted by REGION_COUNT.trailing_zeros() = 2, four bits per region.
region_mask_Wide(index) == {current_region(index), current_region(index) + 1} \cap Regions

\* The digits that the mask of an index covers.
region_mask(index) == {current_region(index)}

RegionIsFree(word, index) == \A r \in region_mask(index) : word[r] = 0

-----------------------------------------------------------------------------

Init ==
  /\ slot           = [index |-> 0, phase |-> 0]
  /\ localSlot      = [index |-> 0, phase |-> 1]
  /\ occupancy      = [r \in Regions |-> 0]
  /\ localOccupancy = [r \in Regions |-> 0]
  /\ buffer         = [c \in Cells |-> NONE]
  /\ pending        = << >>
  /\ pc = "idle" /\ current = NONE /\ writeIndex = 0
  /\ future   = [t \in Tasks |-> "unbatched"]
  /\ notified = [t \in Tasks |-> TRUE]
  /\ handle    = [t \in Tasks |-> "none"]
  /\ base      = [t \in Tasks |-> 0]
  /\ todo      = [t \in Tasks |-> << >>]
  /\ wakeLimit = [t \in Tasks |-> 0]
  /\ pushed = 0
  /\ pos    = [t \in Tasks |-> -1]
  /\ taken  = [t \in Tasks |-> << >>]

-----------------------------------------------------------------------------
(* The owner: one poll of a future that has yet to be enqueued             *)

(***************************************************************************)
(* What push finds out before it touches the buffer.  Away from a          *)
(* checkpoint, or when the cached word shows the region free, the shared   *)
(* word is not read; otherwise it is loaded, and the cache with it.        *)
(***************************************************************************)
Loads(index) ==
  AtCheckpoint(index) /\ ~ RegionIsFree(localOccupancy, index)

\* Faulty variant: the cached word decides, and is never refreshed.
check_regional_occupancy_CacheOnly(index, word) ==
  /\ pc' = IF Loads(index) THEN "full" ELSE "write"
  /\ UNCHANGED localOccupancy

check_regional_occupancy(index, word) ==
  IF Loads(index)
    THEN /\ localOccupancy' = word
         /\ pc' = IF RegionIsFree(word, index) THEN "write" ELSE "full"
    ELSE /\ pc' = "write"
         /\ UNCHANGED localOccupancy

\* A scheduled future is polled on the owner thread and calls push; word is what
\* a load of the occupancy returns.  A consumer on the owner's thread ends its
\* waking loop before the next poll starts.
PushLoads(t, word) ==
  /\ pc = "idle"
  /\ MultiThreaded \/ \A b \in Tasks : handle[b] # "waking"
  /\ future[t] = "unbatched" /\ notified[t]
  /\ notified' = [notified EXCEPT ![t] = FALSE]
  /\ current' = t
  /\ writeIndex' = slot_index(localSlot.index)
  /\ check_regional_occupancy(slot_index(localSlot.index), word)
  /\ UNCHANGED <<sharedVars, localSlot, future, handleVars, historyVars>>

\* Memory is sequentially consistent here: a load returns the latest word.
PushCheck(t) == PushLoads(t, occupancy)

\* push returned Err: the future stays unbatched and leaves its waker behind.
RegisterWaker ==
  /\ pc = "full"
  /\ pending' = Append(pending, current)
  /\ pc' = "idle" /\ current' = NONE
  /\ UNCHANGED <<slot, occupancy, buffer, localSlot, localOccupancy, writeIndex,
                 futureVars, handleVars, historyVars>>

PushWrite ==
  /\ pc = "write"
  /\ buffer' = [buffer EXCEPT ![writeIndex] = current]
  /\ pc' = "claim"
  /\ UNCHANGED <<slot, occupancy, pending, localSlot, localOccupancy, current,
                 writeIndex, futureVars, handleVars, historyVars>>

(***************************************************************************)
(* fetch_add on the shared slot, replace_slot on the owner's copy.  The    *)
(* task belongs to the batch that is open, unless the phase has changed    *)
(* since the previous push: then it opens the next batch.                  *)
(***************************************************************************)
PushClaim ==
  LET next == (slot.index + 1) % IndexLimit IN
  /\ pc = "claim"
  /\ slot' = [slot EXCEPT !.index = next]
  /\ localSlot' = [slot EXCEPT !.index = next]
  /\ future' = [future EXCEPT ![current] = "batched"]
  /\ pos' = [pos EXCEPT ![current] = pushed]
  /\ pushed' = pushed + 1
  /\ IF slot.phase = localSlot.phase
       THEN /\ pc' = "idle" /\ current' = NONE
            /\ UNCHANGED <<handle, base>>
       ELSE /\ pc' = "occupy"
            /\ handle' = [handle EXCEPT ![current] = "claimed"]
            /\ base' = [base EXCEPT ![current] = slot.index]
            /\ UNCHANGED current
  /\ UNCHANGED <<occupancy, buffer, pending, localOccupancy, writeIndex, notified,
                 todo, wakeLimit, taken>>

\* Faulty variants: fetch_add returns the previous word, and that is cached; the
\* batch is counted where the next push will write.
occupy_region_Previous(index) ==
  /\ occupancy' = AddShifted(occupancy, current_region(index))
  /\ localOccupancy' = occupancy

occupy_region_Next(index) ==
  /\ occupancy' = AddShifted(occupancy, current_region(slot_index(index + 1)))
  /\ localOccupancy' = AddShifted(occupancy, current_region(slot_index(index + 1)))

occupy_region(index) ==
  /\ occupancy' = AddShifted(occupancy, current_region(index))
  /\ localOccupancy' = AddShifted(occupancy, current_region(index))

\* After occupy_region the handle is returned and handed to its consumer.
OccupyRegion ==
  /\ pc = "occupy"
  /\ occupy_region(writeIndex)
  /\ handle' = [handle EXCEPT ![current] = "unbounded"]
  /\ pc' = "idle" /\ current' = NONE
  /\ UNCHANGED <<slot, buffer, pending, localSlot, writeIndex, futureVars, base,
                 todo, wakeLimit, historyVars>>

\* A future that is not enqueued is dropped.  Nothing takes its waker back.
Cancel(t) ==
  /\ Cancellation
  /\ future[t] = "unbatched" /\ current # t
  /\ future' = [future EXCEPT ![t] = "cancelled"]
  /\ UNCHANGED <<sharedVars, ownerVars, notified, handleVars, historyVars>>

-----------------------------------------------------------------------------
(* The consumers: one batch handle each                                    *)

\* Consumers on the owner's own thread only run while no poll does.  That is a
\* current-thread runtime on which no handle is moved away by with_blocking, which
\* runs its closure on a blocking thread whatever the runtime.
ConsumerMayRun == MultiThreaded \/ pc = "idle"

\* Faulty variant: the index is compared with <= and passes the end.
BufferIterCells_Inclusive(first, end) ==
  [i \in 1 .. (end - first + 1) |-> slot_index(first + i - 1)]

(***************************************************************************)
(* The cells of the range first..end in the order a consumer meets them.   *)
(* BufferIter::next and the Drop impls of the range guards count the index *)
(* up while it is below the end; as_slices masks both ends and splits the  *)
(* buffer where the range passes its last cell.                            *)
(***************************************************************************)
BufferIterCells(first, end) ==
  [i \in 1 .. (IF first < end THEN end - first ELSE 0) |->
     slot_index(first + i - 1)]

\* Faulty variants: the end counts as the last index of the range; a range of all
\* N cells is taken for an empty one.
as_slices_Inclusive(first, end) ==
  [i \in 1 .. (((end - first) % IndexLimit) + 1) |-> slot_index(first + i - 1)]

as_slices_NonStrict(first, end) ==
  LET s == slot_index(first)
      e == slot_index(end)
  IN  IF e >= s
        THEN [i \in 1 .. (e - s) |-> s + i - 1]
        ELSE [i \in 1 .. (N - s + e) |-> IF i <= N - s THEN s + i - 1
                                                       ELSE i - (N - s) - 1]

as_slices(first, end) ==
  LET s == slot_index(first)
      e == slot_index(end)
  IN  IF e > s
        THEN [i \in 1 .. (e - s) |-> s + i - 1]
        ELSE [i \in 1 .. (N - s + e) |-> IF i <= N - s THEN s + i - 1
                                                       ELSE i - (N - s) - 1]

CellsOf(view, first, end) ==
  IF view = "iter" THEN BufferIterCells(first, end) ELSE as_slices(first, end)

\* Faulty variants: fetch_or, and fetch_add, where the code has fetch_xor.
FlipPhase_Or(s) == [s EXCEPT !.phase = 1]
FlipPhase_Add(s) == [s EXCEPT !.phase = @ + 1]

FlipPhase(s) == [s EXCEPT !.phase = 1 - @]

\* set_bounds: the phase flips, so that the next push opens another batch.
SetBounds(b, view) ==
  /\ ConsumerMayRun
  /\ handle[b] = "unbounded"
  /\ slot' = FlipPhase(slot)
  /\ todo' = [todo EXCEPT ![b] = CellsOf(view, base[b], slot.index)]
  /\ handle' = [handle EXCEPT ![b] = "bounded"]
  /\ UNCHANGED <<occupancy, buffer, pending, ownerVars, futureVars, base,
                 wakeLimit, historyVars>>

\* The consumer moves the next task out of its cell, or drops it in place.
VisitCell(b) ==
  LET cell == Head(todo[b]) IN
  /\ ConsumerMayRun
  /\ handle[b] = "bounded" /\ todo[b] # << >>
  /\ taken' = [taken EXCEPT ![b] = Append(@, buffer[cell])]
  /\ buffer' = [buffer EXCEPT ![cell] = NONE]
  /\ todo' = [todo EXCEPT ![b] = Tail(@)]
  /\ UNCHANGED <<slot, occupancy, pending, ownerVars, futureVars, handle, base,
                 wakeLimit, pushed, pos>>

\* Faulty variant: fetch_sub returns the previous word, yet zero is awaited.
LastOccupant_Zero(region) == occupancy = [r \in Regions |-> 0]

\* fetch_sub found this batch alone in the whole buffer.
LastOccupant(region) == occupancy = one_shifted(region)

\* deoccupy_region: whoever empties the occupancy word wakes what is pending.
DeoccupyRegion(b) ==
  LET region == current_region(slot_index(base[b])) IN
  /\ ConsumerMayRun
  /\ handle[b] = "bounded" /\ todo[b] = << >>
  /\ occupancy' = SubShifted(occupancy, region)
  /\ IF LastOccupant(region)
       THEN /\ handle' = [handle EXCEPT ![b] = "waking"]
            /\ wakeLimit' = [wakeLimit EXCEPT ![b] = RegionSize]
       ELSE /\ handle' = [handle EXCEPT ![b] = "released"]
            /\ UNCHANGED wakeLimit
  /\ UNCHANGED <<slot, buffer, pending, ownerVars, futureVars, base, todo,
                 historyVars>>

\* Steal::Success: the oldest waker is taken and woken.
WakeNext(b) ==
  /\ ConsumerMayRun
  /\ handle[b] = "waking" /\ wakeLimit[b] > 0 /\ pending # << >>
  /\ notified' = [notified EXCEPT ![Head(pending)] = TRUE]
  /\ pending' = Tail(pending)
  /\ wakeLimit' = [wakeLimit EXCEPT ![b] = @ - 1]
  /\ UNCHANGED <<slot, occupancy, buffer, ownerVars, future, handle, base, todo,
                 historyVars>>

\* Steal::Empty, or batch_limit is used up.
WakeDone(b) ==
  /\ ConsumerMayRun
  /\ handle[b] = "waking" /\ (wakeLimit[b] = 0 \/ pending = << >>)
  /\ handle' = [handle EXCEPT ![b] = "released"]
  /\ wakeLimit' = [wakeLimit EXCEPT ![b] = 0]
  /\ UNCHANGED <<sharedVars, ownerVars, futureVars, base, todo, historyVars>>

-----------------------------------------------------------------------------

OwnerStep ==
  \/ \E t \in Tasks : PushCheck(t)
  \/ RegisterWaker
  \/ PushWrite
  \/ PushClaim
  \/ OccupyRegion

ConsumerStep(b) ==
  \/ \E view \in Views : SetBounds(b, view)
  \/ VisitCell(b)
  \/ DeoccupyRegion(b)
  \/ WakeNext(b)
  \/ WakeDone(b)

Next ==
  \/ OwnerStep
  \/ \E b \in Tasks : ConsumerStep(b)
  \/ \E t \in Tasks : Cancel(t)

Spec == Init /\ [][Next]_vars

\* The runtime keeps polling what is scheduled, and every batch that is handed
\* out is processed to its end.  Nobody is obliged to cancel.
Fairness ==
  /\ WF_vars(OwnerStep)
  /\ \A b \in Tasks : WF_vars(ConsumerStep(b))

FairSpec == Spec /\ Fairness

-----------------------------------------------------------------------------
(* Properties                                                              *)

TypeOK ==
  /\ slot \in Slots /\ localSlot \in Slots
  /\ occupancy \in Words /\ localOccupancy \in Words
  /\ buffer \in [Cells -> Tasks \cup {NONE}]
  /\ pending \in Seq(Tasks)
  /\ pc \in {"idle", "full", "write", "claim", "occupy"}
  /\ current \in Tasks \cup {NONE} /\ (current = NONE <=> pc = "idle")
  /\ writeIndex \in Cells
  /\ future \in [Tasks -> {"unbatched", "batched", "cancelled"}]
  /\ notified \in [Tasks -> BOOLEAN]
  /\ handle \in [Tasks -> {"none", "claimed", "unbounded", "bounded", "waking",
                           "released"}]
  /\ base \in [Tasks -> Indexes]
  /\ todo \in [Tasks -> Seq(Cells)]
  /\ wakeLimit \in [Tasks -> 0 .. RegionSize]
  /\ pushed \in Nat
  /\ pos \in [Tasks -> Nat \cup {-1}]
  /\ taken \in [Tasks -> Seq(Tasks \cup {NONE})]

Occupied(b) == handle[b] \in {"unbounded", "bounded"}
Live(b)     == handle[b] \in {"claimed", "unbounded", "bounded"}

\* The region a batch is counted in, its whole length through.
RegionOf(b) == current_region(slot_index(base[b]))

\* The tasks of batch b: from the one that opened it up to the next batch.
Members(b) ==
  {t \in Tasks :
     /\ pos[t] >= pos[b]
     /\ \A c \in Tasks :
          handle[c] # "none" => ~ (pos[b] < pos[c] /\ pos[c] <= pos[t])}

InOrder(b) ==
  LET members == Members(b)
  IN  [i \in 1 .. Cardinality(members) |->
         CHOOSE t \in members : pos[t] = pos[b] + i - 1]

(***************************************************************************)
(* While the owner is about to write a cell, no batch that is still live   *)
(* has a task in that cell: not one that is being filled, not one that a   *)
(* consumer holds, however far the writer has come round the buffer.  The  *)
(* code checks only at region boundaries, and only the region in which a   *)
(* batch starts (queue.rs, push and check_regional_occupancy).             *)
(***************************************************************************)
ExclusiveWrite ==
  pc = "write" =>
    \A b \in Tasks : Live(b) =>
      \A t \in Members(b) : slot_index(pos[t]) # writeIndex

(***************************************************************************)
(* A bounded batch has taken, or will find where it is going to look, the  *)
(* tasks enqueued between its opening and the flip of the phase: all of    *)
(* them, once each and in order, in spite of the cells being shared with   *)
(* pushes that go on meanwhile (assignment.rs, set_bounds and the views).  *)
(***************************************************************************)
BatchesIntact ==
  \A b \in Tasks : handle[b] \in {"bounded", "waking", "released"} =>
    taken[b] \o [i \in DOMAIN todo[b] |-> buffer[todo[b][i]]] = InOrder(b)

(***************************************************************************)
(* queue.rs:409: the owner's stale copy may mark a region full, "but never *)
(* incorrectly marked as free": a region it shows free holds the start of  *)
(* no batch that is still occupied.                                        *)
(***************************************************************************)
NeverWronglyFree ==
  \A b \in Tasks : Occupied(b) => localOccupancy[RegionOf(b)] # 0

(***************************************************************************)
(* At most one batch is open, and there is one exactly while the owner's   *)
(* copy of the phase agrees with the shared one: that comparison is how    *)
(* push decides between joining a batch and opening one.                   *)
(***************************************************************************)
OneOpenBatch ==
  LET open == {b \in Tasks : handle[b] \in {"claimed", "unbounded"}}
  IN  /\ \A b, c \in open : b = c
      /\ (localSlot.phase = slot.phase) <=> (open # {})

(***************************************************************************)
(* A push is only refused while a batch that started in the region it is   *)
(* to enter is still occupied (the loom test it_manages_occupancy panics   *)
(* on "queue full despite buffer unoccupied", queue.rs:773).               *)
(***************************************************************************)
RefusedOnlyIfOccupied ==
  [][pc = "idle" /\ pc' = "full" =>
       \E b \in Tasks : Occupied(b) /\ RegionOf(b) = current_region(writeIndex')]_vars

(***************************************************************************)
(* Every future is eventually enqueued, unless it is dropped: a full queue *)
(* is left by way of the wakers in pending.  queue.rs:67 promises a queue  *)
(* "whereby each task resolves to a value".                                *)
(***************************************************************************)
EventuallyBatched ==
  \A t \in Tasks : future[t] = "unbatched" ~> future[t] # "unbatched"

-----------------------------------------------------------------------------
(* The inductive invariant behind ExclusiveWrite and NeverWronglyFree.     *)

\* The counters of a region are wide enough for a batch in each of its cells.
RegionFits == RegionSize <= REGION_MASK

\* Regions numbered along the positions instead of round the buffer.
GlobalRegion(p) == p \div RegionSize

\* Both slots, and the handles, show positions wrapped at IndexLimit.
PositionsInv ==
  /\ slot.index = pushed % IndexLimit /\ localSlot.index = slot.index
  /\ \A t \in Tasks : pos[t] < pushed
  /\ \A t, u \in Tasks : pos[t] = pos[u] /\ pos[t] # -1 => t = u
  /\ \A t \in Tasks : handle[t] # "none" =>
       pos[t] # -1 /\ base[t] = pos[t] % IndexLimit
  /\ \A t \in Tasks : future[t] = "unbatched" => pos[t] = -1 /\ handle[t] = "none"

\* What the owner has in hand in the middle of a push.
OwnerInv ==
  /\ pc \in {"full", "write", "claim"} => future[current] = "unbatched"
  /\ pc \in {"write", "claim"} => writeIndex = pushed % N
  /\ pc = "occupy" => handle[current] = "claimed" /\ writeIndex = slot_index(base[current])
  /\ \A b \in Tasks : handle[b] = "claimed" => pc = "occupy" /\ b = current

\* The batches counted in a region.
OccupiedIn(r) == {b \in Tasks : Occupied(b) /\ RegionOf(b) = r}

\* The word counts the occupied batches, and the owner's copy no fewer.
CountInv ==
  \A r \in Regions :
    /\ occupancy[r] = Cardinality(OccupiedIn(r))
    /\ localOccupancy[r] >= occupancy[r]

\* The owner is less than one turn ahead of the region that batch b starts in;
\* it stops at the end of that turn, until it has seen the region free.
InWindow(b) ==
  IF pc \in {"write", "claim"}
    THEN GlobalRegion(pushed) < GlobalRegion(pos[b]) + REGION_COUNT
    ELSE pushed <= RegionSize * (GlobalRegion(pos[b]) + REGION_COUNT)

WindowInv == \A b \in Tasks : Live(b) => InWindow(b)

(***************************************************************************)
(* The inductive invariant: what a live batch keeps the owner from doing   *)
(* has to be said of its start region alone, since the occupancy word      *)
(* knows nothing else of the batch.                                        *)
(***************************************************************************)
IInv == TypeOK /\ PositionsInv /\ OwnerInv /\ CountInv /\ WindowInv

=============================================================================
