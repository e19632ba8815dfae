------------------------------ MODULE Receivers ------------------------------
(***************************************************************************)
(* How the value of a batched task finds its way back (task.rs, and the    *)
(* TaskAssignment half of assignment.rs).                                  *)
(*                                                                         *)
(* A BatchedTask holds its Receiver in place and writes a pointer to it    *)
(* into the TaskRef cell it was given; the Receiver points back at the     *)
(* atomic state of that cell.  The resolver writes the value through the   *)
(* first pointer, the receiver announces its death through the second, and *)
(* neither side owns the memory of the other.                              *)
(*                                                                         *)
(* The queue in between is reduced to what StackQueue promises: cells are  *)
(* handed out in circular order, never while their batch is unreleased.    *)
(* One batch is processed at a time: two batches share no cell.            *)
(***************************************************************************)
EXTENDS Integers, Sequences, FiniteSets

CONSTANTS
  Tasks,          \* the BatchedTask futures
  NONE,           \* no task
  N,              \* cells of the buffer
  RuntimeTasks,   \* the futures polled together, under one waker each
  TaskNeedsDrop,  \* needs_drop::<T::Task>()
  ValueNeedsDrop, \* needs_drop::<T::Value>(), which the code never asks
  Drops,          \* may futures be dropped before they are ready?
  Faults          \* what batch_process may do: {"panic", "abandon", "short"}

ASSUME ReceiversAssumption ==
  /\ NONE \notin Tasks
  /\ N \in Nat \ {0}
  /\ RuntimeTasks \subseteq SUBSET Tasks /\ UNION RuntimeTasks = Tasks
  /\ TaskNeedsDrop \in BOOLEAN /\ ValueNeedsDrop \in BOOLEAN
  /\ Drops \in BOOLEAN
  /\ Faults \subseteq {"panic", "abandon", "short"}

Cells == 0 .. (N - 1)
Flags == {"SETTING_VALUE", "VALUE_SET", "RX_DROPPED"}

VARIABLES
  state,    \* TaskRef.state of each cell, the set of its flags
  rx,       \* TaskRef.rx of each cell: whose Receiver it points at
  task,     \* TaskRef.task of each cell, NONE when moved out
  future,   \* the state of each BatchedTask
  cell,     \* Receiver.state: the cell each future was enqueued in
  value,    \* Receiver.value of each future, and what became of it
  due,      \* futures that their runtime task is going to poll
  enqueued, \* how many tasks were enqueued so far
  open,     \* cells of the batch that has not been bounded
  batch,    \* cells of the batch that is being processed
  at,       \* position in batch of the task that is being resolved
  pc,       \* where the resolver is
  skipped,  \* history: tasks whose value was thrown away by the resolver
  failed    \* history: tasks that batch_process gave up unresolved

cellVars     == <<state, rx, task>>
futureVars   == <<future, cell, value, due>>
resolverVars == <<batch, at, pc>>
historyVars  == <<skipped, failed>>
vars == <<cellVars, futureVars, enqueued, open, resolverVars, historyVars>>

Init ==
  /\ state = [c \in Cells |-> {}]
  /\ rx    = [c \in Cells |-> NONE]
  /\ task  = [c \in Cells |-> NONE]
  /\ future = [t \in Tasks |-> "unbatched"]
  /\ cell   = [t \in Tasks |-> 0]
  /\ value  = [t \in Tasks |-> "uninit"]
  /\ due    = Tasks
  /\ enqueued = 0
  /\ open = << >> /\ batch = << >> /\ at = 0 /\ pc = "idle"
  /\ skipped = {} /\ failed = {}

Occupied == {open[i] : i \in DOMAIN open} \cup {batch[i] : i \in DOMAIN batch}

-----------------------------------------------------------------------------
(* BatchedTask                                                             *)

\* Faulty variant: cells counted from one.
current_write_index_FromOne == (enqueued % N) + 1

current_write_index == enqueued % N

\* TaskRef::init gives the cell to a task and forgets the flags of the one before.
init(c, t) ==
  /\ state' = [state EXCEPT ![c] = {}]
  /\ rx' = [rx EXCEPT ![c] = t]
  /\ task' = [task EXCEPT ![c] = t]

\* poll in State::Unbatched: a Receiver is made and its task enqueued.
PollUnbatched(t) ==
  LET c == current_write_index IN
  /\ t \in due /\ future[t] = "unbatched" /\ c \notin Occupied
  /\ due' = due \ {t}
  /\ future' = [future EXCEPT ![t] = "batched"]
  /\ cell' = [cell EXCEPT ![t] = c]
  /\ init(c, t)
  /\ open' = Append(open, c)
  /\ enqueued' = enqueued + 1
  /\ UNCHANGED <<value, resolverVars, historyVars>>

\* assume_init_read of a Receiver's value, and assume_init_drop of it.
Moved(v)   == IF v = "set" THEN "received" ELSE "garbage"
InPlace(v) == IF v = "set" THEN "dropped" ELSE "garbage"

\* poll in State::Batched takes the value without a look at the state flags.
PollBatched(t) ==
  /\ t \in due /\ future[t] = "batched"
  /\ due' = due \ {t}
  /\ value' = [value EXCEPT ![t] = Moved(@)]
  /\ future' = [future EXCEPT ![t] = "received"]
  /\ UNCHANGED <<cellVars, cell, enqueued, open, resolverVars, historyVars>>

\* Faulty variant: the drop does not wait for the write it overlaps.
DropOutcome_NoSpin(t, flags) ==
  /\ future' = [future EXCEPT ![t] = "dropped"]
  /\ UNCHANGED value

(***************************************************************************)
(* PinnedDrop: the flags that fetch_or, or a later load, returned decide   *)
(* between one more turn of the spin loop and the end of the future.       *)
(***************************************************************************)
DropOutcome(t, flags) ==
  IF "SETTING_VALUE" \in flags
    THEN /\ future' = [future EXCEPT ![t] = "dropping"]
         /\ UNCHANGED value
    ELSE /\ future' = [future EXCEPT ![t] = "dropped"]
         /\ value' = [value EXCEPT ![t] =
                        IF TaskNeedsDrop /\ "VALUE_SET" \in flags THEN InPlace(@) ELSE @]

\* In State::Unbatched only the task is destroyed, with the future around it.
DropUnbatched(t) ==
  /\ Drops
  /\ future[t] = "unbatched"
  /\ future' = [future EXCEPT ![t] = "dropped"]
  /\ due' = due \ {t}
  /\ UNCHANGED <<cellVars, cell, value, enqueued, open, resolverVars, historyVars>>

DropBatched(t) ==
  /\ Drops
  /\ future[t] = "batched"
  /\ state' = [state EXCEPT ![cell[t]] = @ \cup {"RX_DROPPED"}]
  /\ due' = due \ {t}
  /\ DropOutcome(t, state[cell[t]])
  /\ UNCHANGED <<rx, task, cell, enqueued, open, resolverVars, historyVars>>

DropSpin(t) ==
  /\ future[t] = "dropping"
  /\ DropOutcome(t, state[cell[t]])
  /\ UNCHANGED <<cellVars, cell, due, enqueued, open, resolverVars, historyVars>>

-----------------------------------------------------------------------------
(* The resolver: TaskAssignment over the cells of one batch                *)

\* into_assignment bounds the batch.
IntoAssignment ==
  /\ pc = "idle" /\ open # << >>
  /\ batch' = open /\ open' = << >>
  /\ at' = 1 /\ pc' = "take"
  /\ UNCHANGED <<cellVars, futureVars, enqueued, historyVars>>

\* PendingAssignment, or the TaskAssignment made of it, is dropped as a whole.
Abandon ==
  /\ "abandon" \in Faults
  /\ pc = "idle" /\ open # << >>
  /\ batch' = open /\ open' = << >>
  /\ at' = 1 /\ pc' = "unwind"
  /\ failed' = failed \cup {rx[open[i]] : i \in DOMAIN open}
  /\ UNCHANGED <<cellVars, futureVars, enqueued, skipped>>

Here == batch[at]

\* The tasks of the batch that are still to be resolved.
Unresolved == {rx[batch[i]] : i \in at .. Len(batch)}

\* take_task_unchecked in map and resolve_with_iter.
TakeTask ==
  /\ pc = "take"
  /\ task' = [task EXCEPT ![Here] = NONE]
  /\ pc' = "mark"
  /\ UNCHANGED <<state, rx, futureVars, enqueued, open, batch, at, historyVars>>

\* The closure panics on the task it was given: the TaskAssignment unwinds.
Panic ==
  /\ "panic" \in Faults
  /\ pc = "mark"
  /\ pc' = "unwind"
  /\ failed' = failed \cup Unresolved
  /\ UNCHANGED <<cellVars, futureVars, enqueued, open, batch, at, skipped>>

\* Faulty variant: the iterator over the tasks does not move on.
Advance_Stuck ==
  IF at < Len(batch)
    THEN /\ pc' = "take" /\ UNCHANGED <<at, batch>>
    ELSE /\ at' = 0 /\ pc' = "idle" /\ batch' = << >>

\* The next task of the batch, or into_completion_receipt after the last one.
Advance ==
  IF at < Len(batch)
    THEN /\ at' = at + 1 /\ pc' = "take" /\ UNCHANGED batch
    ELSE /\ at' = 0 /\ pc' = "idle" /\ batch' = << >>

\* Faulty variant: the test of the flag is inverted.
Gone_Inverted(flags) == "RX_DROPPED" \notin flags

Gone(flags) == "RX_DROPPED" \in flags

\* wake_by_ref: the runtime task polls every future it is still waiting for.
Woken(r) ==
  {t \in UNION {g \in RuntimeTasks : r \in g} : future[t] \in {"unbatched", "batched"}}

\* Faulty variant: the receiver is woken before its value is written.
MarkSetting_WakesFirst ==
  /\ pc = "mark"
  /\ state' = [state EXCEPT ![Here] = @ \cup {"SETTING_VALUE"}]
  /\ pc' = "store"
  /\ due' = due \cup Woken(rx[Here])
  /\ UNCHANGED <<rx, task, future, cell, value, enqueued, open, batch, at, historyVars>>

\* resolve_unchecked, first access: announce the write unless the receiver is gone.
MarkSetting ==
  /\ pc = "mark"
  /\ state' = [state EXCEPT ![Here] = @ \cup {"SETTING_VALUE"}]
  /\ IF Gone(state[Here])
       THEN /\ skipped' = skipped \cup {rx[Here]}
            /\ Advance
       ELSE /\ pc' = "store"
            /\ UNCHANGED <<batch, at, skipped>>
  /\ UNCHANGED <<rx, task, futureVars, enqueued, open, failed>>

StoreValue ==
  /\ pc = "store"
  /\ value' = [value EXCEPT ![rx[Here]] = IF @ = "uninit" THEN "set" ELSE @]
  /\ pc' = "wake"
  /\ UNCHANGED <<cellVars, future, cell, due, enqueued, open, batch, at, historyVars>>

\* Faulty variant: nobody is woken.
WakeReceiver_Missing ==
  /\ pc = "wake"
  /\ pc' = "waking"
  /\ UNCHANGED <<cellVars, futureVars, enqueued, open, batch, at, historyVars>>

\* wake_by_ref schedules the runtime task, which another worker may poll at once ...
WakeReceiver ==
  /\ pc = "wake"
  /\ due' = due \cup Woken(rx[Here])
  /\ pc' = "waking"
  /\ UNCHANGED <<cellVars, future, cell, value, enqueued, open, batch, at, historyVars>>

\* ... and returns to the resolver, when the waker it was called on may be gone.
WakeReturns ==
  /\ pc = "waking"
  /\ pc' = "publish"
  /\ UNCHANGED <<cellVars, futureVars, enqueued, open, batch, at, historyVars>>

SymmetricDifference(A, B) == (A \ B) \cup (B \ A)

\* Faulty variants: VALUE_SET is not raised; SETTING_VALUE is not cleared.
Published_Cleared(flags) == SymmetricDifference(flags, {"SETTING_VALUE"})
Published_Or(flags) == flags \cup {"SETTING_VALUE", "VALUE_SET"}

\* fetch_xor of both flags: one is cleared, the other raised.
Published(flags) == SymmetricDifference(flags, {"SETTING_VALUE", "VALUE_SET"})

PublishValue ==
  /\ pc = "publish"
  /\ state' = [state EXCEPT ![Here] = Published(@)]
  /\ Advance
  /\ UNCHANGED <<rx, task, futureVars, enqueued, open, historyVars>>

\* resolve_with_iter: the iterator ends first, the tasks left over stay unresolved.
ShortIter ==
  /\ "short" \in Faults
  /\ pc = "take"
  /\ at' = 0 /\ pc' = "idle" /\ batch' = << >>
  /\ failed' = failed \cup Unresolved
  /\ UNCHANGED <<cellVars, futureVars, enqueued, open, skipped>>

\* Drop of TaskAssignment takes the task of every cell in the range.
DropAssignment ==
  /\ pc = "unwind"
  /\ task' = [c \in Cells |->
                IF TaskNeedsDrop /\ \E i \in DOMAIN batch : batch[i] = c
                  THEN NONE ELSE task[c]]
  /\ at' = 0 /\ pc' = "idle" /\ batch' = << >>
  /\ UNCHANGED <<state, rx, futureVars, enqueued, open, historyVars>>

-----------------------------------------------------------------------------

ResolverStep ==
  \/ IntoAssignment
  \/ TakeTask
  \/ MarkSetting
  \/ StoreValue
  \/ WakeReceiver
  \/ WakeReturns
  \/ PublishValue
  \/ DropAssignment

FutureStep(t) == PollUnbatched(t) \/ PollBatched(t) \/ DropSpin(t)

Next ==
  \/ ResolverStep
  \/ Abandon \/ Panic \/ ShortIter
  \/ \E t \in Tasks : FutureStep(t) \/ DropUnbatched(t) \/ DropBatched(t)

Spec == Init /\ [][Next]_vars

\* The runtime polls what it woke, a spinning drop keeps loading, and the batch
\* that was handed out is processed.
Fairness ==
  /\ WF_vars(ResolverStep)
  /\ \A t \in Tasks : WF_vars(FutureStep(t))

FairSpec == Spec /\ Fairness

-----------------------------------------------------------------------------
(* Properties                                                              *)

TypeOK ==
  /\ state \in [Cells -> SUBSET Flags]
  /\ rx \in [Cells -> Tasks \cup {NONE}]
  /\ task \in [Cells -> Tasks \cup {NONE}]
  /\ future \in [Tasks -> {"unbatched", "batched", "received", "dropping", "dropped"}]
  /\ cell \in [Tasks -> Cells]
  /\ value \in [Tasks -> {"uninit", "set", "received", "dropped", "garbage"}]
  /\ due \subseteq Tasks
  /\ enqueued \in Nat
  /\ open \in Seq(Cells) /\ batch \in Seq(Cells)
  /\ at \in Nat
  /\ pc \in {"idle", "take", "mark", "store", "wake", "waking", "publish", "unwind"}
  /\ skipped \subseteq Tasks /\ failed \subseteq Tasks

(***************************************************************************)
(* Whenever the resolver follows its pointer to a Receiver, to write the   *)
(* value or to call its waker, the Receiver is still where it was: neither *)
(* read out by a poll nor freed ("This cannot be safely deallocated until  *)
(* after the value is set", task.rs:410).  From the moment the call has    *)
(* scheduled the future this holds no longer, and is not claimed.          *)
(***************************************************************************)
ReceiverInPlace ==
  pc \in {"store", "wake"} => future[rx[Here]] \in {"batched", "dropping"}

(***************************************************************************)
(* No poll returns, and no drop destroys, a value that was not written:    *)
(* poll and drop call assume_init on it unconditionally.                   *)
(***************************************************************************)
NoGarbage == \A t \in Tasks : value[t] # "garbage"

(***************************************************************************)
(* The resolver throws a value away only if the receiver it was meant for  *)
(* is dropped ("Set value in receiver and wake if the receiver isn't       *)
(* already dropped", task.rs:199).                                         *)
(***************************************************************************)
SkippedOnlyIfDropped ==
  \A t \in skipped : future[t] \in {"dropping", "dropped"}

(***************************************************************************)
(* A future that is dropped after its value was written destroys the value *)
(* on the way: no drop, whatever it overlaps, leaves behind a value that   *)
(* has a destructor (task.rs:416 asks whether the task has one).           *)
(***************************************************************************)
NoLeakedValue ==
  ValueNeedsDrop => \A t \in Tasks : future[t] = "dropped" => value[t] # "set"

(***************************************************************************)
(* A drop spins only on the write of its own value, and while it is under  *)
(* way (task.rs:413): never on a flag that is left over, or raised for     *)
(* another future, which nobody may clear.                                 *)
(***************************************************************************)
SpinHasWriter ==
  \A t \in Tasks : future[t] = "dropping" /\ "SETTING_VALUE" \in state[cell[t]] =>
    pc \in {"store", "wake", "waking", "publish"} /\ rx[Here] = t
(***************************************************************************)
(* Tasks are moved out of cells that hold one: take_task_unchecked is      *)
(* never called twice for a task, by the closure and by the unwinding of   *)
(* the assignment, say.                                                    *)
(***************************************************************************)
TakesInitialised ==
  /\ pc = "take" => task[Here] # NONE
  /\ pc = "unwind" /\ TaskNeedsDrop =>
       \A i \in DOMAIN batch : task[batch[i]] # NONE

(***************************************************************************)
(* queue.rs:67: each task resolves to a value, unless its future is        *)
(* dropped or batch_process gives the task up; a batch that fails halfway  *)
(* does not take back what it has resolved, nor what other batches will.   *)
(***************************************************************************)
EachTaskResolves ==
  \A t \in Tasks : future[t] = "batched" ~>
    (value[t] = "received" \/ future[t] = "dropped" \/ t \in failed)

\* The spin loop of a drop ends: it waits for one write at the most.
DropTerminates ==
  \A t \in Tasks : future[t] = "dropping" ~> future[t] = "dropped"

=============================================================================
