-------------------------- MODULE ReceiversProofs --------------------------
(***************************************************************************)
(* Proofs about Receivers, for any number of tasks and of cells.           *)
(*                                                                         *)
(* Three layers, each on top of the one before:                            *)
(*   - PlaceInv, whatever the runtime, the futures and batch_process do:   *)
(*     which cells are in use, and whom their pointers lead to;            *)
(*   - SlotInv, where every future has a waker of its own: how far the     *)
(*     value of a task and the flags of its cell may be apart;             *)
(*   - OutcomeInv, where moreover no cell is used again while the future   *)
(*     that was in it is alive: what becomes of the value.                 *)
(***************************************************************************)
EXTENDS Receivers, TLAPS, FiniteSetTheorems, SequenceTheorems

Alive == {"batched", "dropping"}

OpenCells  == {open[i] : i \in DOMAIN open}
BatchCells == {batch[i] : i \in DOMAIN batch}

\* The position of the batch that the resolver has not announced a write to.
Ahead(i) == at < i \/ (at = i /\ pc \in {"take", "mark", "unwind"})

\* Each cell is in use once; pointer and back pointer of a cell agree.
PlaceInv ==
  /\ \A i, j \in DOMAIN open : open[i] = open[j] => i = j
  /\ \A i, j \in DOMAIN batch : batch[i] = batch[j] => i = j
  /\ OpenCells \cap BatchCells = {}
  /\ \A c \in Occupied : rx[c] \in Tasks
  /\ \A c \in Cells : rx[c] \in Tasks =>
       cell[rx[c]] = c /\ future[rx[c]] # "unbatched"
  /\ IF pc = "idle" THEN batch = << >> ELSE at \in DOMAIN batch

\* A cell as TaskRef::init left it, up to the flag its receiver may have raised.
Fresh(c) == state[c] \subseteq {"RX_DROPPED"} /\ value[rx[c]] = "uninit"

FreshCells == OpenCells \cup {batch[i] : i \in {j \in DOMAIN batch : Ahead(j)}}

FreshInv == \A c \in FreshCells : Fresh(c)

\* What a future may hold, and that it is polled only if there is something to do.
ValueInv ==
  \A t \in Tasks :
    /\ future[t] = "unbatched" => value[t] = "uninit"
    /\ future[t] \in Alive => value[t] \in {"uninit", "set"}
    /\ future[t] = "received" => value[t] = "received"
    /\ future[t] \in {"dropping", "dropped"} => Drops
    /\ t \in due => \/ future[t] = "unbatched"
                    \/ future[t] = "batched" /\ value[t] = "set"

\* The flags of a cell against the receiver it points at.
FlagInv ==
  \A c \in Cells : rx[c] \in Tasks =>
    /\ future[rx[c]] \in {"dropping", "dropped"} => "RX_DROPPED" \in state[c]
    /\ future[rx[c]] \in Alive =>
         /\ "VALUE_SET" \in state[c] => value[rx[c]] = "set"
         /\ value[rx[c]] = "set" => state[c] \cap {"SETTING_VALUE", "VALUE_SET"} # {}

\* The write in progress.
WriteInv ==
  /\ pc \in {"store", "wake", "waking", "publish"} =>
       "SETTING_VALUE" \in state[Here] /\ "VALUE_SET" \notin state[Here]
  /\ pc = "store" => value[rx[Here]] = "uninit"
  /\ pc \in {"store", "wake"} => future[rx[Here]] \in Alive /\ rx[Here] \notin due
  /\ pc \in {"wake", "waking", "publish"} /\ future[rx[Here]] \in Alive => value[rx[Here]] = "set"

SlotInv == FreshInv /\ ValueInv /\ FlagInv /\ WriteInv

\* A receiver that is alive is the one its cell points at.
ReceiversKept == \A t \in Tasks : future[t] \in Alive => rx[cell[t]] = t

\* The question that task.rs:416 asks of the task is the right one for the value.
DropsMatch == ValueNeedsDrop => TaskNeedsDrop

\* What NoLeakedValue says where the code does ask the question.
ValuesDropped ==
  TaskNeedsDrop => \A t \in Tasks : future[t] = "dropped" => value[t] # "set"

OutcomeInv ==
  /\ NoGarbage /\ SkippedOnlyIfDropped /\ ValuesDropped
  /\ \A c \in Cells : "RX_DROPPED" \in state[c] =>
       rx[c] \in Tasks /\ future[rx[c]] \in {"dropping", "dropped"}

\* A flag that a living receiver may be waiting for belongs to the write under way.
SpinInv ==
  \A c \in Cells : rx[c] \in Tasks =>
    /\ future[rx[c]] = "dropping" => state[c] \cap {"SETTING_VALUE", "VALUE_SET"} # {}
    /\ future[rx[c]] \in Alive /\ "SETTING_VALUE" \in state[c] =>
         pc \in {"store", "wake", "waking", "publish"} /\ Here = c

\* The tasks of the cells that are to be taken are there.
TaskInv ==
  /\ \A i \in DOMAIN open : task[open[i]] # NONE
  /\ pc \in {"take", "mark", "store", "wake", "waking", "publish"} =>
       \A i \in DOMAIN batch : at < i => task[batch[i]] # NONE
  /\ TakesInitialised

Placed == TypeOK /\ PlaceInv

-----------------------------------------------------------------------------
(* Operators of the model                                                  *)

LEMMA AppendCell ==
  ASSUME NEW s \in Seq(Cells), NEW c \in Cells
  PROVE  /\ Append(s, c) \in Seq(Cells)
         /\ DOMAIN Append(s, c) = DOMAIN s \cup {Len(s) + 1}
         /\ Len(s) + 1 \notin DOMAIN s
         /\ Append(s, c)[Len(s) + 1] = c
         /\ \A i \in DOMAIN s : Append(s, c)[i] = s[i]
  OBVIOUS

\* Every cell in use is a cell; the resolver works on one of them.
LEMMA InUse ==
  ASSUME Placed
  PROVE  /\ \A i \in DOMAIN open : open[i] \in Cells /\ rx[open[i]] \in Tasks
         /\ \A i \in DOMAIN batch : batch[i] \in Cells /\ rx[batch[i]] \in Tasks
         /\ \A i \in DOMAIN open, j \in DOMAIN batch : open[i] # batch[j]
         /\ pc # "idle" => at \in DOMAIN batch /\ Here \in Cells /\ rx[Here] \in Tasks
<1>1. /\ \A i \in DOMAIN open : open[i] \in Cells
      /\ \A i \in DOMAIN batch : batch[i] \in Cells
  BY DEF Placed, TypeOK
<1>2. /\ \A i \in DOMAIN open : open[i] \in OpenCells /\ open[i] \in Occupied
      /\ \A i \in DOMAIN batch : batch[i] \in BatchCells /\ batch[i] \in Occupied
  BY DEF OpenCells, BatchCells, Occupied
<1>3. /\ \A i \in DOMAIN open : rx[open[i]] \in Tasks
      /\ \A i \in DOMAIN batch : rx[batch[i]] \in Tasks
  BY <1>2 DEF Placed, PlaceInv
<1>4. \A i \in DOMAIN open, j \in DOMAIN batch : open[i] # batch[j]
  BY <1>2 DEF Placed, PlaceInv
<1>5. pc # "idle" => at \in DOMAIN batch
  BY DEF Placed, PlaceInv
<1> QED
  BY <1>1, <1>3, <1>4, <1>5 DEF Here

LEMMA WriteIndex ==
  ASSUME Placed PROVE current_write_index \in Cells
BY ReceiversAssumption DEF Placed, TypeOK, current_write_index, Cells

\* The batch shrinks to nothing when the resolver is through with it.
LEMMA AdvanceCases ==
  ASSUME Placed, pc # "idle", Advance
  PROVE  \/ /\ at + 1 \in DOMAIN batch /\ at' = at + 1 /\ pc' = "take" /\ batch' = batch
         \/ at' = 0 /\ pc' = "idle" /\ batch' = << >>
<1>1. batch \in Seq(Cells) /\ at \in DOMAIN batch
  BY InUse DEF Placed, TypeOK
<1>2. at \in Nat /\ DOMAIN batch = 1 .. Len(batch) /\ Len(batch) \in Nat
  BY <1>1
<1> QED
  BY <1>1, <1>2 DEF Advance

LEMMA AdvanceTypes ==
  ASSUME Placed, pc # "idle", Advance
  PROVE  at' \in Nat /\ batch' \in Seq(Cells) /\ pc' \in {"take", "idle"}
<1>1. at \in Nat /\ batch \in Seq(Cells) /\ << >> \in Seq(Cells)
  BY DEF Placed, TypeOK
<1>2. CASE at' = at + 1 /\ pc' = "take" /\ batch' = batch
  BY <1>1, <1>2
<1>3. CASE at' = 0 /\ pc' = "idle" /\ batch' = << >>
  BY <1>1, <1>3
<1> QED
  BY <1>2, <1>3, AdvanceCases

-----------------------------------------------------------------------------
(* Layer 1: types and places, under no hypothesis                          *)

LEMMA InitPlaced == Init => Placed
BY ReceiversAssumption DEF Init, Placed, TypeOK, PlaceInv, Cells, Flags, OpenCells, BatchCells, Occupied

\* A drop, whichever turn of the spin loop it takes, keeps the types.
LEMMA DropTypes ==
  ASSUME TypeOK, NEW t \in Tasks, NEW flags, DropOutcome(t, flags)
  PROVE  /\ future' \in [Tasks -> {"unbatched", "batched", "received", "dropping", "dropped"}]
         /\ value' \in [Tasks -> {"uninit", "set", "received", "dropped", "garbage"}]
         /\ future'[t] \in {"dropping", "dropped"}
         /\ \A s \in Tasks : s # t => future'[s] = future[s] /\ value'[s] = value[s]
<1>1. CASE "SETTING_VALUE" \in flags
  BY <1>1 DEF TypeOK, DropOutcome
<1>2. CASE "SETTING_VALUE" \notin flags
  BY <1>2 DEF TypeOK, DropOutcome, InPlace
<1> QED
  BY <1>1, <1>2

LEMMA TypeStep == Placed /\ [Next]_vars => TypeOK'
<1> SUFFICES ASSUME Placed, [Next]_vars PROVE TypeOK'
  OBVIOUS
<1> USE DEF cellVars, futureVars, resolverVars, historyVars
<1>0. TypeOK
  BY DEF Placed
<1>1. ASSUME NEW t \in Tasks, PollUnbatched(t) PROVE TypeOK'
  <2>1. current_write_index \in Cells /\ open' = Append(open, current_write_index)
    BY <1>1, WriteIndex DEF PollUnbatched
  <2>2. open' \in Seq(Cells)
    BY <1>0, <2>1, AppendCell DEF TypeOK
  <2>3. /\ state' \in [Cells -> SUBSET Flags]
        /\ rx' \in [Cells -> Tasks \cup {NONE}]
        /\ task' \in [Cells -> Tasks \cup {NONE}]
        /\ cell' \in [Tasks -> Cells]
    BY <1>0, <1>1, <2>1 DEF TypeOK, PollUnbatched, init
  <2>4. /\ future' \in [Tasks -> {"unbatched", "batched", "received", "dropping", "dropped"}]
        /\ due' \subseteq Tasks
        /\ enqueued' \in Nat
        /\ UNCHANGED <<value, resolverVars, historyVars>>
    BY <1>0, <1>1 DEF TypeOK, PollUnbatched, init
  <2> QED
    BY <1>0, <2>2, <2>3, <2>4 DEF TypeOK
<1>2. ASSUME NEW t \in Tasks, PollBatched(t) PROVE TypeOK'
  BY <1>0, <1>2 DEF TypeOK, PollBatched, Moved
<1>3. ASSUME NEW t \in Tasks, DropUnbatched(t) PROVE TypeOK'
  BY <1>0, <1>3 DEF TypeOK, DropUnbatched
<1>4. ASSUME NEW t \in Tasks, DropBatched(t) PROVE TypeOK'
  <2>1. /\ future' \in [Tasks -> {"unbatched", "batched", "received", "dropping", "dropped"}]
        /\ value' \in [Tasks -> {"uninit", "set", "received", "dropped", "garbage"}]
    BY <1>0, <1>4, DropTypes DEF DropBatched
  <2>2. state' \in [Cells -> SUBSET Flags]
    BY <1>0, <1>4 DEF TypeOK, DropBatched, Flags
  <2> QED
    BY <1>0, <1>4, <2>1, <2>2 DEF TypeOK, DropBatched
<1>5. ASSUME NEW t \in Tasks, DropSpin(t) PROVE TypeOK'
  <2>1. /\ future' \in [Tasks -> {"unbatched", "batched", "received", "dropping", "dropped"}]
        /\ value' \in [Tasks -> {"uninit", "set", "received", "dropped", "garbage"}]
    BY <1>0, <1>5, DropTypes DEF DropSpin
  <2> QED
    BY <1>0, <1>5, <2>1 DEF TypeOK, DropSpin
<1>6. CASE IntoAssignment
  BY <1>0, <1>6 DEF TypeOK, IntoAssignment
<1>7. CASE Abandon
  BY <1>0, <1>7, InUse DEF TypeOK, Abandon
<1>8. CASE TakeTask
  BY <1>0, <1>8, InUse DEF TypeOK, TakeTask
<1>9. ASSUME pc # "idle" PROVE Unresolved \subseteq Tasks
  <2>1. \A i \in at .. Len(batch) : i \in DOMAIN batch
    <3>1. at \in DOMAIN batch /\ batch \in Seq(Cells)
      BY <1>0, <1>9, InUse DEF TypeOK
    <3>2. DOMAIN batch = 1 .. Len(batch) /\ Len(batch) \in Nat
      BY <3>1
    <3> QED
      BY <3>1, <3>2
  <2> QED
    BY <2>1, InUse DEF Unresolved
<1>10. CASE Panic
  BY <1>0, <1>9, <1>10 DEF TypeOK, Panic
<1>11. CASE ShortIter
  <2>1. failed' \subseteq Tasks
    BY <1>0, <1>9, <1>11 DEF TypeOK, ShortIter
  <2> QED
    BY <1>0, <1>11, <2>1 DEF TypeOK, ShortIter
<1>12. CASE MarkSetting
  <2>1. Here \in Cells /\ rx[Here] \in Tasks
    BY <1>12, InUse DEF MarkSetting
  <2>2. state' \in [Cells -> SUBSET Flags]
    BY <1>0, <1>12, <2>1 DEF TypeOK, MarkSetting, Flags
  <2>3. CASE Gone(state[Here])
    <3>1. Advance /\ skipped' = skipped \cup {rx[Here]}
      BY <1>12, <2>3 DEF MarkSetting
    <3>2. at' \in Nat /\ batch' \in Seq(Cells) /\ pc' \in {"take", "idle"}
      <4>1. pc # "idle"
        BY <1>12 DEF MarkSetting
      <4> QED
        BY <1>0, <3>1, <4>1, AdvanceTypes
    <3> QED
      BY <1>0, <1>12, <2>1, <2>2, <3>1, <3>2 DEF TypeOK, MarkSetting
  <2>4. CASE ~ Gone(state[Here])
    BY <1>0, <1>12, <2>2, <2>4 DEF TypeOK, MarkSetting
  <2> QED
    BY <2>3, <2>4
<1>13. CASE StoreValue
  <2>1. rx[Here] \in Tasks
    BY <1>13, InUse DEF StoreValue
  <2> QED
    BY <1>0, <1>13, <2>1 DEF TypeOK, StoreValue
<1>14. CASE WakeReceiver
  <2>1. Woken(rx[Here]) \subseteq Tasks
    BY ReceiversAssumption DEF Woken
  <2> QED
    BY <1>0, <1>14, <2>1 DEF TypeOK, WakeReceiver
<1>15. CASE WakeReturns
  BY <1>0, <1>15 DEF TypeOK, WakeReturns
<1>16. CASE PublishValue
  <2>1. Here \in Cells
    BY <1>16, InUse DEF PublishValue
  <2>2. state' \in [Cells -> SUBSET Flags]
    BY <1>0, <1>16, <2>1 DEF TypeOK, PublishValue, Published, SymmetricDifference, Flags
  <2>3. at' \in Nat /\ batch' \in Seq(Cells) /\ pc' \in {"take", "idle"}
    <3>1. pc # "idle" /\ Advance
      BY <1>16 DEF PublishValue
    <3> QED
      BY <1>0, <3>1, AdvanceTypes
  <2> QED
    BY <1>0, <1>16, <2>2, <2>3 DEF TypeOK, PublishValue
<1>17. CASE DropAssignment
  BY <1>0, <1>17 DEF TypeOK, DropAssignment
<1>18. CASE UNCHANGED vars
  BY <1>0, <1>18 DEF TypeOK, vars
<1> QED
  BY <1>1, <1>2, <1>3, <1>4, <1>5, <1>6, <1>7, <1>8, <1>10, <1>11, <1>12, <1>13, <1>14,
     <1>15, <1>16, <1>17, <1>18 DEF Next, ResolverStep, FutureStep

LEMMA PlaceStep == Placed /\ [Next]_vars => PlaceInv'
<1> SUFFICES ASSUME Placed, [Next]_vars PROVE PlaceInv'
  OBVIOUS
<1> USE DEF cellVars, futureVars, resolverVars, historyVars
<1>0. TypeOK /\ PlaceInv
  BY DEF Placed
\* Steps that leave the cells in use alone and take no future back to unbatched.
<1>1. ASSUME UNCHANGED <<rx, cell, open, batch>>,
             \A t \in Tasks : future'[t] = "unbatched" => future[t] = "unbatched",
             pc' = "idle" <=> pc = "idle", at' = at
      PROVE  PlaceInv'
  <2>1. OpenCells' = OpenCells /\ BatchCells' = BatchCells /\ Occupied' = Occupied
    BY <1>1 DEF OpenCells, BatchCells, Occupied
  <2>2. \A c \in Cells : rx'[c] \in Tasks =>
          cell'[rx'[c]] = c /\ future'[rx'[c]] # "unbatched"
    BY <1>0, <1>1 DEF PlaceInv
  <2>3. IF pc' = "idle" THEN batch' = << >> ELSE at' \in DOMAIN batch'
    BY <1>0, <1>1 DEF PlaceInv
  <2> QED
    BY <1>0, <1>1, <2>1, <2>2, <2>3 DEF PlaceInv
\* Steps that finish the batch.
<1>2. ASSUME UNCHANGED <<rx, cell, open, future>>, batch' = << >>, pc' = "idle"
      PROVE  PlaceInv'
  BY <1>0, <1>2 DEF PlaceInv, OpenCells, BatchCells, Occupied
\* Steps that bound the open batch.
<1>3. ASSUME UNCHANGED <<rx, cell, future>>, pc = "idle", open # << >>, batch' = open,
             open' = << >>, at' = 1, pc' # "idle"
      PROVE  PlaceInv'
  <2>1. batch = << >>
    BY <1>0, <1>3 DEF PlaceInv
  <2>2. 1 \in DOMAIN open
    BY <1>0, <1>3 DEF TypeOK
  <2> QED
    BY <1>0, <1>3, <2>1, <2>2 DEF PlaceInv, OpenCells, BatchCells, Occupied
\* Steps that go on to the next task.
<1>4. ASSUME UNCHANGED <<rx, cell, open, future>>, pc # "idle", Advance PROVE PlaceInv'
  <2>1. CASE at + 1 \in DOMAIN batch /\ at' = at + 1 /\ pc' = "take" /\ batch' = batch
    BY <1>0, <1>4, <2>1 DEF PlaceInv, OpenCells, BatchCells, Occupied
  <2>2. CASE at' = 0 /\ pc' = "idle" /\ batch' = << >>
    BY <1>2, <1>4, <2>2
  <2> QED
    BY <1>4, <2>1, <2>2, AdvanceCases
<1>5. ASSUME NEW t \in Tasks, PollUnbatched(t) PROVE PlaceInv'
  <2> DEFINE c == current_write_index
  <2>1. /\ c \in Cells /\ c \notin Occupied /\ open' = Append(open, c)
        /\ future[t] = "unbatched" /\ future' = [future EXCEPT ![t] = "batched"]
        /\ cell' = [cell EXCEPT ![t] = c] /\ rx' = [rx EXCEPT ![c] = t]
        /\ UNCHANGED <<batch, at, pc>>
    BY <1>5, WriteIndex DEF PollUnbatched, init
  <2> HIDE DEF c
  <2>2. /\ DOMAIN open' = DOMAIN open \cup {Len(open) + 1}
        /\ Len(open) + 1 \notin DOMAIN open
        /\ open'[Len(open) + 1] = c
        /\ \A i \in DOMAIN open : open'[i] = open[i]
    BY <1>0, <2>1, AppendCell DEF TypeOK
  <2>3. \A i \in DOMAIN open : open[i] # c
    BY <2>1 DEF Occupied
  <2>4. \A i \in DOMAIN batch : batch[i] # c
    BY <2>1 DEF Occupied
  <2>5. \A i, j \in DOMAIN open' : open'[i] = open'[j] => i = j
    BY <1>0, <2>2, <2>3 DEF PlaceInv
  <2>6. OpenCells' = OpenCells \cup {c} /\ BatchCells' = BatchCells
    BY <2>1, <2>2 DEF OpenCells, BatchCells
  <2>7. Occupied' = Occupied \cup {c}
    BY <2>6 DEF Occupied, OpenCells, BatchCells
  <2>8. c \notin BatchCells
    BY <2>4 DEF BatchCells
  <2>9. \A d \in Cells : d # c => rx'[d] = rx[d]
    BY <1>0, <2>1 DEF TypeOK
  <2>10. rx'[c] = t /\ cell'[t] = c /\ future'[t] # "unbatched"
    BY <1>0, <2>1 DEF TypeOK
  <2>11. \A d \in Occupied : d \in Cells
    BY InUse DEF Occupied
  <2>12. \A d \in Occupied' : rx'[d] \in Tasks
    BY <1>0, <2>7, <2>9, <2>10, <2>11 DEF PlaceInv
  <2>13. ASSUME NEW d \in Cells, rx'[d] \in Tasks
         PROVE  cell'[rx'[d]] = d /\ future'[rx'[d]] # "unbatched"
    <3>1. CASE d = c
      BY <2>10, <3>1
    <3>2. CASE d # c
      <4>1. rx'[d] = rx[d] /\ cell[rx[d]] = d /\ future[rx[d]] # "unbatched"
        BY <1>0, <2>9, <2>13, <3>2 DEF PlaceInv
      <4>2. rx[d] # t
        BY <2>1, <4>1
      <4> QED
        BY <1>0, <2>1, <2>13, <4>1, <4>2 DEF TypeOK
    <3> QED
      BY <3>1, <3>2
  <2> QED
    BY <1>0, <2>1, <2>5, <2>6, <2>8, <2>12, <2>13 DEF PlaceInv
<1>6. ASSUME NEW t \in Tasks, PollBatched(t) \/ DropUnbatched(t) PROVE PlaceInv'
  BY <1>0, <1>1, <1>6 DEF TypeOK, PollBatched, DropUnbatched
<1>7. ASSUME NEW t \in Tasks, DropBatched(t) \/ DropSpin(t) PROVE PlaceInv'
  <2>1. UNCHANGED <<rx, cell, open, batch, at, pc>>
    BY <1>7 DEF DropBatched, DropSpin
  <2>2. DropOutcome(t, state[cell[t]])
    BY <1>7 DEF DropBatched, DropSpin
  <2>3. \A s \in Tasks : future'[s] = "unbatched" => future[s] = "unbatched"
    BY <1>0, <2>2, DropTypes
  <2> QED
    BY <1>1, <2>1, <2>3
<1>8. CASE IntoAssignment \/ Abandon
  BY <1>3, <1>8 DEF IntoAssignment, Abandon
<1>9. CASE TakeTask \/ Panic \/ StoreValue \/ WakeReceiver \/ WakeReturns
  BY <1>1, <1>9 DEF TakeTask, Panic, StoreValue, WakeReceiver, WakeReturns
<1>10. CASE ShortIter \/ DropAssignment
  BY <1>2, <1>10 DEF ShortIter, DropAssignment
<1>11. CASE MarkSetting
  <2>1. CASE Gone(state[Here])
    BY <1>4, <1>11, <2>1 DEF MarkSetting
  <2>2. CASE ~ Gone(state[Here])
    BY <1>1, <1>11, <2>2 DEF MarkSetting
  <2> QED
    BY <2>1, <2>2
<1>12. CASE PublishValue
  BY <1>4, <1>12 DEF PublishValue
<1>13. CASE UNCHANGED vars
  BY <1>1, <1>13 DEF vars
<1> QED
  BY <1>5, <1>6, <1>7, <1>8, <1>9, <1>10, <1>11, <1>12, <1>13
     DEF Next, ResolverStep, FutureStep

LEMMA PlaceInvariance == Spec => []Placed
<1>1. Placed /\ [Next]_vars => Placed'
  BY TypeStep, PlaceStep DEF Placed
<1> QED
  BY InitPlaced, <1>1, PTL DEF Spec

(***************************************************************************)
(* Whatever is dropped, abandoned, cut short or polled spuriously: no cell *)
(* is in use twice, the pointer of every cell in use leads to a receiver   *)
(* that points back at the cell, and the resolver never leaves its batch   *)
(* (PlaceInv), so that resolve_unchecked follows no pointer that init has  *)
(* not written; and every variable keeps its type.                         *)
(***************************************************************************)
THEOREM PointersLeadToReceivers == Spec => [](TypeOK /\ PlaceInv)
BY PlaceInvariance, PTL DEF Placed

-----------------------------------------------------------------------------
(* Tasks are taken where there is one                                      *)

\* Unwinding never runs over tasks that the closure has taken already.
PanicFree == TaskNeedsDrop => "panic" \notin Faults

LEMMA TaskStep ==
  ASSUME PanicFree, Placed, TaskInv, [Next]_vars PROVE TaskInv'
<1> USE DEF cellVars, futureVars, resolverVars, historyVars
<1>0. TypeOK /\ PlaceInv
  BY DEF Placed
<1>1. ASSUME UNCHANGED <<task, open, batch, at, pc>> PROVE TaskInv'
  BY <1>1 DEF TaskInv, TakesInitialised, Here
\* The resolver is between two accesses to the same task.
<1>2. ASSUME UNCHANGED <<open, batch, at>>,
             pc \in {"take", "mark", "store", "wake", "waking", "publish"},
             pc' \in {"mark", "store", "wake", "waking", "publish"},
             \A c \in Cells : c # Here => task'[c] = task[c]
      PROVE  TaskInv'
  <2>1. \A i \in DOMAIN open : open[i] \in Cells /\ open[i] # Here
    BY <1>2, InUse DEF Here
  <2>2. at \in DOMAIN batch /\ batch \in Seq(Cells)
    BY <1>0, <1>2, InUse DEF TypeOK
  <2>3. \A i \in DOMAIN batch : at < i => batch[i] \in Cells /\ batch[i] # Here
    BY <1>0, <2>2, InUse DEF PlaceInv, Here
  <2> QED
    BY <1>2, <2>1, <2>3 DEF TaskInv, TakesInitialised
<1>3. ASSUME UNCHANGED <<task, open>>, batch' = << >>, pc' = "idle" PROVE TaskInv'
  BY <1>3 DEF TaskInv, TakesInitialised
<1>4. ASSUME UNCHANGED <<task, open>>, pc \in {"mark", "publish"}, Advance PROVE TaskInv'
  <2>1. CASE at + 1 \in DOMAIN batch /\ at' = at + 1 /\ pc' = "take" /\ batch' = batch
    <3>1. batch \in Seq(Cells) /\ at \in Nat
      BY <1>0 DEF TypeOK
    <3>2. at < at + 1 /\ \A i \in DOMAIN batch : at + 1 < i => at < i
      BY <3>1
    <3> QED
      BY <1>4, <2>1, <3>2 DEF TaskInv, TakesInitialised, Here
  <2>2. CASE at' = 0 /\ pc' = "idle" /\ batch' = << >>
    BY <1>3, <1>4, <2>2
  <2> QED
    BY <1>4, <2>1, <2>2, AdvanceCases
<1>5. ASSUME NEW t \in Tasks, PollUnbatched(t) PROVE TaskInv'
  <2> DEFINE c == current_write_index
  <2>1. /\ c \in Cells /\ c \notin Occupied /\ open' = Append(open, c)
        /\ task' = [task EXCEPT ![c] = t] /\ UNCHANGED <<batch, at, pc>>
    BY <1>5, WriteIndex DEF PollUnbatched, init
  <2> HIDE DEF c
  <2>2. /\ DOMAIN open' = DOMAIN open \cup {Len(open) + 1}
        /\ open'[Len(open) + 1] = c
        /\ \A i \in DOMAIN open : open'[i] = open[i]
    BY <1>0, <2>1, AppendCell DEF TypeOK
  <2>3. task'[c] # NONE /\ \A d \in Cells : d # c => task'[d] = task[d]
    BY <1>0, <2>1, ReceiversAssumption DEF TypeOK
  <2>4. /\ \A i \in DOMAIN open : task'[open[i]] = task[open[i]]
        /\ \A i \in DOMAIN batch : task'[batch[i]] = task[batch[i]]
    BY <2>1, <2>3, InUse DEF Occupied
  <2>5. \A i \in DOMAIN open' : task'[open'[i]] # NONE
    BY <2>2, <2>3, <2>4 DEF TaskInv
  <2>6. pc = "take" => at \in DOMAIN batch
    BY InUse
  <2> QED
    BY <2>1, <2>4, <2>5, <2>6 DEF TaskInv, TakesInitialised, Here
<1>6. ASSUME NEW t \in Tasks,
             PollBatched(t) \/ DropUnbatched(t) \/ DropBatched(t) \/ DropSpin(t)
      PROVE  TaskInv'
  BY <1>1, <1>6 DEF PollBatched, DropUnbatched, DropBatched, DropSpin
<1>7. CASE IntoAssignment \/ Abandon
  <2>1. /\ UNCHANGED task /\ batch' = open /\ open' = << >> /\ at' = 1
        /\ open # << >> /\ pc' \in {"take", "unwind"}
    BY <1>7 DEF IntoAssignment, Abandon
  <2>2. 1 \in DOMAIN open
    BY <1>0, <2>1 DEF TypeOK
  <2> QED
    BY <2>1, <2>2 DEF TaskInv, TakesInitialised, Here
<1>8. CASE TakeTask
  <2>1. \A c \in Cells : c # Here => task'[c] = task[c]
    BY <1>0, <1>8 DEF TypeOK, TakeTask
  <2> QED
    BY <1>2, <1>8, <2>1 DEF TakeTask
<1>9. CASE StoreValue \/ WakeReceiver \/ WakeReturns
  BY <1>2, <1>9 DEF StoreValue, WakeReceiver, WakeReturns
<1>10. CASE Panic
  BY <1>10 DEF Panic, PanicFree, TaskInv, TakesInitialised
<1>11. CASE ShortIter
  BY <1>3, <1>11 DEF ShortIter
<1>12. CASE DropAssignment
  <2>1. /\ UNCHANGED open /\ batch' = << >> /\ pc' = "idle"
        /\ task' = [c \in Cells |->
                     IF TaskNeedsDrop /\ \E i \in DOMAIN batch : batch[i] = c
                       THEN NONE ELSE task[c]]
    BY <1>12 DEF DropAssignment
  <2>2. \A i \in DOMAIN open : task'[open[i]] = task[open[i]]
    BY <2>1, InUse
  <2> QED
    BY <2>1, <2>2 DEF TaskInv, TakesInitialised
<1>13. CASE MarkSetting
  <2>1. CASE Gone(state[Here])
    BY <1>4, <1>13, <2>1 DEF MarkSetting
  <2>2. CASE ~ Gone(state[Here])
    BY <1>2, <1>13, <2>2 DEF MarkSetting
  <2> QED
    BY <2>1, <2>2
<1>14. CASE PublishValue
  BY <1>4, <1>14 DEF PublishValue
<1>15. CASE UNCHANGED vars
  BY <1>1, <1>15 DEF vars
<1> QED
  BY <1>5, <1>6, <1>7, <1>8, <1>9, <1>10, <1>11, <1>12, <1>13, <1>14, <1>15
     DEF Next, ResolverStep, FutureStep

(***************************************************************************)
(* take_task_unchecked moves a task out of a cell that holds one, provided *)
(* that the closure does not panic, or that tasks need no drop.  Batches   *)
(* may be abandoned or cut short, futures dropped and cells used again.    *)
(***************************************************************************)
THEOREM TasksAreTakenOnce ==
  ASSUME PanicFree PROVE Spec => []TakesInitialised
<1>1. Init => TaskInv
  BY DEF Init, TaskInv, TakesInitialised
<1>2. Placed /\ TaskInv /\ [Next]_vars => TaskInv'
  BY TaskStep
<1>3. TaskInv => TakesInitialised
  BY DEF TaskInv
<1> QED
  BY <1>1, <1>2, <1>3, PlaceInvariance, PTL DEF Spec

-----------------------------------------------------------------------------
(* Layer 2: values and flags, where no two futures share a waker           *)

\* As with spawn: no runtime task polls two futures.
OneWakerEach == \A g \in RuntimeTasks : \A s, t \in g : s = t

LEMMA WokenAlone ==
  ASSUME OneWakerEach, NEW r, NEW t \in Woken(r)
  PROVE  t = r /\ future[t] \in {"unbatched", "batched"}
BY DEF OneWakerEach, Woken

\* A cell is found by its receiver.
LEMMA PointerIsOwn ==
  ASSUME Placed, NEW c \in Cells, NEW d \in Cells, rx[c] \in Tasks, rx[c] = rx[d]
  PROVE  c = d
BY DEF Placed, PlaceInv

LEMMA FreshInUse ==
  ASSUME Placed
  PROVE  /\ \A c \in FreshCells : c \in Cells /\ c \in Occupied /\ rx[c] \in Tasks
         /\ pc \in {"take", "mark"} => Here \in FreshCells
         /\ pc \in {"store", "wake", "waking", "publish"} => Here \notin FreshCells
<1>1. \A c \in FreshCells : c \in Cells /\ c \in Occupied /\ rx[c] \in Tasks
  BY InUse DEF FreshCells, OpenCells, Occupied
<1>2. ASSUME pc \in {"take", "mark"} PROVE Here \in FreshCells
  BY <1>2, InUse DEF FreshCells, Ahead, Here
<1>3. ASSUME pc \in {"store", "wake", "waking", "publish"} PROVE Here \notin FreshCells
  <2>1. at \in DOMAIN batch /\ at \in Nat
    BY <1>3, InUse DEF Placed, TypeOK
  <2>2. \A i \in DOMAIN open : open[i] # Here
    BY <2>1, InUse DEF Here
  <2>3. \A i \in DOMAIN batch : batch[i] = Here => i = at
    BY <2>1 DEF Placed, PlaceInv, Here
  <2>4. ~ Ahead(at)
    BY <1>3, <2>1 DEF Ahead
  <2> QED
    BY <2>2, <2>3, <2>4 DEF FreshCells, OpenCells
<1> QED
  BY <1>1, <1>2, <1>3

\* Only a poll adds a fresh cell; a write that was announced or finished ends it.
LEMMA FreshShrinks ==
  ASSUME Placed, [Next]_vars
  PROVE  \/ /\ FreshCells' \subseteq FreshCells
            /\ MarkSetting \/ PublishValue => Here \notin FreshCells'
         \/ \E t \in Tasks : PollUnbatched(t) /\ FreshCells' = FreshCells \cup {current_write_index}
<1> USE DEF cellVars, futureVars, resolverVars, historyVars
<1>0. TypeOK /\ PlaceInv
  BY DEF Placed
<1> DEFINE P == /\ FreshCells' \subseteq FreshCells
                /\ MarkSetting \/ PublishValue => Here \notin FreshCells'
<1>1. ASSUME UNCHANGED <<open, batch, at>>,
             \A i \in DOMAIN batch : Ahead(i)' => Ahead(i)
      PROVE  FreshCells' \subseteq FreshCells
  BY <1>1 DEF FreshCells, OpenCells
<1>2. ASSUME pc # "idle", UNCHANGED open, batch' = << >>
      PROVE  FreshCells' \subseteq FreshCells /\ Here \notin FreshCells'
  <2>1. FreshCells' = OpenCells
    BY <1>2 DEF FreshCells, OpenCells
  <2>2. Here \notin OpenCells
    BY <1>2, InUse DEF OpenCells, Here
  <2> QED
    BY <2>1, <2>2 DEF FreshCells
<1>3. ASSUME pc # "idle", UNCHANGED open, Advance
      PROVE  FreshCells' \subseteq FreshCells /\ Here \notin FreshCells'
  <2>1. CASE at + 1 \in DOMAIN batch /\ at' = at + 1 /\ pc' = "take" /\ batch' = batch
    <3>1. at \in DOMAIN batch /\ at \in Nat /\ batch \in Seq(Cells)
      BY <1>0, <1>3, InUse DEF TypeOK
    <3>2. \A i \in DOMAIN batch : Ahead(i)' => at < i /\ i # at
      BY <2>1, <3>1 DEF Ahead
    <3>3. Here \notin OpenCells
      BY <1>3, InUse DEF OpenCells, Here
    <3>4. \A i \in DOMAIN batch : Ahead(i)' => Ahead(i) /\ batch[i] # Here
      BY <1>0, <3>1, <3>2 DEF Ahead, PlaceInv, Here
    <3> QED
      BY <1>3, <2>1, <3>3, <3>4 DEF FreshCells, OpenCells
  <2>2. CASE at' = 0 /\ pc' = "idle" /\ batch' = << >>
    BY <1>2, <1>3, <2>2
  <2> QED
    BY <1>3, <2>1, <2>2, AdvanceCases
<1>4. ASSUME NEW t \in Tasks, PollUnbatched(t)
      PROVE  FreshCells' = FreshCells \cup {current_write_index}
  <2> DEFINE c == current_write_index
  <2>1. c \in Cells /\ open' = Append(open, c) /\ UNCHANGED <<batch, at, pc>>
    BY <1>4, WriteIndex DEF PollUnbatched
  <2> HIDE DEF c
  <2>2. /\ DOMAIN open' = DOMAIN open \cup {Len(open) + 1}
        /\ open'[Len(open) + 1] = c
        /\ \A i \in DOMAIN open : open'[i] = open[i]
    BY <1>0, <2>1, AppendCell DEF TypeOK
  <2>3. OpenCells' = OpenCells \cup {c}
    BY <2>2 DEF OpenCells
  <2>4. FreshCells' = FreshCells \cup {c}
    BY <2>1, <2>3 DEF FreshCells, Ahead
  <2> QED
    BY <2>4 DEF c
<1>5. ASSUME NEW t \in Tasks,
             PollBatched(t) \/ DropUnbatched(t) \/ DropBatched(t) \/ DropSpin(t)
      PROVE  P
  <2>1. UNCHANGED <<open, batch, at, pc>>
    BY <1>5 DEF PollBatched, DropUnbatched, DropBatched, DropSpin
  <2>2. ~ MarkSetting /\ ~ PublishValue
    <3>1. MarkSetting => pc' # pc
      BY <1>0, AdvanceCases DEF MarkSetting
    <3>2. PublishValue => pc' # pc
      BY <1>0, AdvanceCases DEF PublishValue
    <3> QED
      BY <2>1, <3>1, <3>2
  <2> QED
    BY <1>1, <2>1, <2>2 DEF Ahead
<1>6. CASE IntoAssignment \/ Abandon
  <2>1. pc = "idle" /\ batch' = open /\ open' = << >>
    BY <1>6 DEF IntoAssignment, Abandon
  <2>2. FreshCells' \subseteq FreshCells
    BY <2>1 DEF FreshCells, OpenCells
  <2> QED
    BY <2>1, <2>2 DEF MarkSetting, PublishValue
<1>7. CASE TakeTask \/ StoreValue \/ WakeReceiver \/ WakeReturns
  BY <1>1, <1>7 DEF TakeTask, StoreValue, WakeReceiver, WakeReturns, MarkSetting, PublishValue, Ahead
<1>8. CASE Panic
  <2>1. FreshCells' \subseteq FreshCells
    BY <1>1, <1>8 DEF Panic, Ahead
  <2>2. ~ MarkSetting /\ ~ PublishValue
    <3>1. pc = "mark" /\ pc' = "unwind"
      BY <1>8 DEF Panic
    <3>2. MarkSetting => pc' # "unwind"
      BY <1>0, <3>1, AdvanceCases DEF MarkSetting
    <3> QED
      BY <3>1, <3>2 DEF PublishValue
  <2> QED
    BY <2>1, <2>2
<1>9. CASE ShortIter \/ DropAssignment
  BY <1>2, <1>9 DEF ShortIter, DropAssignment
<1>10. CASE MarkSetting
  <2>1. CASE Gone(state[Here])
    BY <1>3, <1>10, <2>1 DEF MarkSetting
  <2>2. CASE ~ Gone(state[Here])
    <3>1. pc = "mark" /\ pc' = "store" /\ UNCHANGED <<open, batch, at>>
      BY <1>10, <2>2 DEF MarkSetting
    <3>2. FreshCells' \subseteq FreshCells
      BY <1>1, <3>1 DEF Ahead
    <3>3. at \in DOMAIN batch /\ at \in Nat
      BY <1>0, <3>1, InUse DEF TypeOK
    <3>4. \A i \in DOMAIN batch : Ahead(i)' => batch[i] # Here
      BY <1>0, <3>1, <3>3 DEF Ahead, PlaceInv, Here
    <3>5. \A i \in DOMAIN open : open[i] # Here
      BY <3>3, InUse DEF Here
    <3>6. Here \notin FreshCells'
      BY <3>1, <3>4, <3>5 DEF FreshCells, OpenCells
    <3> QED
      BY <3>2, <3>6
  <2> QED
    BY <2>1, <2>2
<1>11. CASE PublishValue
  BY <1>3, <1>11 DEF PublishValue
<1>12. CASE UNCHANGED vars
  <2>1. FreshCells' \subseteq FreshCells
    BY <1>1, <1>12 DEF vars, Ahead
  <2>2. ~ MarkSetting /\ ~ PublishValue
    <3>1. MarkSetting => pc' # pc
      BY <1>0, AdvanceCases DEF MarkSetting
    <3>2. PublishValue => pc' # pc
      BY <1>0, AdvanceCases DEF PublishValue
    <3> QED
      BY <1>12, <3>1, <3>2 DEF vars
  <2> QED
    BY <2>1, <2>2
<1> QED
  BY <1>4, <1>5, <1>6, <1>7, <1>8, <1>9, <1>10, <1>11, <1>12
     DEF Next, ResolverStep, FutureStep

-----------------------------------------------------------------------------
(* The effect of the steps on one cell and on one future                   *)

LEMMA PollEffect ==
  ASSUME Placed, NEW t \in Tasks, PollUnbatched(t), NEW c, c = current_write_index
  PROVE  /\ c \in Cells /\ c \notin Occupied /\ rx'[c] = t /\ state'[c] = {}
         /\ cell'[t] = c /\ future[t] = "unbatched" /\ future'[t] = "batched"
         /\ \A s \in Tasks : s # t => future'[s] = future[s] /\ cell'[s] = cell[s]
         /\ \A d \in Cells : d # c => rx'[d] = rx[d] /\ state'[d] = state[d] /\ rx[d] # t
         /\ due' = due \ {t} /\ UNCHANGED <<value, batch, at, pc, skipped>>
<1> USE DEF cellVars, futureVars, resolverVars, historyVars
<1>1. c \in Cells
  BY WriteIndex
<1>2. TypeOK
  BY DEF Placed
<1>3. \A d \in Cells : rx[d] # t
  BY DEF PollUnbatched, Placed, PlaceInv
<1> QED
  BY <1>1, <1>2, <1>3 DEF PollUnbatched, init, TypeOK

LEMMA DropEffect ==
  ASSUME TypeOK, NEW t \in Tasks, NEW flags, DropOutcome(t, flags)
  PROVE  /\ \A s \in Tasks : s # t => future'[s] = future[s] /\ value'[s] = value[s]
         /\ \/ /\ future'[t] = "dropping" /\ value'[t] = value[t]
               /\ "SETTING_VALUE" \in flags
            \/ /\ future'[t] = "dropped"
               /\ "SETTING_VALUE" \notin flags
               /\ value'[t] = IF TaskNeedsDrop /\ "VALUE_SET" \in flags
                                THEN InPlace(value[t]) ELSE value[t]
BY DEF TypeOK, DropOutcome

LEMMA DropFrame ==
  ASSUME TypeOK, NEW t \in Tasks, DropBatched(t) \/ DropSpin(t)
  PROVE  /\ DropOutcome(t, state[cell[t]]) /\ cell[t] \in Cells
         /\ future[t] \in Alive
         /\ UNCHANGED <<rx, task, cell, enqueued, open, batch, at, pc, skipped, failed>>
         /\ \A c \in Cells : c # cell[t] => state'[c] = state[c]
         /\ state'[cell[t]] \in {state[cell[t]], state[cell[t]] \cup {"RX_DROPPED"}}
         /\ DropBatched(t) => "RX_DROPPED" \in state'[cell[t]] /\ Drops /\ due' = due \ {t}
         /\ DropSpin(t) => future[t] = "dropping" /\ state' = state /\ due' = due
<1> USE DEF cellVars, futureVars, resolverVars, historyVars, Alive
<1>1. CASE DropBatched(t)
  BY <1>1 DEF TypeOK, DropBatched, DropSpin
<1>2. CASE DropSpin(t)
  BY <1>2 DEF TypeOK, DropBatched, DropSpin
<1> QED
  BY <1>1, <1>2

LEMMA MarkEffect ==
  ASSUME Placed, MarkSetting
  PROVE  /\ Here \in Cells /\ rx[Here] \in Tasks /\ pc = "mark"
         /\ state'[Here] = state[Here] \cup {"SETTING_VALUE"}
         /\ \A c \in Cells : c # Here => state'[c] = state[c]
         /\ UNCHANGED <<rx, task, future, cell, value, due, enqueued, open, failed>>
         /\ \/ Gone(state[Here]) /\ Advance /\ skipped' = skipped \cup {rx[Here]}
               /\ pc' \in {"take", "idle"}
            \/ ~ Gone(state[Here]) /\ pc' = "store" /\ UNCHANGED <<batch, at, skipped>>
<1>1. pc = "mark" /\ Here \in Cells /\ rx[Here] \in Tasks
  BY InUse DEF MarkSetting
<1>2. Advance => pc' \in {"take", "idle"}
  BY <1>1, AdvanceTypes
<1> QED
  BY <1>1, <1>2 DEF MarkSetting, Placed, TypeOK, futureVars

LEMMA StoreEffect ==
  ASSUME Placed, StoreValue
  PROVE  /\ Here \in Cells /\ rx[Here] \in Tasks /\ pc = "store" /\ pc' = "wake"
         /\ value'[rx[Here]] = IF value[rx[Here]] = "uninit" THEN "set" ELSE value[rx[Here]]
         /\ \A t \in Tasks : t # rx[Here] => value'[t] = value[t]
         /\ UNCHANGED <<state, rx, task, future, cell, due, enqueued, open, batch, at,
                        skipped, failed>>
<1>1. pc = "store" /\ Here \in Cells /\ rx[Here] \in Tasks
  BY InUse DEF StoreValue
<1> QED
  BY <1>1 DEF StoreValue, Placed, TypeOK, cellVars, historyVars

LEMMA PublishEffect ==
  ASSUME Placed, PublishValue
  PROVE  /\ Here \in Cells /\ rx[Here] \in Tasks /\ pc = "publish" /\ pc' \in {"take", "idle"}
         /\ state'[Here] = Published(state[Here])
         /\ \A c \in Cells : c # Here => state'[c] = state[c]
         /\ UNCHANGED <<rx, task, future, cell, value, due, enqueued, open, skipped, failed>>
<1>1. pc = "publish" /\ Here \in Cells /\ rx[Here] \in Tasks
  BY InUse DEF PublishValue
<1>2. pc' \in {"take", "idle"}
  BY <1>1, AdvanceTypes DEF PublishValue
<1> QED
  BY <1>1, <1>2 DEF PublishValue, Placed, TypeOK, futureVars, historyVars

\* Steps of the resolver, or its failures, that touch neither flags nor values.
Quiet ==
  IntoAssignment \/ Abandon \/ TakeTask \/ Panic \/ ShortIter \/ DropAssignment

LEMMA QuietEffect ==
  ASSUME Quiet \/ WakeReceiver \/ WakeReturns
  PROVE  /\ UNCHANGED <<state, rx, future, cell, value, enqueued, skipped>>
         /\ WakeReturns => UNCHANGED due
         /\ Quiet => UNCHANGED due /\ pc' \in {"take", "mark", "idle", "unwind"}
<1> USE DEF cellVars, futureVars, resolverVars, historyVars
<1>1. ASSUME Quiet
      PROVE  /\ UNCHANGED <<state, rx, future, cell, value, enqueued, skipped, due>>
             /\ pc' \in {"take", "mark", "idle", "unwind"}
  BY <1>1 DEF Quiet, IntoAssignment, Abandon, TakeTask, Panic, ShortIter, DropAssignment
<1>2. ASSUME WakeReceiver PROVE UNCHANGED <<state, rx, future, cell, value, enqueued, skipped>>
  BY <1>2 DEF WakeReceiver
<1>3. ASSUME WakeReturns
      PROVE  UNCHANGED <<state, rx, future, cell, value, enqueued, skipped, due>>
  BY <1>3 DEF WakeReturns
<1> QED
  BY <1>1, <1>2, <1>3

LEMMA StepCases ==
  ASSUME [Next]_vars
  PROVE  \/ \E t \in Tasks : PollUnbatched(t) \/ PollBatched(t) \/ DropUnbatched(t)
                             \/ DropBatched(t) \/ DropSpin(t)
         \/ Quiet \/ MarkSetting \/ StoreValue \/ WakeReceiver \/ WakeReturns \/ PublishValue
         \/ UNCHANGED vars
BY DEF Next, ResolverStep, FutureStep, Quiet

\* A poll that takes a value, and the drop of a future that was never enqueued.
LEMMA TakenEffect ==
  ASSUME TypeOK, NEW t \in Tasks, PollBatched(t) \/ DropUnbatched(t)
  PROVE  /\ UNCHANGED <<state, rx, task, cell, enqueued, open, batch, at, pc, skipped, failed>>
         /\ due' = due \ {t}
         /\ \A s \in Tasks : s # t => future'[s] = future[s] /\ value'[s] = value[s]
         /\ PollBatched(t) => /\ t \in due /\ future[t] = "batched"
                              /\ future'[t] = "received" /\ value'[t] = Moved(value[t])
         /\ DropUnbatched(t) => /\ Drops /\ future[t] = "unbatched"
                                /\ future'[t] = "dropped" /\ value'[t] = value[t]
<1> USE DEF cellVars, futureVars, resolverVars, historyVars
<1>1. CASE PollBatched(t)
  BY <1>1 DEF TypeOK, PollBatched, DropUnbatched
<1>2. CASE DropUnbatched(t)
  BY <1>2 DEF TypeOK, PollBatched, DropUnbatched
<1> QED
  BY <1>1, <1>2

-----------------------------------------------------------------------------

SInv == Placed /\ SlotInv

LEMMA FreshStep == SInv /\ [Next]_vars => FreshInv'
<1> SUFFICES ASSUME SInv, [Next]_vars, NEW c \in FreshCells' PROVE Fresh(c)'
  BY DEF FreshInv
<1>0. TypeOK /\ Placed /\ FreshInv /\ ValueInv
  BY DEF SInv, SlotInv, Placed
<1>1. \A d \in FreshCells : d \in Cells /\ d \in Occupied /\ rx[d] \in Tasks /\ Fresh(d)
  BY <1>0, FreshInUse DEF FreshInv
<1>2. ASSUME NEW t \in Tasks, PollUnbatched(t) PROVE Fresh(c)'
  <2>1. PICK d : d = current_write_index
    OBVIOUS
  <2>2. c \in FreshCells \cup {d}
    BY <1>0, <2>1, FreshShrinks
  <2>3. CASE c = d
    <3>1. value[t] = "uninit" /\ value' = value /\ rx'[d] = t /\ state'[d] = {}
      BY <1>0, <1>2, <2>1, PollEffect DEF ValueInv
    <3> QED
      BY <2>3, <3>1 DEF Fresh
  <2>4. CASE c # d
    <3>1. c \in Cells /\ Fresh(c)
      BY <1>1, <2>2, <2>4
    <3>2. value' = value /\ rx'[c] = rx[c] /\ state'[c] = state[c]
      BY <1>0, <1>2, <2>1, <2>4, <3>1, PollEffect
    <3> QED
      BY <3>1, <3>2 DEF Fresh
  <2> QED
    BY <2>3, <2>4
<1>3. ASSUME ~ \E t \in Tasks : PollUnbatched(t)
      PROVE  /\ c \in FreshCells /\ c \in Cells /\ rx[c] \in Tasks
             /\ state[c] \subseteq {"RX_DROPPED"} /\ value[rx[c]] = "uninit"
             /\ MarkSetting \/ PublishValue => c # Here
  BY <1>0, <1>1, <1>3, FreshShrinks DEF Fresh
<1>4. ASSUME c \in FreshCells, UNCHANGED <<state, rx, value>> PROVE Fresh(c)'
  BY <1>1, <1>4 DEF Fresh
<1>5. ASSUME ~ \E t \in Tasks : PollUnbatched(t) PROVE Fresh(c)'
  <2>1. ASSUME NEW t \in Tasks, PollBatched(t) \/ DropUnbatched(t) PROVE Fresh(c)'
    <3>1. value'[rx[c]] = "uninit"
      <4>1. CASE rx[c] = t /\ PollBatched(t)
        BY <1>0, <1>3, <1>5, <4>1, TakenEffect DEF ValueInv
      <4>2. CASE rx[c] = t /\ DropUnbatched(t)
        BY <1>0, <1>3, <1>5, <4>2, TakenEffect
      <4>3. CASE rx[c] # t
        BY <1>0, <1>3, <1>5, <2>1, <4>3, TakenEffect
      <4> QED
        BY <2>1, <4>1, <4>2, <4>3
    <3>2. UNCHANGED <<rx, state>>
      BY <1>0, <2>1, TakenEffect
    <3> QED
      BY <1>3, <1>5, <3>1, <3>2 DEF Fresh
  <2>2. ASSUME NEW t \in Tasks, DropBatched(t) \/ DropSpin(t) PROVE Fresh(c)'
    <3>1. /\ DropOutcome(t, state[cell[t]]) /\ rx' = rx
          /\ state'[c] \in {state[c], state[c] \cup {"RX_DROPPED"}}
      BY <1>0, <1>3, <1>5, <2>2, DropFrame
    <3>2. CASE rx[c] = t
      <4>1. cell[t] = c
        BY <1>0, <1>3, <1>5, <3>2 DEF Placed, PlaceInv
      <4>2. value'[t] = value[t]
        BY <1>0, <1>3, <1>5, <3>1, <4>1, DropEffect
      <4> QED
        BY <1>3, <1>5, <3>1, <3>2, <4>2 DEF Fresh
    <3>3. CASE rx[c] # t
      <4>1. value'[rx[c]] = value[rx[c]]
        BY <1>0, <1>3, <1>5, <3>1, <3>3, DropEffect
      <4> QED
        BY <1>3, <1>5, <3>1, <4>1 DEF Fresh
    <3> QED
      BY <3>2, <3>3
  <2>3. CASE Quiet \/ WakeReceiver \/ WakeReturns
    BY <1>3, <1>4, <1>5, <2>3, QuietEffect
  <2>4. CASE MarkSetting
    <3>1. state'[c] = state[c] /\ UNCHANGED <<rx, value>>
      BY <1>0, <1>3, <1>5, <2>4, MarkEffect
    <3> QED
      BY <1>3, <1>5, <3>1 DEF Fresh
  <2>5. CASE StoreValue
    <3>1. Here \notin FreshCells
      BY <1>0, <2>5, FreshInUse DEF StoreValue
    <3>2. Here \in Cells /\ rx[Here] \in Tasks /\ UNCHANGED <<rx, state>>
      BY <1>0, <2>5, StoreEffect
    <3>3. rx[c] # rx[Here]
      BY <1>0, <1>3, <1>5, <3>1, <3>2, PointerIsOwn
    <3>4. value'[rx[c]] = value[rx[c]]
      BY <1>0, <1>3, <1>5, <2>5, <3>3, StoreEffect
    <3> QED
      BY <1>3, <1>5, <3>2, <3>4 DEF Fresh
  <2>6. CASE PublishValue
    <3>1. state'[c] = state[c] /\ UNCHANGED <<rx, value>>
      BY <1>0, <1>3, <1>5, <2>6, PublishEffect
    <3> QED
      BY <1>3, <1>5, <3>1 DEF Fresh
  <2>7. CASE UNCHANGED vars
    BY <1>3, <1>4, <1>5, <2>7 DEF vars, cellVars, futureVars
  <2> QED
    BY <1>5, <2>1, <2>2, <2>3, <2>4, <2>5, <2>6, <2>7, StepCases
<1> QED
  BY <1>2, <1>5

LEMMA ValueStep ==
  ASSUME OneWakerEach, SInv, [Next]_vars PROVE ValueInv'
<1>0. TypeOK /\ Placed /\ ValueInv /\ WriteInv
  BY DEF SInv, SlotInv, Placed
<1> DEFINE Good(s) ==
      /\ future[s] = "unbatched" => value[s] = "uninit"
      /\ future[s] \in Alive => value[s] \in {"uninit", "set"}
      /\ future[s] = "received" => value[s] = "received"
      /\ future[s] \in {"dropping", "dropped"} => Drops
      /\ s \in due => \/ future[s] = "unbatched"
                      \/ future[s] = "batched" /\ value[s] = "set"
<1> SUFFICES ASSUME NEW s \in Tasks PROVE Good(s)'
  BY DEF ValueInv
<1>1. Good(s)
  BY <1>0 DEF ValueInv
<1>2. ASSUME future'[s] = future[s], value'[s] = value[s], s \in due' => s \in due
      PROVE  Good(s)'
  BY <1>1, <1>2
<1> USE DEF Alive
<1>3. ASSUME NEW t \in Tasks, PollUnbatched(t) PROVE Good(s)'
  <2>1. PICK d : d = current_write_index
    OBVIOUS
  <2>2. CASE s = t
    BY <1>0, <1>1, <1>3, <2>1, <2>2, PollEffect
  <2>3. CASE s # t
    BY <1>0, <1>2, <1>3, <2>1, <2>3, PollEffect
  <2> QED
    BY <2>2, <2>3
<1>4. ASSUME NEW t \in Tasks, PollBatched(t) \/ DropUnbatched(t) PROVE Good(s)'
  <2>1. CASE s = t /\ PollBatched(t)
    BY <1>0, <1>1, <2>1, TakenEffect DEF Moved
  <2>2. CASE s = t /\ DropUnbatched(t)
    BY <1>0, <1>1, <2>2, TakenEffect
  <2>3. CASE s # t
    BY <1>0, <1>2, <1>4, <2>3, TakenEffect
  <2> QED
    BY <1>4, <2>1, <2>2, <2>3
<1>5. ASSUME NEW t \in Tasks, DropBatched(t) \/ DropSpin(t) PROVE Good(s)'
  <2>1. /\ DropOutcome(t, state[cell[t]]) /\ due' \subseteq due /\ future[t] \in Alive
        /\ t \notin due' \/ future[t] = "dropping"
        /\ Drops \/ future[t] = "dropping"
    BY <1>0, <1>5, DropFrame
  <2>2. CASE s = t
    <3>1. \/ future'[t] = "dropping" /\ value'[t] = value[t]
          \/ future'[t] = "dropped"
      BY <1>0, <2>1, DropEffect
    <3>2. t \notin due' /\ Drops
      BY <1>1, <2>1, <2>2
    <3> QED
      BY <1>1, <2>1, <2>2, <3>1, <3>2
  <2>3. CASE s # t
    BY <1>0, <1>2, <2>1, <2>3, DropEffect
  <2> QED
    BY <2>2, <2>3
<1>6. CASE Quiet
  BY <1>2, <1>6, QuietEffect
<1>7. CASE MarkSetting
  BY <1>0, <1>2, <1>7, MarkEffect
<1>8. CASE StoreValue
  <2>1. CASE s = rx[Here]
    <3>1. future[s] \in Alive /\ s \notin due /\ value[s] = "uninit"
      BY <1>0, <1>8, <2>1, StoreEffect DEF WriteInv
    <3>2. value'[s] = "set" /\ UNCHANGED <<future, due>>
      BY <1>0, <1>8, <2>1, <3>1, StoreEffect
    <3> QED
      BY <1>1, <3>1, <3>2
  <2>2. CASE s # rx[Here]
    BY <1>0, <1>2, <1>8, <2>2, StoreEffect
  <2> QED
    BY <2>1, <2>2
<1>9. CASE WakeReceiver
  <2>1. UNCHANGED <<future, value>>
    BY <1>9, QuietEffect
  <2>2. due' = due \cup Woken(rx[Here]) /\ pc = "wake"
    BY <1>9 DEF WakeReceiver
  <2>3. CASE s \in Woken(rx[Here])
    <3>1. s = rx[Here] /\ future[s] \in {"unbatched", "batched"}
      BY <2>3, WokenAlone
    <3>2. future[s] \in Alive /\ value[s] = "set"
      BY <1>0, <2>2, <3>1 DEF WriteInv
    <3> QED
      BY <1>1, <2>1, <3>1, <3>2
  <2>4. CASE s \notin Woken(rx[Here])
    BY <1>2, <2>1, <2>2, <2>4
  <2> QED
    BY <2>3, <2>4
<1>10. CASE WakeReturns
  BY <1>2, <1>10, QuietEffect
<1>11. CASE PublishValue
  BY <1>0, <1>2, <1>11, PublishEffect
<1>12. CASE UNCHANGED vars
  BY <1>2, <1>12 DEF vars, futureVars
<1> QED
  BY <1>3, <1>4, <1>5, <1>6, <1>7, <1>8, <1>9, <1>10, <1>11, <1>12, StepCases

LEMMA FlagStep == SInv /\ [Next]_vars => FlagInv'
<1> SUFFICES ASSUME SInv, [Next]_vars PROVE FlagInv'
  OBVIOUS
<1>0. TypeOK /\ Placed /\ PlaceInv /\ ValueInv /\ FlagInv /\ WriteInv
  BY DEF SInv, SlotInv, Placed
<1> DEFINE Good(c) == rx[c] \in Tasks =>
      /\ future[rx[c]] \in {"dropping", "dropped"} => "RX_DROPPED" \in state[c]
      /\ future[rx[c]] \in Alive =>
           /\ "VALUE_SET" \in state[c] => value[rx[c]] = "set"
           /\ value[rx[c]] = "set" => state[c] \cap {"SETTING_VALUE", "VALUE_SET"} # {}
<1> SUFFICES ASSUME NEW c \in Cells PROVE Good(c)'
  BY DEF FlagInv
<1>1. Good(c)
  BY <1>0 DEF FlagInv
<1>2. ASSUME rx'[c] = rx[c], state'[c] = state[c],
             rx[c] \in Tasks => future'[rx[c]] = future[rx[c]] /\ value'[rx[c]] = value[rx[c]]
      PROVE  Good(c)'
  BY <1>1, <1>2
<1> USE DEF Alive
<1>3. ASSUME NEW t \in Tasks, PollUnbatched(t) PROVE Good(c)'
  <2>1. PICK d : d = current_write_index
    OBVIOUS
  <2>2. CASE c = d
    <3>1. /\ rx'[c] = t /\ state'[c] = {} /\ future'[t] = "batched"
          /\ future[t] = "unbatched" /\ value' = value
      BY <1>0, <1>3, <2>1, <2>2, PollEffect
    <3>2. value'[t] = "uninit"
      BY <1>0, <3>1 DEF ValueInv
    <3> QED
      BY <3>1, <3>2
  <2>3. CASE c # d
    BY <1>0, <1>2, <1>3, <2>1, <2>3, PollEffect
  <2> QED
    BY <2>2, <2>3
<1>4. ASSUME NEW t \in Tasks, PollBatched(t) \/ DropUnbatched(t) PROVE Good(c)'
  <2>1. UNCHANGED <<rx, state>>
    BY <1>0, <1>4, TakenEffect
  <2>2. CASE rx[c] = t
    <3>1. future[t] # "unbatched"
      BY <1>0, <2>2 DEF PlaceInv
    <3>2. future'[t] = "received"
      BY <1>0, <1>4, <3>1, TakenEffect
    <3> QED
      BY <2>1, <2>2, <3>2
  <2>3. CASE rx[c] # t
    BY <1>0, <1>2, <1>4, <2>1, <2>3, TakenEffect
  <2> QED
    BY <2>2, <2>3
<1>5. ASSUME NEW t \in Tasks, DropBatched(t) \/ DropSpin(t) PROVE Good(c)'
  <2>1. /\ DropOutcome(t, state[cell[t]]) /\ rx' = rx /\ future[t] \in Alive
        /\ c # cell[t] => state'[c] = state[c]
        /\ c = cell[t] => state'[c] \in {state[c], state[c] \cup {"RX_DROPPED"}}
        /\ c = cell[t] => "RX_DROPPED" \in state'[c] \/ (future[t] = "dropping" /\ state' = state)
    BY <1>0, <1>5, DropFrame
  <2>2. CASE rx[c] = t
    <3>1. c = cell[t]
      BY <1>0, <2>2 DEF PlaceInv
    <3>2. "RX_DROPPED" \in state'[c]
      BY <1>1, <2>1, <2>2, <3>1
    <3>3. \/ future'[t] = "dropping" /\ value'[t] = value[t]
          \/ future'[t] = "dropped"
      BY <1>0, <2>1, DropEffect
    <3> QED
      BY <1>1, <2>1, <2>2, <3>1, <3>2, <3>3
  <2>3. CASE rx[c] # t
    <3>1. rx[c] \in Tasks => future'[rx[c]] = future[rx[c]] /\ value'[rx[c]] = value[rx[c]]
      BY <1>0, <2>1, <2>3, DropEffect
    <3> QED
      BY <1>1, <2>1, <3>1
  <2> QED
    BY <2>2, <2>3
<1>6. CASE Quiet \/ WakeReceiver \/ WakeReturns
  BY <1>2, <1>6, QuietEffect
<1>7. CASE MarkSetting
  <2>1. /\ UNCHANGED <<rx, future, value>>
        /\ state'[c] \in {state[c], state[c] \cup {"SETTING_VALUE"}}
    BY <1>0, <1>7, MarkEffect
  <2> QED
    BY <1>1, <2>1
<1>8. CASE StoreValue
  <2>1. UNCHANGED <<rx, future, state>> /\ Here \in Cells /\ rx[Here] \in Tasks /\ pc = "store"
    BY <1>0, <1>8, StoreEffect
  <2>2. CASE c = Here
    <3>1. "SETTING_VALUE" \in state[c] /\ "VALUE_SET" \notin state[c]
      BY <1>0, <2>1, <2>2 DEF WriteInv
    <3> QED
      BY <1>1, <2>1, <3>1
  <2>3. CASE c # Here
    <3>1. rx[c] \in Tasks => rx[c] # rx[Here]
      BY <1>0, <2>1, <2>3, PointerIsOwn
    <3>2. rx[c] \in Tasks => value'[rx[c]] = value[rx[c]]
      BY <1>0, <1>8, <3>1, StoreEffect
    <3> QED
      BY <1>2, <2>1, <3>2
  <2> QED
    BY <2>2, <2>3
<1>9. CASE PublishValue
  <2>1. /\ UNCHANGED <<rx, future, value>> /\ Here \in Cells /\ pc = "publish"
        /\ state'[Here] = Published(state[Here])
        /\ c # Here => state'[c] = state[c]
    BY <1>0, <1>9, PublishEffect
  <2>2. CASE c = Here
    <3>1. /\ "SETTING_VALUE" \in state[c] /\ "VALUE_SET" \notin state[c]
          /\ future[rx[c]] \in Alive => value[rx[c]] = "set"
      BY <1>0, <2>1, <2>2 DEF WriteInv
    <3>2. "VALUE_SET" \in state'[c] /\ ("RX_DROPPED" \in state[c] => "RX_DROPPED" \in state'[c])
      BY <2>1, <2>2, <3>1 DEF Published, SymmetricDifference
    <3> QED
      BY <1>1, <2>1, <3>1, <3>2
  <2>3. CASE c # Here
    BY <1>2, <2>1, <2>3
  <2> QED
    BY <2>2, <2>3
<1>10. CASE UNCHANGED vars
  BY <1>2, <1>10 DEF vars, cellVars, futureVars
<1> QED
  BY <1>3, <1>4, <1>5, <1>6, <1>7, <1>8, <1>9, <1>10, StepCases

LEMMA WriteStep == SInv /\ [Next]_vars => WriteInv'
<1> SUFFICES ASSUME SInv, [Next]_vars PROVE WriteInv'
  OBVIOUS
<1>0. TypeOK /\ Placed /\ PlaceInv /\ FreshInv /\ ValueInv /\ FlagInv /\ WriteInv
  BY DEF SInv, SlotInv, Placed
<1>1. ASSUME pc' \notin {"store", "wake", "waking", "publish"} PROVE WriteInv'
  BY <1>1 DEF WriteInv
<1>2. ASSUME pc \in {"store", "wake", "waking", "publish"}
      PROVE  Here \in Cells /\ rx[Here] \in Tasks /\ Here \in Occupied
  <2>1. at \in DOMAIN batch /\ Here \in Cells /\ rx[Here] \in Tasks
    BY <1>0, <1>2, InUse
  <2> QED
    BY <2>1 DEF Occupied, Here
<1> USE DEF Alive
\* Steps of a future while the resolver works on the task rx[Here].
<1>3. ASSUME pc \in {"store", "wake", "waking", "publish"}, UNCHANGED <<batch, at, pc>>,
             rx'[Here] = rx[Here],
             state'[Here] \in {state[Here], state[Here] \cup {"RX_DROPPED"}},
             rx[Here] \in due' => rx[Here] \in due,
             \/ future'[rx[Here]] = future[rx[Here]] /\ value'[rx[Here]] = value[rx[Here]]
             \/ future'[rx[Here]] = "received" /\ pc \in {"waking", "publish"}
             \/ /\ future'[rx[Here]] = "dropping" /\ value'[rx[Here]] = value[rx[Here]]
                /\ future[rx[Here]] \in Alive
      PROVE  WriteInv'
  <2>1. Here' = Here
    BY <1>3 DEF Here
  <2>2. PICK h : h = Here
    OBVIOUS
  <2> QED
    BY <1>0, <1>3, <2>1, <2>2 DEF WriteInv
<1>4. ASSUME NEW t \in Tasks, PollUnbatched(t) PROVE WriteInv'
  <2>1. PICK d : d = current_write_index
    OBVIOUS
  <2>2. UNCHANGED <<batch, at, pc>>
    BY <1>0, <1>4, <2>1, PollEffect
  <2>3. CASE pc \in {"store", "wake", "waking", "publish"}
    <3>1. Here # d /\ Here \in Cells /\ rx[Here] \in Tasks
      BY <1>0, <1>2, <1>4, <2>1, <2>3, PollEffect
    <3>2. /\ rx'[Here] = rx[Here] /\ state'[Here] = state[Here] /\ rx[Here] # t
          /\ due' = due \ {t} /\ value' = value
          /\ \A s \in Tasks : s # t => future'[s] = future[s]
      BY <1>0, <1>4, <2>1, <3>1, PollEffect
    <3> QED
      BY <1>3, <2>2, <2>3, <3>1, <3>2
  <2> QED
    BY <1>1, <2>2, <2>3
<1>5. ASSUME NEW t \in Tasks, PollBatched(t) \/ DropUnbatched(t) PROVE WriteInv'
  <2>1. UNCHANGED <<state, rx, batch, at, pc>> /\ due' = due \ {t}
    BY <1>0, <1>5, TakenEffect
  <2>2. CASE pc \in {"store", "wake", "waking", "publish"} /\ rx[Here] = t
    <3>1. future[t] # "unbatched"
      BY <1>0, <1>2, <2>2 DEF PlaceInv
    <3>2. t \in due /\ future'[t] = "received"
      BY <1>0, <1>5, <3>1, TakenEffect
    <3>3. pc \in {"waking", "publish"}
      <4>1. pc \notin {"store", "wake"}
        BY <1>0, <2>2, <3>2 DEF WriteInv
      <4> QED
        BY <2>2, <4>1
    <3> QED
      BY <1>3, <2>1, <2>2, <3>2, <3>3
  <2>3. CASE pc \in {"store", "wake", "waking", "publish"} /\ rx[Here] # t
    <3>1. future'[rx[Here]] = future[rx[Here]] /\ value'[rx[Here]] = value[rx[Here]]
      BY <1>0, <1>2, <1>5, <2>3, TakenEffect
    <3> QED
      BY <1>3, <2>1, <2>3, <3>1
  <2> QED
    BY <1>1, <2>1, <2>2, <2>3
<1>6. ASSUME NEW t \in Tasks, DropBatched(t) \/ DropSpin(t) PROVE WriteInv'
  <2>1. /\ DropOutcome(t, state[cell[t]]) /\ UNCHANGED <<rx, batch, at, pc>>
        /\ future[t] \in Alive /\ due' \subseteq due
        /\ \A c \in Cells : state'[c] \in {state[c], state[c] \cup {"RX_DROPPED"}}
    BY <1>0, <1>6, DropFrame
  <2>2. CASE pc \in {"store", "wake", "waking", "publish"} /\ rx[Here] = t
    <3>1. cell[t] = Here /\ "SETTING_VALUE" \in state[Here]
      BY <1>0, <1>2, <2>2 DEF PlaceInv, WriteInv
    <3>2. future'[t] = "dropping" /\ value'[t] = value[t]
      BY <1>0, <2>1, <3>1, DropEffect
    <3> QED
      BY <1>2, <1>3, <2>1, <2>2, <3>2
  <2>3. CASE pc \in {"store", "wake", "waking", "publish"} /\ rx[Here] # t
    <3>1. future'[rx[Here]] = future[rx[Here]] /\ value'[rx[Here]] = value[rx[Here]]
      BY <1>0, <1>2, <2>1, <2>3, DropEffect
    <3> QED
      BY <1>2, <1>3, <2>1, <2>3, <3>1
  <2> QED
    BY <1>1, <2>1, <2>2, <2>3
<1>7. CASE Quiet
  BY <1>1, <1>7, QuietEffect
<1>8. CASE MarkSetting
  <2>1. /\ Here \in Cells /\ rx[Here] \in Tasks /\ pc = "mark"
        /\ state'[Here] = state[Here] \cup {"SETTING_VALUE"}
        /\ UNCHANGED <<rx, future, value, due>>
        /\ \/ pc' \in {"take", "idle"}
           \/ ~ Gone(state[Here]) /\ pc' = "store" /\ UNCHANGED <<batch, at>>
    BY <1>0, <1>8, MarkEffect
  <2>2. CASE ~ Gone(state[Here]) /\ pc' = "store" /\ UNCHANGED <<batch, at>>
    <3>1. PICK h : h = Here
      OBVIOUS
    <3>2. Here' = h
      BY <2>2, <3>1 DEF Here
    <3>3. state[h] \subseteq {"RX_DROPPED"} /\ value[rx[h]] = "uninit"
      BY <1>0, <2>1, <3>1, FreshInUse DEF FreshInv, Fresh
    <3>4. "RX_DROPPED" \notin state[h]
      BY <2>2, <3>1 DEF Gone
    <3>5. future[rx[h]] \notin {"dropping", "dropped", "unbatched", "received"}
      BY <1>0, <2>1, <3>1, <3>3, <3>4 DEF FlagInv, PlaceInv, ValueInv
    <3>6. future[rx[h]] = "batched"
      BY <1>0, <2>1, <3>1, <3>5 DEF TypeOK
    <3>7. rx[h] \notin due
      BY <1>0, <2>1, <3>1, <3>3, <3>6 DEF ValueInv
    <3> QED
      BY <2>1, <2>2, <3>1, <3>2, <3>3, <3>6, <3>7 DEF WriteInv
  <2> QED
    BY <1>1, <2>1, <2>2
<1>9. CASE StoreValue
  <2>1. PICK h : h = Here
    OBVIOUS
  <2>2. /\ pc = "store" /\ pc' = "wake" /\ Here' = h
        /\ UNCHANGED <<state, rx, future, due>>
        /\ value'[rx[h]] = IF value[rx[h]] = "uninit" THEN "set" ELSE value[rx[h]]
    BY <1>0, <1>9, <2>1, StoreEffect DEF Here
  <2> QED
    BY <1>0, <2>1, <2>2 DEF WriteInv
<1>10. CASE WakeReceiver
  <2>1. PICK h : h = Here
    OBVIOUS
  <2>2. pc = "wake" /\ pc' = "waking" /\ Here' = h
    BY <1>10, <2>1 DEF WakeReceiver, Here
  <2>3. UNCHANGED <<state, rx, future, value>>
    BY <1>10, QuietEffect
  <2> QED
    BY <1>0, <2>1, <2>2, <2>3 DEF WriteInv
<1>11. CASE WakeReturns
  <2>1. PICK h : h = Here
    OBVIOUS
  <2>2. pc = "waking" /\ pc' = "publish" /\ Here' = h
    BY <1>11, <2>1 DEF WakeReturns, Here
  <2>3. UNCHANGED <<state, rx, future, value>>
    BY <1>11, QuietEffect
  <2> QED
    BY <1>0, <2>1, <2>2, <2>3 DEF WriteInv
<1>12. CASE PublishValue
  BY <1>0, <1>1, <1>12, PublishEffect
<1>13. CASE UNCHANGED vars
  BY <1>0, <1>13 DEF WriteInv, Here, vars, cellVars, futureVars, resolverVars
<1> QED
  BY <1>4, <1>5, <1>6, <1>7, <1>8, <1>9, <1>10, <1>11, <1>12, <1>13, StepCases

\* The second layer holds wherever no two futures share a waker.
THEOREM SlotInvariance == ASSUME OneWakerEach PROVE Spec => []SInv
<1>1. Init => SInv
  <2>1. Init => SlotInv
    BY ReceiversAssumption
       DEF Init, SlotInv, FreshInv, FreshCells, OpenCells, ValueInv, FlagInv, WriteInv, Alive
  <2> QED
    BY <2>1, InitPlaced DEF SInv
<1>2. SInv /\ [Next]_vars => SlotInv'
  BY FreshStep, ValueStep, FlagStep, WriteStep DEF SlotInv
<1>3. SInv /\ [Next]_vars => Placed'
  BY TypeStep, PlaceStep DEF Placed, SInv
<1>4. SInv /\ [Next]_vars => SInv'
  BY <1>2, <1>3 DEF SInv
<1> QED
  BY <1>1, <1>4, PTL DEF Spec

(***************************************************************************)
(* The resolver writes the value, and uses the waker, of a Receiver that   *)
(* is still in place.  All it takes is a waker of its own for each future: *)
(* the futures may be dropped at any time, cells used again at once, and   *)
(* batches abandoned, cut short or left by a panic.                        *)
(***************************************************************************)
THEOREM ReceiversStayInPlace ==
  ASSUME OneWakerEach PROVE Spec => []ReceiverInPlace
<1>1. SInv => ReceiverInPlace
  BY DEF SInv, SlotInv, WriteInv, Alive, ReceiverInPlace
<1> QED
  BY <1>1, SlotInvariance, PTL

-----------------------------------------------------------------------------
(* Layer 3: what becomes of a value, where cells outlive their receivers   *)

\* The flags a drop goes by are those of its own value.
LEMMA DropFlags ==
  ASSUME SInv, ReceiversKept, NEW t \in Tasks, DropBatched(t) \/ DropSpin(t)
  PROVE  /\ cell[t] \in Cells /\ rx[cell[t]] = t
         /\ "VALUE_SET" \in state[cell[t]] => value[t] = "set"
         /\ value[t] = "set" =>
              "SETTING_VALUE" \in state[cell[t]] \/ "VALUE_SET" \in state[cell[t]]
<1>0. TypeOK /\ FlagInv
  BY DEF SInv, SlotInv, Placed
<1>1. future[t] \in Alive /\ cell[t] \in Cells
  BY <1>0, DropFrame
<1>2. rx[cell[t]] = t
  BY <1>1 DEF ReceiversKept
<1> QED
  BY <1>0, <1>1, <1>2 DEF FlagInv

LEMMA OutcomeStep ==
  ASSUME OneWakerEach, SInv, Drops => ReceiversKept, OutcomeInv, [Next]_vars
  PROVE  OutcomeInv'
<1>0. TypeOK /\ Placed /\ PlaceInv /\ ValueInv /\ WriteInv
  BY DEF SInv, SlotInv, Placed
\* What OutcomeInv says of a future, and of a cell.
<1> DEFINE Future(s) == /\ value[s] # "garbage"
                        /\ s \in skipped => future[s] \in {"dropping", "dropped"}
                        /\ TaskNeedsDrop /\ future[s] = "dropped" => value[s] # "set"
           Cell(c) == "RX_DROPPED" \in state[c] =>
                        rx[c] \in Tasks /\ future[rx[c]] \in {"dropping", "dropped"}
<1>1. (\A s \in Tasks : Future(s)) /\ (\A c \in Cells : Cell(c))
  BY DEF OutcomeInv, NoGarbage, SkippedOnlyIfDropped, ValuesDropped
<1>2. SUFFICES (\A s \in Tasks : Future(s)') /\ (\A c \in Cells : Cell(c)')
  <2>1. skipped' \subseteq Tasks
    BY <1>0, TypeStep DEF TypeOK
  <2> QED
    BY <1>2, <2>1 DEF OutcomeInv, NoGarbage, SkippedOnlyIfDropped, ValuesDropped
<1>3. ASSUME NEW s \in Tasks, future'[s] = future[s], value'[s] = value[s],
             s \in skipped' => s \in skipped
      PROVE  Future(s)'
  BY <1>1, <1>3
<1>4. ASSUME NEW c \in Cells, rx'[c] = rx[c], rx[c] \in Tasks => future'[rx[c]] = future[rx[c]],
             "RX_DROPPED" \in state'[c] => "RX_DROPPED" \in state[c]
      PROVE  Cell(c)'
  BY <1>1, <1>4
<1>5. ASSUME NEW t \in Tasks, PollUnbatched(t)
      PROVE  (\A s \in Tasks : Future(s)') /\ (\A c \in Cells : Cell(c)')
  <2>1. PICK d : d = current_write_index
    OBVIOUS
  <2>2. ASSUME NEW s \in Tasks PROVE Future(s)'
    <3>1. CASE s = t
      <4>1. future[t] = "unbatched" /\ future'[t] = "batched" /\ UNCHANGED <<value, skipped>>
        BY <1>0, <1>5, <2>1, PollEffect
      <4> QED
        BY <1>1, <3>1, <4>1
    <3>2. CASE s # t
      BY <1>0, <1>3, <1>5, <2>1, <3>2, PollEffect
    <3> QED
      BY <3>1, <3>2
  <2>3. ASSUME NEW c \in Cells PROVE Cell(c)'
    <3>1. CASE c = d
      BY <1>0, <1>5, <2>1, <3>1, PollEffect
    <3>2. CASE c # d
      BY <1>0, <1>4, <1>5, <2>1, <3>2, PollEffect
    <3> QED
      BY <3>1, <3>2
  <2> QED
    BY <2>2, <2>3
<1>6. ASSUME NEW t \in Tasks, PollBatched(t) \/ DropUnbatched(t)
      PROVE  (\A s \in Tasks : Future(s)') /\ (\A c \in Cells : Cell(c)')
  <2>1. UNCHANGED <<state, rx, skipped>>
    BY <1>0, <1>6, TakenEffect
  <2>2. future[t] \notin {"dropping", "dropped"}
    BY <1>0, <1>6, TakenEffect
  <2>3. ASSUME NEW s \in Tasks PROVE Future(s)'
    <3>1. CASE s = t /\ PollBatched(t)
      <4>1. value[t] = "set"
        BY <1>0, <3>1, TakenEffect DEF ValueInv
      <4>2. value'[t] = "received" /\ future'[t] = "received"
        BY <1>0, <3>1, <4>1, TakenEffect DEF Moved
      <4> QED
        BY <1>1, <2>1, <2>2, <3>1, <4>2
    <3>2. CASE s = t /\ DropUnbatched(t)
      <4>1. value'[t] = "uninit" /\ future'[t] = "dropped"
        BY <1>0, <3>2, TakenEffect DEF ValueInv
      <4> QED
        BY <3>2, <4>1
    <3>3. CASE s # t
      BY <1>0, <1>3, <1>6, <2>1, <3>3, TakenEffect
    <3> QED
      BY <1>6, <3>1, <3>2, <3>3
  <2>4. ASSUME NEW c \in Cells PROVE Cell(c)'
    <3>1. CASE rx[c] = t
      BY <1>1, <2>1, <2>2, <3>1
    <3>2. CASE rx[c] # t
      BY <1>0, <1>4, <1>6, <2>1, <3>2, TakenEffect
    <3> QED
      BY <3>1, <3>2
  <2> QED
    BY <2>3, <2>4
<1>7. ASSUME NEW t \in Tasks, DropBatched(t) \/ DropSpin(t)
      PROVE  (\A s \in Tasks : Future(s)') /\ (\A c \in Cells : Cell(c)')
  <2>1. /\ DropOutcome(t, state[cell[t]]) /\ UNCHANGED <<rx, skipped>>
        /\ \A c \in Cells : c # cell[t] => state'[c] = state[c]
    BY <1>0, <1>7, DropFrame
  <2>2. ReceiversKept
    BY <1>0, <1>7, DropFrame DEF ValueInv
  <2>3. /\ cell[t] \in Cells /\ rx[cell[t]] = t
        /\ "VALUE_SET" \in state[cell[t]] => value[t] = "set"
        /\ value[t] = "set" =>
             "SETTING_VALUE" \in state[cell[t]] \/ "VALUE_SET" \in state[cell[t]]
    BY <1>7, <2>2, DropFlags
  <2>4. future'[t] \in {"dropping", "dropped"}
    BY <1>0, <2>1, DropEffect
  <2>5. ASSUME NEW s \in Tasks PROVE Future(s)'
    <3>1. CASE s = t
      BY <1>0, <1>1, <2>1, <2>3, <3>1, DropEffect DEF InPlace
    <3>2. CASE s # t
      BY <1>0, <1>3, <2>1, <3>2, DropEffect
    <3> QED
      BY <3>1, <3>2
  <2>6. ASSUME NEW c \in Cells PROVE Cell(c)'
    <3>1. CASE rx[c] = t
      BY <2>1, <2>4, <3>1
    <3>2. CASE rx[c] # t
      BY <1>0, <1>4, <2>1, <2>3, <3>2, DropEffect
    <3> QED
      BY <3>1, <3>2
  <2> QED
    BY <2>5, <2>6
<1>8. CASE Quiet \/ WakeReceiver \/ WakeReturns
  BY <1>3, <1>4, <1>8, QuietEffect
<1>9. CASE MarkSetting
  <2>1. /\ UNCHANGED <<rx, future, value>> /\ Here \in Cells
        /\ \A c \in Cells : state'[c] \in {state[c], state[c] \cup {"SETTING_VALUE"}}
        /\ \/ Gone(state[Here]) /\ skipped' = skipped \cup {rx[Here]}
           \/ skipped' = skipped
    BY <1>0, <1>9, MarkEffect
  <2>2. ASSUME NEW c \in Cells PROVE Cell(c)'
    BY <1>4, <2>1
  <2>3. ASSUME NEW s \in Tasks PROVE Future(s)'
    <3>1. CASE s = rx[Here] /\ Gone(state[Here])
      BY <1>1, <2>1, <3>1 DEF Gone
    <3>2. CASE ~ (s = rx[Here] /\ Gone(state[Here]))
      BY <1>3, <2>1, <3>2
    <3> QED
      BY <3>1, <3>2
  <2> QED
    BY <2>2, <2>3
<1>10. CASE StoreValue
  <2>1. UNCHANGED <<rx, future, state, skipped>> /\ pc = "store" /\ rx[Here] \in Tasks
    BY <1>0, <1>10, StoreEffect
  <2>2. future[rx[Here]] \in Alive
    BY <1>0, <2>1 DEF WriteInv
  <2>3. ASSUME NEW s \in Tasks PROVE Future(s)'
    <3>1. CASE s = rx[Here]
      <4>1. value'[s] \in {"set", value[s]}
        BY <1>0, <1>10, <3>1, StoreEffect
      <4> QED
        BY <1>1, <2>1, <2>2, <3>1, <4>1 DEF Alive
    <3>2. CASE s # rx[Here]
      BY <1>0, <1>3, <1>10, <2>1, <3>2, StoreEffect
    <3> QED
      BY <3>1, <3>2
  <2> QED
    BY <1>4, <2>1, <2>3
<1>11. CASE PublishValue
  <2>1. /\ UNCHANGED <<rx, future, value, skipped>>
        /\ \A c \in Cells : state'[c] \in {state[c], Published(state[c])}
    BY <1>0, <1>11, PublishEffect
  <2>2. \A c \in Cells : "RX_DROPPED" \in state'[c] => "RX_DROPPED" \in state[c]
    BY <2>1 DEF Published, SymmetricDifference
  <2> QED
    BY <1>3, <1>4, <2>1, <2>2
<1>12. CASE UNCHANGED vars
  BY <1>3, <1>4, <1>12 DEF vars, cellVars, futureVars, historyVars
<1> QED
  BY <1>5, <1>6, <1>7, <1>8, <1>9, <1>10, <1>11, <1>12, StepCases

\* A spinning drop waits for the write of its own value.
LEMMA SpinStep ==
  ASSUME SInv, OutcomeInv, SpinInv, [Next]_vars PROVE SpinInv'
<1>0. TypeOK /\ Placed /\ PlaceInv /\ FreshInv /\ WriteInv
  BY DEF SInv, SlotInv, Placed
<1> DEFINE Writing == {"store", "wake", "waking", "publish"}
           Good(c) == rx[c] \in Tasks =>
             /\ future[rx[c]] = "dropping" => state[c] \cap {"SETTING_VALUE", "VALUE_SET"} # {}
             /\ future[rx[c]] \in Alive /\ "SETTING_VALUE" \in state[c] =>
                  pc \in Writing /\ Here = c
<1> SUFFICES ASSUME NEW c \in Cells PROVE Good(c)'
  BY DEF SpinInv
<1>1. Good(c)
  BY DEF SpinInv
<1> USE DEF Alive
<1>2. ASSUME rx'[c] = rx[c], state'[c] = state[c],
             rx[c] \in Tasks => future'[rx[c]] = future[rx[c]],
             pc \in Writing => pc' \in Writing /\ Here' = Here
      PROVE  Good(c)'
  BY <1>1, <1>2
<1>3. ASSUME NEW t \in Tasks, PollUnbatched(t) PROVE Good(c)'
  <2>1. PICK d : d = current_write_index
    OBVIOUS
  <2>2. CASE c = d
    BY <1>0, <1>3, <2>1, <2>2, PollEffect
  <2>3. CASE c # d
    <3>1. rx'[c] = rx[c] /\ state'[c] = state[c] /\ rx[c] # t
      BY <1>0, <1>3, <2>1, <2>3, PollEffect
    <3>2. rx[c] \in Tasks => future'[rx[c]] = future[rx[c]]
      BY <1>0, <1>3, <2>1, <3>1, PollEffect
    <3>3. pc' = pc /\ Here' = Here
      BY <1>0, <1>3, <2>1, PollEffect DEF Here
    <3> QED
      BY <1>2, <3>1, <3>2, <3>3
  <2> QED
    BY <2>2, <2>3
<1>4. ASSUME NEW t \in Tasks, PollBatched(t) \/ DropUnbatched(t) PROVE Good(c)'
  <2>1. UNCHANGED <<rx, state, pc>> /\ Here' = Here
    BY <1>0, <1>4, TakenEffect DEF Here
  <2>2. CASE rx[c] = t
    <3>1. future[t] # "unbatched"
      BY <1>0, <2>2 DEF PlaceInv
    <3>2. future'[t] = "received"
      BY <1>0, <1>4, <3>1, TakenEffect
    <3> QED
      BY <2>1, <2>2, <3>2
  <2>3. CASE rx[c] # t
    BY <1>0, <1>2, <1>4, <2>1, <2>3, TakenEffect
  <2> QED
    BY <2>2, <2>3
<1>5. ASSUME NEW t \in Tasks, DropBatched(t) \/ DropSpin(t) PROVE Good(c)'
  <2>1. /\ DropOutcome(t, state[cell[t]]) /\ rx' = rx /\ pc' = pc /\ future[t] \in Alive
        /\ state'[c] \in {state[c], state[c] \cup {"RX_DROPPED"}}
    BY <1>0, <1>5, DropFrame
  <2>2. Here' = Here
    BY <1>0, <1>5, DropFrame DEF Here
  <2>3. CASE rx[c] = t
    <3>1. cell[t] = c
      BY <1>0, <2>3 DEF PlaceInv
    <3>2. future'[t] = "dropping" => "SETTING_VALUE" \in state[c]
      BY <1>0, <2>1, <3>1, DropEffect
    <3>3. future'[t] \in {"dropping", "dropped"}
      BY <1>0, <2>1, DropEffect
    <3> QED
      BY <1>1, <2>1, <2>2, <2>3, <3>2, <3>3
  <2>4. CASE rx[c] # t
    <3>1. rx[c] \in Tasks => future'[rx[c]] = future[rx[c]]
      BY <1>0, <2>1, <2>4, DropEffect
    <3> QED
      BY <1>1, <2>1, <2>2, <3>1
  <2> QED
    BY <2>3, <2>4
<1>6. CASE Quiet
  <2>1. pc \notin Writing
    BY <1>6 DEF Quiet, IntoAssignment, Abandon, TakeTask, Panic, ShortIter, DropAssignment
  <2> QED
    BY <1>2, <1>6, <2>1, QuietEffect
<1>7. CASE MarkSetting
  <2>1. /\ Here \in Cells /\ rx[Here] \in Tasks /\ pc = "mark" /\ UNCHANGED <<rx, future>>
        /\ state'[Here] = state[Here] \cup {"SETTING_VALUE"}
        /\ c # Here => state'[c] = state[c]
        /\ \/ Gone(state[Here])
           \/ pc' = "store" /\ UNCHANGED <<batch, at>>
    BY <1>0, <1>7, MarkEffect
  <2>2. CASE c = Here /\ Gone(state[Here])
    <3>1. future[rx[c]] \in {"dropping", "dropped"}
      BY <2>1, <2>2 DEF OutcomeInv, Gone
    <3>2. state[c] \subseteq {"RX_DROPPED"}
      BY <1>0, <2>1, <2>2, FreshInUse DEF FreshInv, Fresh
    <3>3. future[rx[c]] = "dropped"
      BY <1>1, <2>1, <2>2, <3>1, <3>2
    <3> QED
      BY <2>1, <3>3
  <2>3. CASE c = Here /\ ~ Gone(state[Here])
    <3>1. pc' = "store" /\ Here' = c
      BY <2>1, <2>3 DEF Here
    <3> QED
      BY <2>1, <2>3, <3>1
  <2>4. CASE c # Here
    BY <1>2, <2>1, <2>4
  <2> QED
    BY <2>2, <2>3, <2>4
<1>8. CASE StoreValue
  <2>1. Here' = Here /\ pc' \in Writing /\ UNCHANGED <<state, rx, future>>
    BY <1>0, <1>8, StoreEffect DEF Here
  <2> QED
    BY <1>2, <2>1
<1>9. CASE WakeReceiver \/ WakeReturns
  <2>1. Here' = Here /\ pc' \in Writing
    BY <1>9 DEF WakeReceiver, WakeReturns, Here
  <2> QED
    BY <1>2, <1>9, <2>1, QuietEffect
<1>10. CASE PublishValue
  <2>1. /\ UNCHANGED <<rx, future>> /\ pc = "publish"
        /\ state'[Here] = Published(state[Here])
        /\ c # Here => state'[c] = state[c]
    BY <1>0, <1>10, PublishEffect
  <2>2. CASE c = Here
    <3>1. "SETTING_VALUE" \in state[c] /\ "VALUE_SET" \notin state[c]
      BY <1>0, <2>1, <2>2 DEF WriteInv
    <3>2. "VALUE_SET" \in state'[c] /\ "SETTING_VALUE" \notin state'[c]
      BY <2>1, <2>2, <3>1 DEF Published, SymmetricDifference
    <3> QED
      BY <3>2
  <2>3. CASE c # Here
    BY <1>1, <2>1, <2>3
  <2> QED
    BY <2>2, <2>3
<1>11. CASE UNCHANGED vars
  BY <1>2, <1>11 DEF Here, vars, cellVars, futureVars, resolverVars
<1> QED
  BY <1>3, <1>4, <1>5, <1>6, <1>7, <1>8, <1>9, <1>10, <1>11, StepCases

(***************************************************************************)
(* The condition under which receivers are safe, for any number of tasks   *)
(* and cells: as long as no cell is used again while the future that was   *)
(* in it is alive (which matters only if futures are dropped at all), no   *)
(* poll or drop touches a value that was not written, no value is thrown   *)
(* away that was still wanted, no drop spins on a flag that nobody will    *)
(* clear, and no drop leaks a value (provided that the task has a          *)
(* destructor if the value has one).                                       *)
(***************************************************************************)
THEOREM KeptReceiversAreSafe ==
  ASSUME OneWakerEach
  PROVE  Spec /\ [](Drops => ReceiversKept)
           => [](/\ NoGarbage /\ SkippedOnlyIfDropped /\ SpinHasWriter
                 /\ DropsMatch => NoLeakedValue)
<1>1. Init => OutcomeInv /\ SpinInv
  BY DEF Init, OutcomeInv, NoGarbage, SkippedOnlyIfDropped, ValuesDropped, SpinInv, Alive
<1>2. SInv /\ (Drops => ReceiversKept) /\ OutcomeInv /\ [Next]_vars => OutcomeInv'
  BY OutcomeStep
<1>3. SInv /\ OutcomeInv /\ SpinInv /\ [Next]_vars => SpinInv'
  BY SpinStep
<1>4. OutcomeInv => NoGarbage /\ SkippedOnlyIfDropped /\ (DropsMatch => NoLeakedValue)
  BY DEF OutcomeInv, ValuesDropped, DropsMatch, NoLeakedValue
<1>5. SInv /\ (Drops => ReceiversKept) /\ SpinInv => SpinHasWriter
  <2> SUFFICES ASSUME SInv, Drops => ReceiversKept, SpinInv,
                      NEW t \in Tasks, future[t] = "dropping",
                      "SETTING_VALUE" \in state[cell[t]]
               PROVE  pc \in {"store", "wake", "waking", "publish"} /\ rx[Here] = t
    BY DEF SpinHasWriter
  <2>1. cell[t] \in Cells /\ Drops
    BY DEF SInv, SlotInv, ValueInv, Placed, TypeOK
  <2>2. rx[cell[t]] = t
    BY <2>1 DEF ReceiversKept, Alive
  <2> QED
    BY <2>1, <2>2 DEF SpinInv, Alive
<1> QED
  BY <1>1, <1>2, <1>3, <1>4, <1>5, SlotInvariance, PTL DEF Spec

-----------------------------------------------------------------------------
(* Fewer tasks than cells                                                  *)

\* Each task has a cell of its own.
CellForEach == IsFiniteSet(Tasks) /\ Cardinality(Tasks) <= N

Enqueued == {t \in Tasks : future[t] # "unbatched"}

\* Cells are handed out in order, and none of them twice.
CountInv ==
  /\ enqueued <= Cardinality(Enqueued)
  /\ \A c \in Cells : rx[c] \in Tasks => c < enqueued
  /\ ReceiversKept

LEMMA CountStep ==
  ASSUME CellForEach, Placed, CountInv, [Next]_vars PROVE CountInv'
<1>0. TypeOK /\ Placed /\ IsFiniteSet(Tasks) /\ Cardinality(Tasks) \in Nat
      /\ Cardinality(Tasks) <= N /\ N \in Nat
  BY FS_CardinalityType, ReceiversAssumption DEF Placed, CellForEach
<1>1. IsFiniteSet(Enqueued) /\ IsFiniteSet(Enqueued') /\ Enqueued \subseteq Tasks
      /\ Enqueued' \subseteq Tasks
  BY <1>0, FS_Subset DEF Enqueued
<1>2. Cardinality(Enqueued) \in Nat /\ Cardinality(Enqueued') \in Nat /\ enqueued \in Nat
  BY <1>0, <1>1, FS_CardinalityType DEF TypeOK
<1>3. ASSUME UNCHANGED <<rx, cell, enqueued>>,
             \A t \in Tasks : /\ future'[t] \in Alive => future[t] \in Alive
                              /\ future'[t] = "unbatched" => future[t] = "unbatched"
      PROVE  CountInv'
  <2>1. Enqueued \subseteq Enqueued'
    BY <1>3 DEF Enqueued
  <2>2. Cardinality(Enqueued) <= Cardinality(Enqueued')
    BY <1>1, <2>1, FS_Subset
  <2>3. enqueued' <= Cardinality(Enqueued')
    BY <1>2, <1>3, <2>2 DEF CountInv
  <2>4. ReceiversKept'
    BY <1>3 DEF CountInv, ReceiversKept
  <2> QED
    BY <1>3, <2>3, <2>4 DEF CountInv
<1>4. ASSUME NEW t \in Tasks, PollUnbatched(t) PROVE CountInv'
  <2>1. PICK d : d = current_write_index
    OBVIOUS
  <2>2. future[t] = "unbatched" /\ future'[t] = "batched" /\ enqueued' = enqueued + 1
    BY <1>0, <1>4, <2>1, PollEffect DEF PollUnbatched
  <2>3. t \notin Enqueued
    BY <2>2 DEF Enqueued
  <2>4. Enqueued' = Enqueued \cup {t}
    BY <1>0, <1>4, <2>1, <2>2, PollEffect DEF Enqueued
  <2>5. Cardinality(Enqueued') = Cardinality(Enqueued) + 1
    BY <1>1, <2>3, <2>4, FS_AddElement
  <2>6. Cardinality(Enqueued') <= Cardinality(Tasks)
    BY <1>0, <1>1, FS_Subset
  <2>7. enqueued' <= Cardinality(Enqueued')
    BY <1>2, <2>2, <2>5 DEF CountInv
  <2>8. enqueued < N
    BY <1>0, <1>2, <2>5, <2>6 DEF CountInv
  <2>9. d = enqueued
    BY <1>0, <1>2, <2>1, <2>8 DEF current_write_index
  <2>10. \A c \in Cells : rx'[c] \in Tasks => c < enqueued'
    <3> SUFFICES ASSUME NEW c \in Cells, rx'[c] \in Tasks PROVE c < enqueued'
      OBVIOUS
    <3>1. c \in Nat
      BY <1>0 DEF Cells
    <3>2. CASE c = d
      BY <1>2, <2>2, <2>9, <3>2
    <3>3. CASE c # d
      <4>1. c < enqueued
        BY <1>0, <1>4, <2>1, <3>3, PollEffect DEF CountInv
      <4> QED
        BY <1>2, <2>2, <3>1, <4>1
    <3> QED
      BY <3>2, <3>3
  <2>11. ReceiversKept'
    <3> SUFFICES ASSUME NEW s \in Tasks, future'[s] \in Alive PROVE rx'[cell'[s]] = s
      BY DEF ReceiversKept
    <3>1. CASE s = t
      BY <1>0, <1>4, <2>1, <3>1, PollEffect
    <3>2. CASE s # t
      <4>1. future[s] \in Alive /\ cell'[s] = cell[s]
        BY <1>0, <1>4, <2>1, <3>2, PollEffect
      <4>2. cell[s] \in Cells /\ rx[cell[s]] = s
        BY <1>0, <4>1 DEF CountInv, ReceiversKept, TypeOK
      <4>3. cell[s] # d
        BY <1>0, <1>2, <2>9, <4>2 DEF CountInv, Cells
      <4> QED
        BY <1>0, <1>4, <2>1, <4>1, <4>2, <4>3, PollEffect
    <3> QED
      BY <3>1, <3>2
  <2> QED
    BY <2>7, <2>10, <2>11 DEF CountInv
<1>5. ASSUME NEW t \in Tasks, PollBatched(t) \/ DropUnbatched(t) PROVE CountInv'
  BY <1>0, <1>3, <1>5, TakenEffect DEF Alive
<1>6. ASSUME NEW t \in Tasks, DropBatched(t) \/ DropSpin(t) PROVE CountInv'
  <2>1. UNCHANGED <<rx, cell, enqueued>> /\ DropOutcome(t, state[cell[t]]) /\ future[t] \in Alive
    BY <1>0, <1>6, DropFrame
  <2>2. /\ future'[t] \in {"dropping", "dropped"}
        /\ \A s \in Tasks : s # t => future'[s] = future[s]
    BY <1>0, <2>1, DropEffect
  <2> QED
    BY <1>3, <2>1, <2>2
<1>7. CASE Quiet \/ WakeReceiver \/ WakeReturns
  BY <1>3, <1>7, QuietEffect
<1>8. CASE MarkSetting
  BY <1>0, <1>3, <1>8, MarkEffect
<1>9. CASE StoreValue
  BY <1>0, <1>3, <1>9, StoreEffect
<1>10. CASE PublishValue
  BY <1>0, <1>3, <1>10, PublishEffect
<1>11. CASE UNCHANGED vars
  BY <1>3, <1>11 DEF vars, cellVars, futureVars
<1> QED
  BY <1>4, <1>5, <1>6, <1>7, <1>8, <1>9, <1>10, <1>11, StepCases

\* The condition of the last theorem holds where each task has a cell of its own.
THEOREM FewTasksKeepTheirCells ==
  ASSUME CellForEach PROVE Spec => []ReceiversKept
<1>1. Init => CountInv
  <2> SUFFICES ASSUME Init PROVE CountInv
    OBVIOUS
  <2>1. Enqueued = {}
    BY DEF Init, Enqueued
  <2>2. Cardinality({}) = 0
    BY FS_EmptySet
  <2> QED
    BY <2>1, <2>2, ReceiversAssumption DEF Init, CountInv, ReceiversKept, Alive
<1>2. Placed /\ CountInv /\ [Next]_vars => CountInv'
  BY CountStep
<1>3. CountInv => ReceiversKept
  BY DEF CountInv
<1> QED
  BY <1>1, <1>2, <1>3, PlaceInvariance, PTL DEF Spec

(***************************************************************************)
(* Without drops of futures that are waiting, or with a cell for each task:*)
(* the hypotheses of the theorems below, next to OneWakerEach.             *)
(***************************************************************************)
NoStaleDrops == Drops => CellForEach

LEMMA OutcomeHolds ==
  ASSUME OneWakerEach, NoStaleDrops
  PROVE  Spec => [](/\ NoGarbage /\ SkippedOnlyIfDropped /\ SpinHasWriter
                    /\ DropsMatch => NoLeakedValue)
<1>1. CASE Drops
  <2>1. Spec => []ReceiversKept
    BY <1>1, FewTasksKeepTheirCells DEF NoStaleDrops
  <2>2. ReceiversKept => (Drops => ReceiversKept)
    OBVIOUS
  <2> QED
    BY <2>1, <2>2, KeptReceiversAreSafe, PTL
<1>2. CASE ~ Drops
  <2>1. Drops => ReceiversKept
    BY <1>2
  <2> QED
    BY <2>1, KeptReceiversAreSafe, PTL
<1> QED
  BY <1>1, <1>2

(***************************************************************************)
(* poll and drop call assume_init only on values that were written.        *)
(***************************************************************************)
THEOREM NoValueIsGarbage ==
  ASSUME OneWakerEach, NoStaleDrops PROVE Spec => []NoGarbage
BY OutcomeHolds, PTL

(***************************************************************************)
(* resolve_unchecked throws a value away only when the future it is for    *)
(* was dropped.                                                            *)
(***************************************************************************)
THEOREM OnlyDroppedAreSkipped ==
  ASSUME OneWakerEach, NoStaleDrops PROVE Spec => []SkippedOnlyIfDropped
BY OutcomeHolds, PTL

(***************************************************************************)
(* PinnedDrop destroys the value of a future that was dropped after it was *)
(* written, whatever part of the write the drop overlaps, for task types   *)
(* that have a destructor if their value has one.                          *)
(***************************************************************************)
THEOREM DropsLeakNothing ==
  ASSUME OneWakerEach, NoStaleDrops, DropsMatch PROVE Spec => []NoLeakedValue
<1>1. (DropsMatch => NoLeakedValue) => NoLeakedValue
  OBVIOUS
<1> QED
  BY <1>1, OutcomeHolds, PTL

(***************************************************************************)
(* The spin loop of PinnedDrop waits for the resolver to finish the write  *)
(* of this very value, and never for anything else.                        *)
(***************************************************************************)
THEOREM SpinsHaveWriters ==
  ASSUME OneWakerEach, NoStaleDrops PROVE Spec => []SpinHasWriter
BY OutcomeHolds, PTL

=============================================================================
