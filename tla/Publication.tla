---------------------------- MODULE Publication -----------------------------
(***************************************************************************)
(* StackQueue under the memory orderings that the code names.  Tasks are   *)
(* written to and read from their cells with plain accesses, so each two   *)
(* accesses to one cell have to be ordered by happens-before.  What can    *)
(* order them is the occupancy, whose accesses are AcqRel and Acquire, and *)
(* the hand-over of a handle to the thread that runs its consumer.  The    *)
(* slot is Relaxed: a step that changes it tells nobody anything.          *)
(*                                                                         *)
(* To the steps of StackQueue this module adds what each thread knows, the *)
(* accesses that happen before its next step, and the versions that the    *)
(* occupancy has had.  A load may return an old version.  Consumers are on *)
(* threads of their own: sharing one only adds order.                      *)
(***************************************************************************)
EXTENDS StackQueue

VARIABLES
  knows,     \* the accesses to cells that happen before a thread's next step
  versions,  \* the versions of occupancy, with what reading each one teaches
  seen       \* the owner's latest version: coherence rules out earlier ones

memoryVars == <<knows, versions, seen>>
pubVars == <<vars, memoryVars>>

Owner    == "owner"
Threads  == Tasks \cup {Owner}   \* a batch stands for the thread of its consumer
Accesses == {"write", "read"} \X Tasks

Latest == versions[Len(versions)]

PubInit ==
  /\ Init
  /\ knows = [th \in Threads |-> {}]
  /\ versions = <<[word |-> occupancy, teaches |-> {}]>>
  /\ seen = 1

-----------------------------------------------------------------------------
(* The orderings of the accesses to occupancy                              *)

\* Faulty variant: the load is Relaxed.
Load_Relaxed(v) ==
  /\ seen' = v
  /\ UNCHANGED <<knows, versions>>

\* load(Acquire) of version v.
Load(v) ==
  /\ seen' = v
  /\ knows' = [knows EXCEPT ![Owner] = @ \cup versions[v].teaches]
  /\ UNCHANGED versions

\* A read-modify-write reads the latest version, and continues its release
\* sequence: what that version taught, the next one teaches too.
NewVersion(th) ==
  Append(versions, [word |-> occupancy', teaches |-> Latest.teaches \cup knows[th]])

\* Faulty variant: fetch_add is Release only.
FetchAdd_Release(b) ==
  /\ versions' = NewVersion(Owner)
  /\ seen' = Len(versions')
  /\ knows' = [knows EXCEPT ![b] = @ \cup knows[Owner]]

\* fetch_add(AcqRel) by the owner, which then hands the batch over.
FetchAdd(b) ==
  /\ versions' = NewVersion(Owner)
  /\ seen' = Len(versions')
  /\ knows' = [knows EXCEPT ![Owner] = @ \cup Latest.teaches,
                            ![b] = @ \cup knows[Owner] \cup Latest.teaches]

\* Faulty variant: fetch_sub is Acquire only.
FetchSub_Acquire(b) ==
  /\ versions' = Append(versions, [word |-> occupancy', teaches |-> Latest.teaches])
  /\ knows' = [knows EXCEPT ![b] = @ \cup Latest.teaches]
  /\ UNCHANGED seen

\* fetch_sub(AcqRel) by a consumer.
FetchSub(b) ==
  /\ versions' = NewVersion(b)
  /\ knows' = [knows EXCEPT ![b] = @ \cup Latest.teaches]
  /\ UNCHANGED seen

-----------------------------------------------------------------------------
(* The owner                                                               *)

\* The load of check_regional_occupancy, when there is one, may be stale.
Check(t) ==
  IF Loads(slot_index(localSlot.index))
    THEN \E v \in seen .. Len(versions) : PushLoads(t, versions[v].word) /\ Load(v)
    ELSE PushCheck(t) /\ UNCHANGED memoryVars

Write ==
  /\ PushWrite
  /\ knows' = [knows EXCEPT ![Owner] = @ \cup {<<"write", current>>}]
  /\ UNCHANGED <<versions, seen>>

\* fetch_add(Relaxed) of the slot.
Claim == PushClaim /\ UNCHANGED memoryVars

Occupy == OccupyRegion /\ FetchAdd(current)

Park == RegisterWaker /\ UNCHANGED memoryVars

-----------------------------------------------------------------------------
(* The consumers                                                           *)

\* fetch_xor(Relaxed) of the slot.
Bound(b) == (\E view \in Views : SetBounds(b, view)) /\ UNCHANGED memoryVars

Read(b) ==
  /\ VisitCell(b)
  /\ knows' = [knows EXCEPT ![b] = @ \cup {<<"read", buffer[Head(todo[b])]>>}]
  /\ UNCHANGED <<versions, seen>>

Deoccupy(b) == DeoccupyRegion(b) /\ FetchSub(b)

Wake(b) == (WakeNext(b) \/ WakeDone(b)) /\ UNCHANGED memoryVars

PubNext ==
  \/ \E t \in Tasks : Check(t)
  \/ Park
  \/ Write
  \/ Claim
  \/ Occupy
  \/ \E b \in Tasks : Bound(b) \/ Read(b) \/ Deoccupy(b) \/ Wake(b)

PubSpec == PubInit /\ [][PubNext]_pubVars

-----------------------------------------------------------------------------
(* Properties                                                              *)

PubTypeOK ==
  /\ TypeOK
  /\ knows \in [Threads -> SUBSET Accesses]
  /\ versions \in Seq([word : Words, teaches : SUBSET Accesses])
  /\ seen \in DOMAIN versions
  /\ Latest.word = occupancy

(***************************************************************************)
(* No word that a load of the owner may still return counts fewer batches  *)
(* in a region than are occupied there: releases by other threads make old *)
(* words count too many, and only the owner counts batches in, after which *)
(* it can load no older word.  A load at queue.rs:420 may refuse a push    *)
(* without need, but never lets one into an occupied region.               *)
(***************************************************************************)
NoLoadUnderstates ==
  \A v \in seen .. Len(versions) : \A r \in Regions : versions[v].word[r] >= occupancy[r]

(***************************************************************************)
(* Before the owner writes a cell, the reads of all the tasks that were in *)
(* it have been made, and happen before the write: the fetch_sub that gave *)
(* their regions back was read, perhaps much earlier and together with     *)
(* others, by an acquiring access of the owner.  Most writes touch no      *)
(* atomic at all and rest on what an earlier checkpoint, or the opening of *)
(* an earlier batch, has left in the cache (queue.rs:409).                 *)
(***************************************************************************)
OverwriteIsOrdered ==
  pc = "write" =>
    \A t \in Tasks : pos[t] # -1 /\ slot_index(pos[t]) = writeIndex =>
      <<"read", t>> \in knows[Owner]

(***************************************************************************)
(* The cached word never shows a region free if the owner has not learnt   *)
(* of every read of the batches that started there, whichever version it   *)
(* was copied from.  That a region is free is no reason: the copy must     *)
(* come with the knowledge.                                                *)
(***************************************************************************)
FreeIsKnown ==
  \A b \in Tasks : handle[b] \in {"unbounded", "bounded", "waking", "released"} =>
    \/ localOccupancy[RegionOf(b)] # 0
    \/ \A t \in Members(b) : <<"read", t>> \in knows[Owner]

(***************************************************************************)
(* into_bounded is to "Establish exclusive access over a StackQueue buffer *)
(* range" (assignment.rs:221): a consumer reads a task only if the write   *)
(* of that task happens before the read.                                   *)
(***************************************************************************)
ReadIsOrdered ==
  \A b \in Tasks : handle[b] = "bounded" /\ todo[b] # << >> =>
    <<"write", buffer[Head(todo[b])]>> \in knows[b]

=============================================================================
