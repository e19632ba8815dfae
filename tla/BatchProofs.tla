----------------------------- MODULE BatchProofs -----------------------------
(***************************************************************************)
(* Proofs about what is in the cells: a batch finds its own tasks, all of  *)
(* them and in order, for every buffer size and every interleaving, and    *)
(* also where the owner's loads of the occupancy are stale.                *)
(***************************************************************************)
EXTENDS StackQueueProofs

OpenHandle(b) == handle[b] \in {"claimed", "unbounded"}
Bounded(b)    == handle[b] \in {"bounded", "waking", "released"}

\* The cells a bounded batch has visited or is going to visit.
Extent(b) == Len(taken[b]) + Len(todo[b])

\* No position is left out.
PlacesInv == \A p \in 0 .. (pushed - 1) : \E t \in Tasks : pos[t] = p

\* A bounded batch reaches from its first position to the next batch or, as long
\* as none was opened, to the last position; the open batch is the last one.
ExtentInv ==
  /\ \A b \in Tasks : ~ Bounded(b) => taken[b] = << >>
  /\ \A b \in Tasks : handle[b] \in {"waking", "released"} => todo[b] = << >>
  /\ \A b, c \in Tasks : OpenHandle(b) /\ handle[c] # "none" => pos[c] <= pos[b]
  /\ \A b, c \in Tasks : Bounded(b) /\ handle[c] # "none" =>
       ~ (pos[b] < pos[c] /\ pos[c] < pos[b] + Extent(b))
  /\ \A b \in Tasks : Bounded(b) =>
       /\ Extent(b) >= 1 /\ pos[b] + Extent(b) <= pushed
       /\ \/ pos[b] + Extent(b) = pushed /\ \A c \in Tasks : ~ OpenHandle(c)
          \/ \E c \in Tasks : handle[c] # "none" /\ pos[c] = pos[b] + Extent(b)

\* Task t of batch b has not been visited.
Unvisited(b, t) ==
  \/ OpenHandle(b) /\ pos[b] <= pos[t]
  \/ Bounded(b) /\ pos[b] + Len(taken[b]) <= pos[t] /\ pos[t] < pos[b] + Extent(b)

\* What a batch has found and where it is going to look.
InPlace(b) ==
  /\ \A i \in 1 .. Len(taken[b]) :
       taken[b][i] \in Tasks /\ pos[taken[b][i]] = pos[b] + i - 1
  /\ \A i \in 1 .. Len(todo[b]) : todo[b][i] = (pos[b] + Len(taken[b]) + i - 1) % N

\* A task lies in the cell of its position until its batch visits that cell.
ContentInv ==
  /\ pc = "claim" => buffer[writeIndex] = current
  /\ \A b, t \in Tasks : Unvisited(b, t) => buffer[pos[t] % N] = t
  /\ \A b \in Tasks : Bounded(b) => InPlace(b)

(***************************************************************************)
(* The inductive invariant behind BatchesIntact.  That the cells of a live *)
(* batch are not overwritten is IInv; what they hold, and where the batch  *)
(* ends, is added here.                                                    *)
(***************************************************************************)
BInv == IInv /\ OneOpenBatch /\ PlacesInv /\ ExtentInv /\ ContentInv

\* The views the consumers use: as_slices wraps with the index counter, the
\* iterators only work until it wraps (queue.rs, the run queue_iter_wrap).
ViewsAreSafe == Views = {"slices"} \/ Cardinality(Tasks) < IndexLimit

-----------------------------------------------------------------------------
(* The cells of a range                                                    *)

\* as_slices and, until the index wraps, the iterators meet the cells of the
\* positions from p up to q in order.
LEMMA SlicesCells ==
  ASSUME NEW p \in Nat, NEW q \in Nat, p < q, q - p <= N
  PROVE  as_slices(p % IndexLimit, q % IndexLimit) = [i \in 1 .. (q - p) |-> (p + i - 1) % N]
<1>. DEFINE s == p % N
            e == q % N
            d == q - p
<1>1. N \in Nat \ {0} /\ s \in 0 .. (N - 1) /\ d \in 1 .. N
  BY LayoutFacts, DivMod
<1>2. slot_index(p % IndexLimit) = s /\ slot_index(q % IndexLimit) = e
  BY CellOfPosition
<1>3. e = IF s + d < N THEN s + d ELSE s + d - N
  <2>1. p + d = q /\ d \in 0 .. N
    BY <1>1
  <2>2. (p + d) % N = IF (p % N) + d < N THEN (p % N) + d ELSE (p % N) + d - N
    <3>. HIDE DEF d
    <3>. QED
      BY <1>1, <2>1, ModShift
  <2>. QED
    BY <2>1, <2>2
<1>4. ASSUME NEW i \in 1 .. d
      PROVE  (p + i - 1) % N = IF s + (i - 1) < N THEN s + (i - 1) ELSE s + (i - 1) - N
  <2>1. PICK j \in 0 .. N : j = i - 1
    BY <1>1
  <2>2. p + i - 1 = p + j
    BY <2>1
  <2>. QED
    BY <1>1, <2>1, <2>2, ModShift
<1>. HIDE DEF s, e, d
<1>5. CASE s + d < N
  <2>1. e > s /\ e - s = d
    BY <1>1, <1>3, <1>5
  <2>2. as_slices(p % IndexLimit, q % IndexLimit) = [i \in 1 .. (e - s) |-> s + i - 1]
    BY <1>2, <2>1 DEF as_slices
  <2>3. \A i \in 1 .. d : (p + i - 1) % N = s + i - 1
    BY <1>1, <1>4, <1>5
  <2>. QED
    BY <2>1, <2>2, <2>3 DEF d
<1>6. CASE ~ (s + d < N)
  <2>1. ~ (e > s) /\ N - s + e = d
    BY <1>1, <1>3, <1>6
  <2>2. as_slices(p % IndexLimit, q % IndexLimit) =
          [i \in 1 .. (N - s + e) |-> IF i <= N - s THEN s + i - 1 ELSE i - (N - s) - 1]
    BY <1>2, <2>1 DEF as_slices
  <2>3. \A i \in 1 .. d : (p + i - 1) % N = IF i <= N - s THEN s + i - 1 ELSE i - (N - s) - 1
    BY <1>1, <1>4, <1>6
  <2>. QED
    BY <2>1, <2>2, <2>3 DEF d
<1>. QED
  BY <1>5, <1>6

LEMMA IterCells ==
  ASSUME NEW p \in Nat, NEW q \in Nat, p < q, q < IndexLimit
  PROVE  BufferIterCells(p % IndexLimit, q % IndexLimit) =
           [i \in 1 .. (q - p) |-> (p + i - 1) % N]
<1>1. p % IndexLimit = p /\ q % IndexLimit = q
  BY LayoutAssumption, SmallMod
<1>2. \A i \in 1 .. (q - p) : slot_index(p + i - 1) = (p + i - 1) % N
  BY CellOfPosition
<1>. QED
  BY <1>1, <1>2 DEF BufferIterCells

\* Positions within one turn have cells of their own.
LEMMA CellsApart ==
  ASSUME NEW n \in Nat, NEW p \in Nat, NEW q \in Nat, p # q,
         p < n, q < n, n - p <= N, n - q <= N
  PROVE  p % N # q % N
<1>1. N \in Nat \ {0}
  BY LayoutFacts
<1>2. CASE p < q /\ q - p < N
  BY <1>1, <1>2, DistinctMod
<1>3. CASE q < p /\ p - q < N
  BY <1>1, <1>3, DistinctMod
<1>. QED
  BY <1>1, <1>2, <1>3

-----------------------------------------------------------------------------
(* What a step may change                                                  *)

\* Nothing of the batches, of their tasks or of the cells.
Quiet ==
  /\ UNCHANGED <<slot, occupancy, buffer, handle, base, todo, pushed, pos, taken>>
  /\ pc' = "claim" => UNCHANGED <<pc, current, writeIndex>>

LEMMA Effects ==
  ASSUME TypeOK, [StaleNext]_vars
  PROVE  \/ Quiet \/ PushWrite \/ PushClaim \/ OccupyRegion
         \/ \E b \in Tasks : \/ \E view \in Views : SetBounds(b, view)
                             \/ VisitCell(b) \/ DeoccupyRegion(b) \/ WakeDone(b)
<1>1. ASSUME NEW t \in Tasks, NEW word, NotBelow(word), PushLoads(t, word) PROVE Quiet
  BY <1>1 DEF PushLoads, check_regional_occupancy, Quiet, sharedVars, handleVars, historyVars
<1>2. ASSUME NEW t \in Tasks, Cancel(t) PROVE Quiet
  BY <1>2 DEF Cancel, Quiet, sharedVars, ownerVars, handleVars, historyVars
<1>3. CASE RegisterWaker
  BY <1>3 DEF RegisterWaker, Quiet, handleVars, historyVars
<1>4. ASSUME NEW b \in Tasks, WakeNext(b) PROVE Quiet
  BY <1>4 DEF WakeNext, Quiet, ownerVars, historyVars
<1>5. CASE UNCHANGED vars
  BY <1>5 DEF vars, Quiet, sharedVars, ownerVars, handleVars, historyVars
<1>. QED
  BY <1>1, <1>2, <1>3, <1>4, <1>5, CheckIsStale
  DEF StaleNext, StaleCheck, Next, OwnerStep, ConsumerStep

\* The open batch, without its abbreviation.
LEMMA OpenFacts ==
  ASSUME OneOpenBatch
  PROVE  /\ \A b, c \in Tasks : OpenHandle(b) /\ OpenHandle(c) => b = c
         /\ localSlot.phase = slot.phase <=> \E b \in Tasks : OpenHandle(b)
BY DEF OneOpenBatch, OpenHandle

\* A claim gives the next position to a task that had none.
LEMMA ClaimEffect ==
  ASSUME IInv, OneOpenBatch, PushClaim
  PROVE  /\ current \in Tasks /\ pos[current] = -1 /\ handle[current] = "none"
         /\ pushed \in Nat /\ pushed' = pushed + 1
         /\ \A t \in Tasks : pos'[t] = IF t = current THEN pushed ELSE pos[t]
         /\ \A t \in Tasks : t # current => handle'[t] = handle[t]
         /\ \/ handle'[current] = "none" /\ \E b \in Tasks : OpenHandle(b)
            \/ handle'[current] = "claimed" /\ \A b \in Tasks : ~ OpenHandle(b)
         /\ UNCHANGED <<taken, todo, buffer>> /\ pc = "claim" /\ pc' # "claim"
         /\ writeIndex = pushed % N
<1>. USE DEF IInv
<1>1. /\ current \in Tasks /\ pos[current] = -1 /\ handle[current] = "none"
      /\ writeIndex = pushed % N
  BY DEF PushClaim, TypeOK, OwnerInv, PositionsInv
<1>2. /\ pushed \in Nat /\ pushed' = pushed + 1 /\ UNCHANGED <<taken, todo, buffer>>
      /\ pc = "claim" /\ pc' # "claim"
  BY DEF PushClaim, TypeOK
<1>3. \A t \in Tasks : pos'[t] = IF t = current THEN pushed ELSE pos[t]
  BY DEF PushClaim, TypeOK
<1>4. CASE slot.phase = localSlot.phase
  <2>1. handle' = handle /\ \E b \in Tasks : OpenHandle(b)
    BY <1>4, OpenFacts DEF PushClaim
  <2>. QED
    BY <1>1, <1>2, <1>3, <2>1
<1>5. CASE slot.phase # localSlot.phase
  <2>1. handle' = [handle EXCEPT ![current] = "claimed"] /\ \A b \in Tasks : ~ OpenHandle(b)
    BY <1>5, OpenFacts DEF PushClaim
  <2>2. handle'[current] = "claimed" /\ \A t \in Tasks : t # current => handle'[t] = handle[t]
    BY <1>1, <2>1 DEF TypeOK
  <2>. QED
    BY <1>1, <1>2, <1>3, <2>1, <2>2
<1>. QED
  BY <1>4, <1>5

\* Only a claim moves positions, and it leaves no gap.
LEMMA PlacesStep ==
  ASSUME IInv, OneOpenBatch, PlacesInv, [StaleNext]_vars
  PROVE  PlacesInv'
<1>1. CASE PushClaim
  <2>. SUFFICES ASSUME NEW p \in 0 .. (pushed' - 1) PROVE \E t \in Tasks : pos'[t] = p
    BY DEF PlacesInv
  <2>1. p \in 0 .. (pushed - 1) \/ p = pushed
    BY <1>1, ClaimEffect
  <2>2. CASE p = pushed
    BY <1>1, <2>2, ClaimEffect
  <2>3. CASE p \in 0 .. (pushed - 1)
    <3>1. PICK t \in Tasks : pos[t] = p
      BY <2>3 DEF PlacesInv
    <3>2. t # current
      BY <1>1, <2>3, <3>1, ClaimEffect
    <3>. QED
      BY <1>1, <3>1, <3>2, ClaimEffect
  <2>. QED
    BY <2>1, <2>2, <2>3
<1>2. CASE ~ PushClaim
  <2>1. pushed' = pushed /\ pos' = pos
    BY <1>2, Effects DEF IInv, Quiet, PushWrite, OccupyRegion, SetBounds, VisitCell,
                         DeoccupyRegion, WakeDone, historyVars
  <2>. QED
    BY <2>1 DEF PlacesInv
<1>. QED
  BY <1>1, <1>2

\* Every task is pushed at most once.
LEMMA PushedBound ==
  ASSUME TypeOK, PositionsInv, PlacesInv
  PROVE  pushed <= Cardinality(Tasks)
<1>. DEFINE P == 0 .. (pushed - 1)
            f == [p \in P |-> CHOOSE t \in Tasks : pos[t] = p]
<1>1. \A p \in P : f[p] \in Tasks /\ pos[f[p]] = p
  BY DEF PlacesInv
<1>2. pushed \in Nat /\ IsFiniteSet(P) /\ Cardinality(P) = pushed
  <2>1. pushed \in Nat
    BY DEF TypeOK
  <2>2. IsFiniteSet(P) /\ Cardinality(P) = IF 0 > pushed - 1 THEN 0 ELSE (pushed - 1) - 0 + 1
    BY <2>1, FS_Interval
  <2>. QED
    BY <2>1, <2>2
<1>3. IsFiniteSet(Tasks) /\ Cardinality(Tasks) \in Nat
  BY TasksAssumption, FS_CardinalityType
<1>4. f \in [P -> Tasks]
  BY <1>1
<1>5. \A x, y \in P : f[x] = f[y] => x = y
  BY <1>1
<1>. HIDE DEF P, f
<1>6. ~ (Cardinality(Tasks) < Cardinality(P))
  BY <1>2, <1>3, <1>4, <1>5, FS_PigeonHole
<1>. QED
  BY <1>2, <1>3, <1>6

\* Bounding a batch lists the cells of its positions, up to the last one pushed.
LEMMA BoundCells ==
  ASSUME ViewsAreSafe, IInv, PlacesInv,
         NEW b \in Tasks, NEW view \in Views, SetBounds(b, view)
  PROVE  /\ todo'[b] = [i \in 1 .. (pushed - pos[b]) |-> (pos[b] + i - 1) % N]
         /\ \A c \in Tasks : c # b => todo'[c] = todo[c] /\ handle'[c] = handle[c]
         /\ handle[b] = "unbounded" /\ handle'[b] = "bounded"
         /\ UNCHANGED <<buffer, pc, current, writeIndex, pushed, pos, taken>>
         /\ pos[b] \in Nat /\ pushed \in Nat /\ pos[b] < pushed /\ pushed - pos[b] <= N
<1>. USE DEF IInv
<1>1. /\ handle[b] = "unbounded" /\ handle'[b] = "bounded"
      /\ \A c \in Tasks : c # b => todo'[c] = todo[c] /\ handle'[c] = handle[c]
      /\ todo'[b] = CellsOf(view, base[b], slot.index)
      /\ UNCHANGED <<buffer, pc, current, writeIndex, pushed, pos, taken>>
  BY DEF SetBounds, TypeOK, ownerVars, historyVars
<1>2. pos[b] \in Nat /\ pushed \in Nat /\ pos[b] < pushed /\ pushed - pos[b] <= N
  BY <1>1, LiveSpan DEF Live
<1>3. base[b] = pos[b] % IndexLimit /\ slot.index = pushed % IndexLimit
  BY <1>1 DEF PositionsInv
<1>4. CASE view = "slices"
  BY <1>1, <1>2, <1>3, <1>4, SlicesCells DEF CellsOf
<1>5. CASE view # "slices"
  <2>1. view = "iter" /\ Cardinality(Tasks) < IndexLimit
    BY <1>5, ModeAssumption DEF ViewsAreSafe
  <2>2. Cardinality(Tasks) \in Nat /\ IndexLimit \in Nat
    BY TasksAssumption, LayoutAssumption, FS_CardinalityType
  <2>3. pushed < IndexLimit
    BY <1>2, <2>1, <2>2, PushedBound
  <2>. QED
    BY <1>1, <1>2, <1>3, <2>1, <2>3, IterCells DEF CellsOf
<1>. QED
  BY <1>1, <1>2, <1>4, <1>5

\* A visit takes the next task of the batch out of its cell.
LEMMA VisitEffect ==
  ASSUME BInv, NEW b \in Tasks, VisitCell(b)
  PROVE  LET k == Len(taken[b]) IN
         /\ k \in Nat /\ pos[b] \in Nat /\ pushed \in Nat /\ pos[b] + k < pushed
         /\ handle[b] = "bounded" /\ Live(b) /\ Len(todo[b]) \in Nat /\ Len(todo[b]) > 0
         /\ \E t \in Tasks : /\ pos[t] = pos[b] + k
                             /\ buffer[(pos[b] + k) % N] = t /\ taken'[b] = Append(taken[b], t)
         /\ taken[b] \in Seq(Tasks \cup {NONE})
         /\ todo[b] \in Seq(Cells) /\ todo'[b] = Tail(todo[b])
         /\ \A c \in Tasks : c # b => taken'[c] = taken[c] /\ todo'[c] = todo[c]
         /\ (pos[b] + k) % N \in Cells /\ buffer' = [buffer EXCEPT ![(pos[b] + k) % N] = NONE]
         /\ UNCHANGED <<handle, pc, current, writeIndex, pushed, pos>>
<1>. DEFINE k == Len(taken[b])
            cell == (pos[b] + k) % N
<1>. USE DEF BInv, IInv
<1>1. /\ handle[b] = "bounded" /\ todo[b] # << >> /\ todo[b] \in Seq(Cells)
      /\ taken[b] \in Seq(Tasks \cup {NONE}) /\ k \in Nat
  BY DEF VisitCell, TypeOK
<1>2. Live(b) /\ Bounded(b) /\ pos[b] \in Nat /\ pushed \in Nat
  BY <1>1, LiveSpan DEF Live, Bounded
<1>3. Len(todo[b]) \in Nat /\ Len(todo[b]) > 0 /\ Head(todo[b]) = todo[b][1]
  BY <1>1
<1>4. Extent(b) = k + Len(todo[b]) /\ pos[b] + Extent(b) <= pushed
  BY <1>2 DEF ExtentInv, Extent
<1>n. PICK x \in Nat, y \in Nat, z \in Nat, n \in Nat :
        x = pos[b] /\ y = k /\ z = Len(todo[b]) /\ n = pushed
  BY <1>1, <1>2, <1>3
<1>m. z > 0 /\ x + (y + z) <= n
  BY <1>3, <1>4, <1>n
<1>5. pos[b] + k < pushed /\ pos[b] + k \in 0 .. (pushed - 1)
  <2>1. x + y < n /\ x + y \in 0 .. (n - 1)
    BY <1>m
  <2>. QED
    BY <1>n, <2>1
<1>6. PICK t \in Tasks : pos[t] = pos[b] + k
  BY <1>5 DEF PlacesInv
<1>7. Head(todo[b]) = cell /\ cell \in Cells
  <2>1. 1 \in 1 .. Len(todo[b])
    BY <1>3
  <2>2. todo[b][1] = (pos[b] + Len(taken[b]) + 1 - 1) % N
    BY <1>2, <2>1 DEF ContentInv, InPlace
  <2>3. pos[b] + Len(taken[b]) + 1 - 1 = pos[b] + k
    BY <1>1, <1>2
  <2>4. Head(todo[b]) \in Cells
    BY <1>1
  <2>. QED
    BY <1>3, <2>2, <2>3, <2>4
<1>8. buffer[cell] = t
  <2>1. pos[t] < pos[b] + Extent(b)
    <3>1. x + y < x + (y + z)
      BY <1>m
    <3>. QED
      BY <1>4, <1>6, <1>n, <3>1
  <2>2. pos[b] + Len(taken[b]) <= pos[t]
    BY <1>1, <1>2, <1>6
  <2>. QED
    BY <1>2, <1>6, <2>1, <2>2 DEF ContentInv, Unvisited
<1>9. /\ taken' = [taken EXCEPT ![b] = Append(@, buffer[cell])]
      /\ buffer' = [buffer EXCEPT ![cell] = NONE]
      /\ todo' = [todo EXCEPT ![b] = Tail(@)]
      /\ UNCHANGED <<handle, pc, current, writeIndex, pushed, pos>>
  BY <1>7 DEF VisitCell, ownerVars
<1>10. /\ taken'[b] = Append(taken[b], t) /\ todo'[b] = Tail(todo[b])
       /\ \A c \in Tasks : c # b => taken'[c] = taken[c] /\ todo'[c] = todo[c]
  BY <1>8, <1>9 DEF TypeOK
<1>. HIDE DEF cell
<1>. QED
  BY <1>1, <1>2, <1>3, <1>5, <1>6, <1>7, <1>8, <1>9, <1>10 DEF cell

\* Batches keep their extent, and the open one stays the last.
LEMMA ExtentStep ==
  ASSUME ViewsAreSafe, BInv, [StaleNext]_vars
  PROVE  ExtentInv'
<1>. USE DEF BInv
<1>0. \A b \in Tasks : /\ Len(taken[b]) \in Nat /\ Len(todo[b]) \in Nat
                       /\ pos[b] \in Int /\ pos[b] < pushed /\ pushed \in Nat
                       /\ handle[b] # "none" => pos[b] \in Nat
  BY DEF IInv, TypeOK, PositionsInv
\* a step that changes no extent, and hands no batch on but to the next state
<1>a. ASSUME UNCHANGED <<pushed, pos>>,
             \A b \in Tasks : /\ OpenHandle(b)' => OpenHandle(b)
                              /\ handle'[b] = "none" <=> handle[b] = "none"
                              /\ Bounded(b)' <=> Bounded(b)
                              /\ Bounded(b) => Extent(b)' = Extent(b)
                              /\ ~ Bounded(b) => taken'[b] = taken[b]
                              /\ handle'[b] \in {"waking", "released"} => todo'[b] = << >>
      PROVE  ExtentInv'
  BY <1>a DEF ExtentInv
<1>1. CASE Quiet \/ PushWrite
  <2>1. UNCHANGED <<pushed, pos, handle, todo, taken>>
    BY <1>1 DEF Quiet, PushWrite, handleVars, historyVars
  <2>. QED
    BY <2>1, <1>a DEF ExtentInv, Extent, Bounded, OpenHandle
<1>2. CASE PushClaim
  <2>1. /\ current \in Tasks /\ pos[current] = -1 /\ handle[current] = "none"
        /\ pushed \in Nat /\ pushed' = pushed + 1
        /\ \A t \in Tasks : pos'[t] = IF t = current THEN pushed ELSE pos[t]
        /\ \A t \in Tasks : t # current => handle'[t] = handle[t]
        /\ \/ handle'[current] = "none" /\ \E b \in Tasks : OpenHandle(b)
           \/ handle'[current] = "claimed" /\ \A b \in Tasks : ~ OpenHandle(b)
        /\ UNCHANGED <<taken, todo>>
    BY <1>2, ClaimEffect
  <2>2. \A b \in Tasks : Bounded(b)' <=> Bounded(b)
    BY <2>1 DEF Bounded
  <2>3. \A b \in Tasks : Bounded(b) => b # current /\ pos'[b] = pos[b] /\ Extent(b)' = Extent(b)
    BY <2>1 DEF Bounded, Extent
  <2>4. \A b, c \in Tasks : OpenHandle(b)' /\ handle'[c] # "none" => pos'[c] <= pos'[b]
    BY <1>0, <2>1 DEF ExtentInv, OpenHandle
  <2>5. ASSUME NEW b \in Tasks, Bounded(b)
        PROVE  /\ Extent(b)' >= 1 /\ pos'[b] + Extent(b)' <= pushed'
               /\ \A c \in Tasks : handle'[c] # "none" =>
                    ~ (pos'[b] < pos'[c] /\ pos'[c] < pos'[b] + Extent(b)')
               /\ \/ pos'[b] + Extent(b)' = pushed' /\ \A c \in Tasks : ~ OpenHandle(c)'
                  \/ \E c \in Tasks : handle'[c] # "none" /\ pos'[c] = pos'[b] + Extent(b)'
    <3>1. Extent(b) >= 1 /\ pos[b] + Extent(b) <= pushed /\ Extent(b) \in Nat /\ pos[b] \in Int
      <4>1. Extent(b) \in Nat
        <5>1. PICK x \in Nat, y \in Nat : x = Len(taken[b]) /\ y = Len(todo[b])
          BY <1>0
        <5>2. x + y \in Nat
          OBVIOUS
        <5>. QED
          BY <5>1, <5>2 DEF Extent
      <4>. QED
        BY <1>0, <2>5, <4>1 DEF ExtentInv
    <3>2. pos'[b] = pos[b] /\ Extent(b)' = Extent(b)
      BY <2>3, <2>5
    <3>3. \A c \in Tasks : handle'[c] # "none" =>
            ~ (pos[b] < pos'[c] /\ pos'[c] < pos[b] + Extent(b))
      BY <2>1, <2>5, <3>1 DEF ExtentInv
    <3>4. CASE pos[b] + Extent(b) = pushed /\ \A c \in Tasks : ~ OpenHandle(c)
      <4>1. handle'[current] # "none" /\ pos'[current] = pos[b] + Extent(b)
        BY <2>1, <3>4
      <4>. QED
        BY <2>1, <3>1, <3>2, <3>3, <4>1
    <3>5. CASE \E c \in Tasks : handle[c] # "none" /\ pos[c] = pos[b] + Extent(b)
      <4>1. \E c \in Tasks : handle'[c] # "none" /\ pos'[c] = pos[b] + Extent(b)
        BY <2>1, <3>5
      <4>. QED
        BY <2>1, <3>1, <3>2, <3>3, <4>1
    <3>. QED
      BY <2>5, <3>4, <3>5 DEF ExtentInv
  <2>6. \A b \in Tasks : /\ ~ Bounded(b)' => taken'[b] = << >>
                         /\ handle'[b] \in {"waking", "released"} => todo'[b] = << >>
    BY <2>1, <2>2 DEF ExtentInv
  <2>. QED
    BY <2>2, <2>4, <2>5, <2>6 DEF ExtentInv
<1>3. CASE OccupyRegion
  <2>1. /\ current \in Tasks /\ handle[current] = "claimed" /\ handle'[current] = "unbounded"
        /\ \A b \in Tasks : b # current => handle'[b] = handle[b]
        /\ UNCHANGED <<pushed, pos, todo, taken>>
    BY <1>3 DEF OccupyRegion, IInv, TypeOK, OwnerInv, historyVars
  <2>2. \A b \in Tasks : handle[b] \in {"waking", "released"} => todo[b] = << >>
    BY DEF ExtentInv
  <2>. QED
    BY <2>1, <2>2, <1>a DEF Extent, Bounded, OpenHandle
<1>4. ASSUME NEW b \in Tasks, NEW view \in Views, SetBounds(b, view) PROVE ExtentInv'
  <2>1. /\ todo'[b] = [i \in 1 .. (pushed - pos[b]) |-> (pos[b] + i - 1) % N]
        /\ \A c \in Tasks : c # b => todo'[c] = todo[c] /\ handle'[c] = handle[c]
        /\ handle[b] = "unbounded" /\ handle'[b] = "bounded"
        /\ UNCHANGED <<pushed, pos, taken>>
        /\ pos[b] \in Nat /\ pushed \in Nat /\ pos[b] < pushed
    BY <1>4, BoundCells
  <2>2. taken[b] = << >>
    BY <2>1 DEF ExtentInv, Bounded
  <2>3. Extent(b)' = pushed - pos[b]
    <3>1. Len(todo'[b]) = pushed - pos[b]
      BY <2>1
    <3>2. Len(taken'[b]) = 0
      BY <2>1, <2>2
    <3>. QED
      BY <2>1, <3>1, <3>2 DEF Extent
  <2>4. \A c \in Tasks : ~ OpenHandle(c)'
    BY <2>1, OpenFacts DEF OpenHandle
  <2>5. \A c \in Tasks : handle'[c] # "none" => pos[c] <= pos[b]
    BY <2>1 DEF ExtentInv, OpenHandle
  <2>6. \A c \in Tasks : c # b /\ Bounded(c)' => Bounded(c) /\ Extent(c)' = Extent(c)
    BY <2>1 DEF Bounded, Extent
  <2>7. \A c \in Tasks : handle'[c] = "none" <=> handle[c] = "none"
    BY <2>1
  <2>8. \A c \in Tasks : /\ ~ Bounded(c)' => taken'[c] = << >>
                         /\ handle'[c] \in {"waking", "released"} => todo'[c] = << >>
    BY <2>1 DEF ExtentInv, Bounded
  <2>9. ASSUME NEW a \in Tasks, Bounded(a)'
        PROVE  /\ Extent(a)' >= 1 /\ pos'[a] + Extent(a)' <= pushed'
               /\ \A c \in Tasks : handle'[c] # "none" =>
                    ~ (pos'[a] < pos'[c] /\ pos'[c] < pos'[a] + Extent(a)')
               /\ \/ pos'[a] + Extent(a)' = pushed'
                  \/ \E c \in Tasks : handle'[c] # "none" /\ pos'[c] = pos'[a] + Extent(a)'
    <3>1. CASE a = b
      BY <1>0, <2>1, <2>3, <2>5, <3>1
    <3>2. CASE a # b
      <4>1. Bounded(a) /\ Extent(a)' = Extent(a) /\ pos'[a] = pos[a] /\ pushed' = pushed
        BY <2>1, <2>6, <2>9, <3>2
      <4>2. /\ Extent(a) >= 1 /\ pos[a] + Extent(a) <= pushed
            /\ \A c \in Tasks : handle[c] # "none" =>
                 ~ (pos[a] < pos[c] /\ pos[c] < pos[a] + Extent(a))
            /\ \/ pos[a] + Extent(a) = pushed
               \/ \E c \in Tasks : handle[c] # "none" /\ pos[c] = pos[a] + Extent(a)
        BY <4>1 DEF ExtentInv
      <4>. QED
        BY <2>1, <2>7, <4>1, <4>2
    <3>. QED
      BY <3>1, <3>2
  <2>. QED
    BY <2>4, <2>8, <2>9 DEF ExtentInv
<1>5. ASSUME NEW b \in Tasks, VisitCell(b) PROVE ExtentInv'
  <2>1. /\ handle[b] = "bounded" /\ UNCHANGED <<pushed, pos, handle>>
        /\ \A c \in Tasks : c # b => taken'[c] = taken[c] /\ todo'[c] = todo[c]
    BY <1>5, VisitEffect
  <2>2. PICK t \in Tasks : taken'[b] = Append(taken[b], t)
    BY <1>5, VisitEffect
  <2>3. Len(taken'[b]) = Len(taken[b]) + 1 /\ Len(todo'[b]) = Len(todo[b]) - 1
    <3>1. taken[b] \in Seq(Tasks \cup {NONE}) /\ todo[b] \in Seq(Cells) /\ Len(todo[b]) > 0
      BY <1>5, VisitEffect
    <3>2. todo'[b] = Tail(todo[b])
      BY <1>5, VisitEffect
    <3>3. Len(Append(taken[b], t)) = Len(taken[b]) + 1
      BY <3>1
    <3>4. Len(Tail(todo[b])) = Len(todo[b]) - 1
      BY <3>1
    <3>. QED
      BY <2>2, <3>2, <3>3, <3>4
  <2>4. Extent(b)' = Extent(b)
    <3>1. PICK x \in Nat, y \in Nat : x = Len(taken[b]) /\ y = Len(todo[b])
      BY <1>0
    <3>2. Len(taken'[b]) = x + 1 /\ Len(todo'[b]) = y - 1
      BY <2>3, <3>1
    <3>3. (x + 1) + (y - 1) = x + y
      OBVIOUS
    <3>. QED
      BY <3>1, <3>2, <3>3 DEF Extent
  <2>5. \A c \in Tasks : /\ Bounded(c)' <=> Bounded(c)
                         /\ OpenHandle(c)' <=> OpenHandle(c)
                         /\ Bounded(c) => Extent(c)' = Extent(c)
                         /\ ~ Bounded(c) => taken'[c] = taken[c]
                         /\ handle'[c] \in {"waking", "released"} => todo'[c] = << >>
    BY <2>1, <2>4 DEF Bounded, OpenHandle, Extent, ExtentInv
  <2>. QED
    BY <2>1, <2>5, <1>a
<1>6. ASSUME NEW b \in Tasks, DeoccupyRegion(b) \/ WakeDone(b) PROVE ExtentInv'
  <2>1. /\ UNCHANGED <<pushed, pos, todo, taken>>
        /\ handle'[b] \in {"waking", "released"}
        /\ \A c \in Tasks : c # b => handle'[c] = handle[c]
    BY <1>6 DEF DeoccupyRegion, WakeDone, IInv, TypeOK, historyVars
  <2>2. handle[b] \in {"bounded", "waking"} /\ todo[b] = << >>
    BY <1>6 DEF DeoccupyRegion, WakeDone, ExtentInv
  <2>3. \A c \in Tasks : handle[c] \in {"waking", "released"} => todo[c] = << >>
    BY DEF ExtentInv
  <2>. QED
    BY <2>1, <2>2, <2>3, <1>a DEF Extent, Bounded, OpenHandle
<1>. QED
  BY <1>1, <1>2, <1>3, <1>4, <1>5, <1>6, Effects DEF IInv

\* What has not been visited belongs to a live batch, within a turn of the owner.
LEMMA UnvisitedSpan ==
  ASSUME BInv, NEW b \in Tasks, NEW t \in Tasks, Unvisited(b, t)
  PROVE  /\ Live(b) /\ handle[b] # "none" /\ pos[b] \in Nat /\ pos[t] \in Nat
         /\ pushed \in Nat /\ pos[b] <= pos[t] /\ pos[t] < pushed /\ pushed - pos[t] <= N
         /\ pc \in {"write", "claim"} => pushed - pos[t] < N
<1>. USE DEF BInv
<1>1. /\ pushed \in Nat /\ pos[t] \in Int /\ pos[t] < pushed /\ pos[b] \in Int /\ N \in Nat
      /\ Len(taken[b]) \in Nat
  BY LayoutFacts DEF IInv, TypeOK, PositionsInv
<1>2. Live(b) /\ pos[b] <= pos[t]
  <2>1. CASE OpenHandle(b)
    BY <2>1 DEF Unvisited, OpenHandle, Bounded, Live
  <2>2. CASE Bounded(b)
    <3>1. pos[b] + Len(taken[b]) <= pos[t] /\ pos[t] < pos[b] + Extent(b)
      BY <2>2 DEF Unvisited, OpenHandle, Bounded
    <3>2. todo[b] # << >>
      <4>. SUFFICES ASSUME todo[b] = << >> PROVE FALSE
        OBVIOUS
      <4>1. Extent(b) = Len(taken[b]) + 0
        BY DEF Extent
      <4>. QED
        BY <1>1, <3>1, <4>1
    <3>3. handle[b] = "bounded"
      BY <2>2, <3>2 DEF ExtentInv, Bounded
    <3>4. pos[b] <= pos[t]
      <4>1. PICK x \in Int, y \in Nat, z \in Int : x = pos[b] /\ y = Len(taken[b]) /\ z = pos[t]
        BY <1>1
      <4>2. x + y <= z
        BY <3>1, <4>1
      <4>3. x <= z
        BY <4>2
      <4>. QED
        BY <4>1, <4>3
    <3>. QED
      BY <3>3, <3>4 DEF Live
  <2>. QED
    BY <2>1, <2>2 DEF Unvisited
<1>3. pos[b] \in Nat /\ pushed - pos[b] <= N
  BY <1>2, LiveSpan
<1>4. pc \in {"write", "claim"} => pushed - pos[b] < N
  BY <1>2, PushSpan
<1>. QED
  BY <1>1, <1>2, <1>3, <1>4 DEF Live

\* No batch begins between an unvisited task and the start of its batch.
LEMMA NoneBetween ==
  ASSUME BInv, NEW b \in Tasks, NEW c \in Tasks, NEW t \in Tasks,
         Unvisited(b, t), handle[c] # "none", pos[c] <= pos[t]
  PROVE  ~ (pos[b] < pos[c])
<1>. USE DEF BInv
<1>1. pos[b] \in Nat /\ pos[t] \in Nat
  BY UnvisitedSpan
<1>2. pos[c] \in Int /\ Len(taken[b]) \in Nat /\ Len(todo[b]) \in Nat
  BY DEF IInv, TypeOK
<1>3. CASE OpenHandle(b)
  <2>1. pos[c] <= pos[b]
    BY <1>3 DEF ExtentInv
  <2>. QED
    BY <1>1, <1>2, <2>1
<1>4. CASE Bounded(b)
  <2>1. PICK e \in Nat : e = Extent(b)
    <3>1. \A x, y \in Nat : x + y \in Nat
      OBVIOUS
    <3>2. Extent(b) \in Nat
      BY <1>2, <3>1 DEF Extent
    <3>. QED
      BY <3>2
  <2>2. pos[t] < pos[b] + e
    BY <1>4, <2>1 DEF Unvisited, OpenHandle, Bounded
  <2>3. ~ (pos[b] < pos[c] /\ pos[c] < pos[b] + e)
    BY <1>4, <2>1 DEF ExtentInv
  <2>. QED
    BY <1>1, <1>2, <2>2, <2>3
<1>. QED
  BY <1>3, <1>4 DEF Unvisited

\* A task waits in one batch only.
LEMMA UnvisitedOnce ==
  ASSUME BInv, NEW b \in Tasks, NEW c \in Tasks, NEW t \in Tasks,
         Unvisited(b, t), Unvisited(c, t)
  PROVE  b = c
<1>. USE DEF BInv
<1>1. /\ pos[b] \in Nat /\ pos[c] \in Nat /\ handle[b] # "none" /\ handle[c] # "none"
      /\ pos[b] <= pos[t] /\ pos[c] <= pos[t] /\ pos[t] \in Nat
  BY UnvisitedSpan
<1>2. ~ (pos[b] < pos[c]) /\ ~ (pos[c] < pos[b])
  BY <1>1, NoneBetween
<1>4. pos[b] = pos[c] /\ pos[b] # -1
  BY <1>1, <1>2
<1>. QED
  BY <1>4 DEF IInv, PositionsInv

\* Tasks stay in their cells until they are visited, and a visit finds the next.
LEMMA ContentStep ==
  ASSUME ViewsAreSafe, BInv, [StaleNext]_vars
  PROVE  ContentInv'
<1>. USE DEF BInv
<1>0. /\ \A b \in Tasks : /\ Len(taken[b]) \in Nat /\ Len(todo[b]) \in Nat
                          /\ pos[b] \in Int /\ pos[b] < pushed
                          /\ handle[b] # "none" => pos[b] \in Nat
      /\ pushed \in Nat /\ N \in Nat \ {0}
      /\ buffer \in [Cells -> Tasks \cup {NONE}] /\ writeIndex \in Cells
  BY LayoutFacts DEF IInv, TypeOK, PositionsInv
<1>00. \A p \in Nat : p % N \in Cells
  BY SlotIndexType DEF slot_index
\* a step that leaves the cells alone, and visits nothing
<1>a. ASSUME UNCHANGED <<buffer, pos, todo, taken>>,
             pc' = "claim" => UNCHANGED <<pc, current, writeIndex>>,
             \A b \in Tasks : OpenHandle(b)' <=> OpenHandle(b),
             \A b \in Tasks : Bounded(b)' <=> Bounded(b)
      PROVE  ContentInv'
  <2>1. \A b, t \in Tasks : Unvisited(b, t)' => Unvisited(b, t)
    BY <1>a DEF Unvisited, Extent
  <2>2. \A b \in Tasks : InPlace(b)' <=> InPlace(b)
    BY <1>a DEF InPlace
  <2>. QED
    BY <1>a, <2>1, <2>2 DEF ContentInv
<1>1. CASE Quiet
  BY <1>1, <1>a DEF Quiet, OpenHandle, Bounded
<1>2. CASE PushWrite
  <2>1. /\ buffer' = [buffer EXCEPT ![writeIndex] = current] /\ pc = "write"
        /\ UNCHANGED <<pos, todo, taken, handle, current, writeIndex>>
        /\ writeIndex = pushed % N
    BY <1>2 DEF PushWrite, IInv, OwnerInv, handleVars, historyVars
  <2>2. buffer'[writeIndex] = current
    BY <1>0, <2>1
  <2>3. ASSUME NEW b \in Tasks, NEW t \in Tasks, Unvisited(b, t)'
        PROVE  buffer'[pos'[t] % N] = t
    <3>1. Unvisited(b, t)
      BY <2>1, <2>3 DEF Unvisited, Extent, OpenHandle, Bounded
    <3>2. pos[t] \in Nat /\ pos[t] < pushed /\ pushed - pos[t] < N
      BY <2>1, <3>1, UnvisitedSpan
    <3>3. pos[t] % N # pushed % N
      BY <1>0, <3>2, DistinctMod
    <3>. QED
      BY <1>0, <2>1, <3>1, <3>2, <3>3 DEF ContentInv
  <2>4. \A b \in Tasks : Bounded(b)' => InPlace(b)'
    BY <2>1 DEF ContentInv, InPlace, Bounded
  <2>. QED
    BY <2>1, <2>2, <2>3, <2>4 DEF ContentInv
<1>3. CASE PushClaim
  <2>1. /\ current \in Tasks /\ pos[current] = -1 /\ handle[current] = "none"
        /\ \A t \in Tasks : pos'[t] = IF t = current THEN pushed ELSE pos[t]
        /\ \A t \in Tasks : t # current => handle'[t] = handle[t]
        /\ handle'[current] \in {"none", "claimed"}
        /\ UNCHANGED <<taken, todo, buffer>> /\ pc = "claim" /\ pc' # "claim"
        /\ writeIndex = pushed % N
    BY <1>3, ClaimEffect
  <2>2. ASSUME NEW b \in Tasks, NEW t \in Tasks, Unvisited(b, t)'
        PROVE  buffer'[pos'[t] % N] = t
    <3>1. CASE t = current
      BY <2>1, <3>1 DEF ContentInv
    <3>2. CASE t # current
      <4>1. pos'[t] = pos[t] /\ pos[t] < pushed
        BY <1>0, <2>1, <3>2
      <4>2. b # current
        <5>. SUFFICES ASSUME b = current PROVE FALSE
          OBVIOUS
        <5>1. pos'[b] = pushed /\ ~ Bounded(b)'
          BY <2>1 DEF Bounded
        <5>2. pos'[b] <= pos'[t]
          BY <2>2, <5>1 DEF Unvisited
        <5>. QED
          BY <1>0, <4>1, <5>1, <5>2
      <4>3. Unvisited(b, t)
        BY <2>1, <2>2, <4>1, <4>2 DEF Unvisited, Extent, OpenHandle, Bounded
      <4>. QED
        BY <2>1, <4>1, <4>3 DEF ContentInv
    <3>. QED
      BY <3>1, <3>2
  <2>3. ASSUME NEW b \in Tasks, Bounded(b)' PROVE InPlace(b)'
    <3>1. b # current /\ Bounded(b) /\ pos'[b] = pos[b] /\ pos[b] \in Nat
      BY <1>0, <2>1, <2>3 DEF Bounded
    <3>2. InPlace(b)
      BY <3>1 DEF ContentInv
    <3>3. \A i \in 1 .. Len(taken[b]) : taken[b][i] # current
      <4>. SUFFICES ASSUME NEW i \in 1 .. Len(taken[b]), taken[b][i] = current PROVE FALSE
        OBVIOUS
      <4>1. pos[b] + i - 1 = -1
        BY <2>1, <3>2 DEF InPlace
      <4>2. i \in Nat /\ i > 0
        BY <1>0
      <4>. QED
        BY <3>1, <4>1, <4>2
    <3>. QED
      BY <2>1, <3>1, <3>2, <3>3 DEF InPlace
  <2>. QED
    BY <2>1, <2>2, <2>3 DEF ContentInv
<1>4. CASE OccupyRegion
  <2>1. /\ current \in Tasks /\ handle[current] = "claimed" /\ handle'[current] = "unbounded"
        /\ \A b \in Tasks : b # current => handle'[b] = handle[b]
        /\ UNCHANGED <<buffer, pos, todo, taken>> /\ pc' # "claim"
    BY <1>4 DEF OccupyRegion, IInv, TypeOK, OwnerInv, historyVars
  <2>. QED
    BY <2>1, <1>a DEF Bounded, OpenHandle
<1>5. ASSUME NEW b \in Tasks, NEW view \in Views, SetBounds(b, view) PROVE ContentInv'
  <2>1. /\ todo'[b] = [i \in 1 .. (pushed - pos[b]) |-> (pos[b] + i - 1) % N]
        /\ \A c \in Tasks : c # b => todo'[c] = todo[c] /\ handle'[c] = handle[c]
        /\ handle[b] = "unbounded" /\ handle'[b] = "bounded"
        /\ UNCHANGED <<buffer, pc, current, writeIndex, pushed, pos, taken>>
        /\ pos[b] \in Nat /\ pushed \in Nat /\ pos[b] < pushed
    BY <1>5, BoundCells
  <2>2. taken[b] = << >> /\ Len(taken[b]) = 0
    BY <2>1 DEF ExtentInv, Bounded
  <2>3. Len(todo'[b]) = pushed - pos[b]
    BY <2>1
  <2>4. ASSUME NEW c \in Tasks, NEW t \in Tasks, Unvisited(c, t)' PROVE Unvisited(c, t)
    <3>1. CASE c = b
      <4>1. pos[b] + 0 <= pos[t]
        BY <2>1, <2>2, <2>4, <3>1 DEF Unvisited, OpenHandle
      <4>2. pos[b] <= pos[t]
        BY <1>0, <4>1
      <4>. QED
        BY <2>1, <3>1, <4>2 DEF Unvisited, OpenHandle
    <3>2. CASE c # b
      BY <2>1, <2>4, <3>2 DEF Unvisited, Extent, OpenHandle, Bounded
    <3>. QED
      BY <3>1, <3>2
  <2>5. ASSUME NEW c \in Tasks, Bounded(c)' PROVE InPlace(c)'
    <3>1. CASE c = b
      <4>1. \A i \in 1 .. Len(taken'[b]) : FALSE
        BY <2>1, <2>2
      <4>2. ASSUME NEW i \in 1 .. Len(todo'[b])
            PROVE  todo'[b][i] = (pos'[b] + Len(taken'[b]) + i - 1) % N
        <5>1. i \in 1 .. (pushed - pos[b]) /\ pos[b] + 0 + i - 1 = pos[b] + i - 1
          BY <2>1, <2>3
        <5>. QED
          BY <2>1, <2>2, <5>1
      <4>. QED
        BY <3>1, <4>1, <4>2 DEF InPlace
    <3>2. CASE c # b
      BY <2>1, <2>5, <3>2 DEF InPlace, Bounded, ContentInv
    <3>. QED
      BY <3>1, <3>2
  <2>. QED
    BY <2>1, <2>4, <2>5 DEF ContentInv
<1>6. ASSUME NEW b \in Tasks, VisitCell(b) PROVE ContentInv'
  <2>. DEFINE k == Len(taken[b])
              p == pos[b] + k
  <2>1. /\ k \in Nat /\ pos[b] \in Nat /\ p < pushed /\ handle[b] = "bounded"
        /\ Len(todo[b]) \in Nat /\ Len(todo[b]) > 0
        /\ taken[b] \in Seq(Tasks \cup {NONE}) /\ todo[b] \in Seq(Cells)
        /\ todo'[b] = Tail(todo[b]) /\ p % N \in Cells
        /\ buffer' = [buffer EXCEPT ![p % N] = NONE]
        /\ UNCHANGED <<handle, pc, current, writeIndex, pushed, pos>>
    BY <1>6, VisitEffect
  <2>2. \A c \in Tasks : c # b => taken'[c] = taken[c] /\ todo'[c] = todo[c]
    BY <1>6, VisitEffect
  <2>3. PICK u \in Tasks : pos[u] = p /\ taken'[b] = Append(taken[b], u)
    BY <1>6, VisitEffect
  <2>4. /\ Len(taken'[b]) = k + 1 /\ taken'[b][k + 1] = u
        /\ \A i \in 1 .. k : taken'[b][i] = taken[b][i]
    BY <2>1, <2>3
  <2>5. /\ Len(todo'[b]) = Len(todo[b]) - 1
        /\ \A i \in 1 .. (Len(todo[b]) - 1) : todo'[b][i] = todo[b][i + 1]
    BY <2>1
  <2>6. p \in Nat /\ p + 1 \in Nat
    BY <2>1
  <2>7. Extent(b)' = Extent(b) /\ Extent(b) = k + Len(todo[b])
    <3>1. PICK y \in Nat, z \in Nat : y = k /\ z = Len(todo[b])
      BY <2>1
    <3>2. (y + 1) + (z - 1) = y + z
      OBVIOUS
    <3>. QED
      BY <2>4, <2>5, <3>1, <3>2 DEF Extent
  <2>. HIDE DEF k, p
  <2>8. Unvisited(b, u)
    <3>1. PICK x \in Nat, y \in Nat, z \in Nat : x = pos[b] /\ y = k /\ z = Len(todo[b])
      BY <2>1
    <3>2. p = x + y /\ z > 0
      BY <2>1, <3>1 DEF p
    <3>3. x + y <= p /\ p < x + (y + z)
      BY <3>2
    <3>4. pos[b] + Len(taken[b]) <= pos[u] /\ pos[u] < pos[b] + Extent(b)
      BY <2>3, <2>7, <3>1, <3>3 DEF k
    <3>. QED
      BY <2>1, <3>4 DEF Unvisited, Bounded
  <2>9. ASSUME NEW c \in Tasks, NEW t \in Tasks, Unvisited(c, t)'
        PROVE  Unvisited(c, t) /\ pos[t] # p
    <3>1. CASE c # b
      <4>1. Unvisited(c, t)
        BY <2>1, <2>2, <2>9, <3>1 DEF Unvisited, Extent, OpenHandle, Bounded
      <4>2. t # u
        BY <2>8, <3>1, <4>1, UnvisitedOnce
      <4>3. pos[t] # pos[u]
        <5>1. pos[u] # -1
          BY <2>3, <2>6
        <5>. QED
          BY <4>2, <5>1 DEF IInv, PositionsInv
      <4>. QED
        BY <2>3, <4>1, <4>3
    <3>2. CASE c = b
      <4>1. pos[b] + (k + 1) <= pos[t] /\ pos[t] < pos[b] + Extent(b)
        BY <2>1, <2>4, <2>7, <2>9, <3>2 DEF Unvisited, OpenHandle, Bounded
      <4>2. p < pos[t] /\ p <= pos[t]
        <5>1. PICK x \in Nat, y \in Nat, z \in Int : x = pos[b] /\ y = k /\ z = pos[t]
          BY <1>0, <2>1
        <5>2. x + (y + 1) <= z
          BY <4>1, <5>1
        <5>3. x + y < z /\ x + y <= z
          BY <5>2
        <5>. QED
          BY <5>1, <5>3 DEF p
      <4>. QED
        BY <2>1, <2>6, <3>2, <4>1, <4>2 DEF Unvisited, Bounded, k, p
    <3>. QED
      BY <3>1, <3>2
  <2>10. ASSUME NEW c \in Tasks, NEW t \in Tasks, Unvisited(c, t)'
         PROVE  buffer'[pos'[t] % N] = t
    <3>1. Unvisited(c, t) /\ pos[t] # p
      BY <2>9, <2>10
    <3>2. pos[t] \in Nat /\ pos[t] < pushed /\ pushed - pos[t] <= N
      BY <3>1, UnvisitedSpan
    <3>3. p < pushed /\ pushed - p <= N
      BY <2>3, <2>8, UnvisitedSpan
    <3>4. pos[t] % N # p % N
      BY <1>0, <2>6, <3>1, <3>2, <3>3, CellsApart
    <3>. QED
      BY <1>0, <2>1, <3>1, <3>2, <3>4 DEF ContentInv
  <2>11. pc' = "claim" => buffer'[writeIndex'] = current'
    <3>. SUFFICES ASSUME pc = "claim" PROVE buffer'[writeIndex] = current
      BY <2>1
    <3>1. writeIndex = pushed % N /\ p < pushed /\ pushed - p < N
      BY <2>3, <2>8, UnvisitedSpan DEF IInv, OwnerInv
    <3>2. p % N # pushed % N
      BY <1>0, <2>6, <3>1, DistinctMod
    <3>. QED
      BY <1>0, <2>1, <3>1, <3>2 DEF ContentInv
  <2>12. ASSUME NEW c \in Tasks, Bounded(c)' PROVE InPlace(c)'
    <3>1. InPlace(c)
      BY <2>1, <2>12 DEF ContentInv, Bounded
    <3>2. CASE c # b
      BY <2>1, <2>2, <3>1, <3>2 DEF InPlace
    <3>3. CASE c = b
      <4>1. ASSUME NEW i \in 1 .. (k + 1)
            PROVE  taken'[b][i] \in Tasks /\ pos[taken'[b][i]] = pos[b] + i - 1
        <5>1. CASE i = k + 1
          <6>1. pos[b] + (k + 1) - 1 = p
            BY <2>1 DEF p
          <6>. QED
            BY <2>3, <2>4, <5>1, <6>1
        <5>2. CASE i # k + 1
          <6>1. i \in 1 .. k
            BY <2>1, <5>2
          <6>. QED
            BY <2>4, <3>1, <3>3, <6>1 DEF InPlace, k
        <5>. QED
          BY <5>1, <5>2
      <4>2. ASSUME NEW i \in 1 .. (Len(todo[b]) - 1)
            PROVE  todo'[b][i] = (pos[b] + (k + 1) + i - 1) % N
        <5>1. i + 1 \in 1 .. Len(todo[b]) /\ todo'[b][i] = todo[b][i + 1]
          <6>1. PICK z \in Nat : z = Len(todo[b])
            BY <2>1
          <6>2. \A j \in 1 .. (z - 1) : j + 1 \in 1 .. z
            OBVIOUS
          <6>. QED
            BY <2>5, <6>1, <6>2
        <5>2. todo[b][i + 1] = (pos[b] + k + (i + 1) - 1) % N
          BY <3>1, <3>3, <5>1 DEF InPlace, k
        <5>3. pos[b] + k + (i + 1) - 1 = pos[b] + (k + 1) + i - 1
          <6>1. PICK x \in Int, y \in Int, z \in Int : x = pos[b] /\ y = k /\ z = i
            BY <2>1
          <6>2. x + y + (z + 1) - 1 = x + (y + 1) + z - 1
            OBVIOUS
          <6>. QED
            BY <6>1, <6>2
        <5>. QED
          BY <5>1, <5>2, <5>3
      <4>. QED
        BY <2>1, <2>4, <2>5, <3>3, <4>1, <4>2 DEF InPlace
    <3>. QED
      BY <3>2, <3>3
  <2>. QED
    BY <2>10, <2>11, <2>12 DEF ContentInv
<1>7. ASSUME NEW b \in Tasks, DeoccupyRegion(b) \/ WakeDone(b) PROVE ContentInv'
  <2>1. /\ UNCHANGED <<buffer, pos, todo, taken, pc, current, writeIndex>>
        /\ handle[b] \in {"bounded", "waking"} /\ handle'[b] \in {"waking", "released"}
        /\ \A c \in Tasks : c # b => handle'[c] = handle[c]
    BY <1>7 DEF DeoccupyRegion, WakeDone, IInv, TypeOK, sharedVars, ownerVars, historyVars
  <2>. QED
    BY <2>1, <1>a DEF Bounded, OpenHandle
<1>. QED
  BY <1>1, <1>2, <1>3, <1>4, <1>5, <1>6, <1>7, Effects DEF IInv

-----------------------------------------------------------------------------
(* The theorem                                                             *)

LEMMA InitBInv == Init => BInv
<1>. SUFFICES ASSUME Init PROVE BInv
  OBVIOUS
<1>1. IInv
  BY InitIInv
<1>2. \A b \in Tasks : handle[b] = "none" /\ taken[b] = << >>
  BY DEF Init
<1>3. pushed = 0 /\ pc = "idle" /\ localSlot.phase # slot.phase
  BY DEF Init
<1>4. OneOpenBatch
  BY <1>2, <1>3 DEF OneOpenBatch
<1>5. PlacesInv
  BY <1>3 DEF PlacesInv
<1>6. ExtentInv
  BY <1>2 DEF ExtentInv, Bounded, OpenHandle
<1>7. ContentInv
  BY <1>2, <1>3 DEF ContentInv, Unvisited, Bounded, OpenHandle
<1>. QED
  BY <1>1, <1>4, <1>5, <1>6, <1>7 DEF BInv

LEMMA BInvStep ==
  ASSUME RegionFits, ViewsAreSafe, BInv, [StaleNext]_vars
  PROVE  BInv'
<1>1. IInv'
  BY IInvStep DEF BInv
<1>2. OneOpenBatch'
  BY OpenStep DEF BInv, IInv, OwnerInv, ClaimedByOwner
<1>3. PlacesInv' /\ ExtentInv' /\ ContentInv'
  BY PlacesStep, ExtentStep, ContentStep DEF BInv
<1>. QED
  BY <1>1, <1>2, <1>3 DEF BInv

\* BInv holds in every reachable state.
THEOREM BatchInvariance ==
  ASSUME RegionFits, ViewsAreSafe
  PROVE  Spec => []BInv
<1>1. Init => BInv
  BY InitBInv
<1>2. BInv /\ [Next]_vars => BInv'
  BY BInvStep DEF StaleNext
<1>. QED
  BY <1>1, <1>2, PTL DEF Spec

-----------------------------------------------------------------------------
(* The tasks of a batch                                                    *)

\* The number of positions from the start of a batch to its end.
Span(b) == IF OpenHandle(b) THEN pushed - pos[b] ELSE Extent(b)

LEMMA SpanFacts ==
  ASSUME BInv, NEW b \in Tasks, handle[b] # "none"
  PROVE  /\ Span(b) \in Nat /\ Span(b) >= 1
         /\ pos[b] \in Nat /\ pushed \in Nat /\ pos[b] + Span(b) <= pushed
         /\ \/ pos[b] + Span(b) = pushed
            \/ \E c \in Tasks : handle[c] # "none" /\ pos[c] = pos[b] + Span(b)
         /\ \A c \in Tasks : handle[c] # "none" =>
              ~ (pos[b] < pos[c] /\ pos[c] < pos[b] + Span(b))
<1>. USE DEF BInv
<1>1. /\ pushed \in Nat /\ pos[b] \in Nat /\ pos[b] < pushed
      /\ \A c \in Tasks : pos[c] \in Int
      /\ Len(taken[b]) \in Nat /\ Len(todo[b]) \in Nat
  BY DEF IInv, TypeOK, PositionsInv
<1>2. CASE OpenHandle(b)
  <2>1. Span(b) = pushed - pos[b]
    BY <1>2 DEF Span
  <2>2. \A c \in Tasks : handle[c] # "none" => pos[c] <= pos[b]
    BY <1>2 DEF ExtentInv
  <2>. QED
    BY <1>1, <2>1, <2>2
<1>3. CASE ~ OpenHandle(b)
  <2>1. Span(b) = Extent(b) /\ Bounded(b)
    BY <1>3 DEF Span, OpenHandle, Bounded, IInv, TypeOK
  <2>2. Extent(b) \in Nat
    <3>1. \A x, y \in Nat : x + y \in Nat
      OBVIOUS
    <3>. QED
      BY <1>1, <3>1 DEF Extent
  <2>. QED
    BY <1>1, <2>1, <2>2 DEF ExtentInv
<1>. QED
  BY <1>2, <1>3

\* A task belongs to a batch if its position is within the span.
LEMMA MembersSpan ==
  ASSUME BInv, NEW b \in Tasks, handle[b] # "none", NEW t \in Tasks
  PROVE  t \in Members(b) <=> pos[b] <= pos[t] /\ pos[t] < pos[b] + Span(b)
<1>. USE DEF BInv
<1>1. pos[t] < pushed /\ \A c \in Tasks : pos[c] \in Int
  BY DEF IInv, TypeOK, PositionsInv
<1>2. PICK e \in Nat : e = Span(b)
  BY SpanFacts
<1>3. /\ e >= 1 /\ pos[b] \in Nat /\ pushed \in Nat
      /\ \/ pos[b] + e = pushed
         \/ \E c \in Tasks : handle[c] # "none" /\ pos[c] = pos[b] + e
  BY <1>2, SpanFacts
<1>4. \A c \in Tasks : handle[c] # "none" => ~ (pos[b] < pos[c] /\ pos[c] < pos[b] + e)
  BY <1>2, SpanFacts
<1>5. ASSUME pos[b] <= pos[t], pos[t] < pos[b] + e PROVE t \in Members(b)
  <2>1. \A c \in Tasks : handle[c] # "none" => ~ (pos[b] < pos[c] /\ pos[c] <= pos[t])
    BY <1>1, <1>3, <1>4, <1>5
  <2>. QED
    BY <1>1, <1>5, <2>1 DEF Members
<1>6. ASSUME t \in Members(b) PROVE pos[b] <= pos[t] /\ pos[t] < pos[b] + e
  <2>1. /\ pos[t] >= pos[b]
        /\ \A c \in Tasks : handle[c] # "none" => ~ (pos[b] < pos[c] /\ pos[c] <= pos[t])
    BY <1>6 DEF Members
  <2>. QED
    BY <1>1, <1>3, <2>1
<1>. QED
  BY <1>2, <1>5, <1>6

\* Every position of the span is that of exactly one member.
LEMMA MemberAt ==
  ASSUME BInv, NEW b \in Tasks, handle[b] # "none", NEW i \in 1 .. Span(b)
  PROVE  /\ \E t \in Members(b) : pos[t] = pos[b] + i - 1
         /\ \A t, u \in Members(b) :
              pos[t] = pos[b] + i - 1 /\ pos[u] = pos[b] + i - 1 => t = u
<1>. USE DEF BInv
<1>1. pushed \in Nat /\ pos[b] \in Nat /\ Span(b) \in Nat /\ pos[b] + Span(b) <= pushed
  BY SpanFacts
<1>2. pos[b] + i - 1 \in 0 .. (pushed - 1)
  BY <1>1
<1>3. PICK t \in Tasks : pos[t] = pos[b] + i - 1
  BY <1>2 DEF PlacesInv
<1>4. pos[b] <= pos[t] /\ pos[t] < pos[b] + Span(b)
  BY <1>1, <1>3
<1>5. t \in Members(b)
  BY <1>4, MembersSpan
<1>6. pos[b] + i - 1 # -1
  BY <1>1
<1>7. Members(b) \subseteq Tasks
  BY DEF Members
<1>. QED
  BY <1>3, <1>5, <1>6, <1>7 DEF IInv, PositionsInv

LEMMA MembersCount ==
  ASSUME BInv, NEW b \in Tasks, handle[b] # "none"
  PROVE  Cardinality(Members(b)) = Span(b)
<1>. USE DEF BInv
<1>. DEFINE e == Span(b)
            f == [i \in 1 .. e |-> CHOOSE t \in Members(b) : pos[t] = pos[b] + i - 1]
<1>1. pos[b] \in Nat /\ e \in Nat /\ \A t \in Tasks : pos[t] \in Int
  BY SpanFacts DEF IInv, TypeOK
<1>2. \A i \in 1 .. e : f[i] \in Members(b) /\ pos[f[i]] = pos[b] + i - 1
  BY MemberAt
<1>3. f \in [1 .. e -> Members(b)]
  BY <1>2
<1>. HIDE DEF f
<1>4. \A i, j \in 1 .. e : f[i] = f[j] => i = j
  <2>1. \A i, j \in 1 .. e : pos[b] + i - 1 = pos[b] + j - 1 => i = j
    BY <1>1
  <2>. QED
    BY <1>2, <2>1
<1>5. \A t \in Members(b) : \E i \in 1 .. e : f[i] = t
  <2>. SUFFICES ASSUME NEW t \in Members(b) PROVE \E i \in 1 .. e : f[i] = t
    OBVIOUS
  <2>1. t \in Tasks /\ pos[b] <= pos[t] /\ pos[t] < pos[b] + e
    BY MembersSpan DEF Members
  <2>2. PICK i \in 1 .. e : pos[t] = pos[b] + i - 1
    <3>1. pos[t] - pos[b] + 1 \in 1 .. e /\ pos[t] = pos[b] + (pos[t] - pos[b] + 1) - 1
      BY <1>1, <2>1
    <3>. QED
      BY <3>1
  <2>. QED
    BY <1>2, <2>2, MemberAt
<1>. HIDE DEF e
<1>6. f \in Injection(1 .. e, Members(b))
  BY <1>3, <1>4 DEF Injection, IsInjective
<1>7. f \in Surjection(1 .. e, Members(b))
  BY <1>3, <1>5 DEF Surjection
<1>8. ExistsBijection(1 .. e, Members(b))
  BY <1>6, <1>7 DEF Bijection, ExistsBijection
<1>9. Cardinality(Members(b)) = e
  BY <1>1, <1>8, FS_CountingElements
<1>. QED
  BY <1>9 DEF e

\* InOrder lists the tasks of a batch by their positions.
Ordered ==
  \A b \in Tasks : handle[b] # "none" =>
    /\ InOrder(b) \in Seq(Tasks) /\ Len(InOrder(b)) = Span(b)
    /\ \A i \in 1 .. Span(b) :
         InOrder(b)[i] \in Tasks /\ pos[InOrder(b)[i]] = pos[b] + i - 1

LEMMA BInvOrdered == BInv => Ordered
<1>. SUFFICES ASSUME BInv, NEW b \in Tasks, handle[b] # "none"
              PROVE  /\ InOrder(b) \in Seq(Tasks) /\ Len(InOrder(b)) = Span(b)
                     /\ \A i \in 1 .. Span(b) : /\ InOrder(b)[i] \in Tasks
                                                /\ pos[InOrder(b)[i]] = pos[b] + i - 1
  BY DEF Ordered
<1>1. PICK e \in Nat : e = Span(b)
  BY SpanFacts
<1>2. InOrder(b) = [i \in 1 .. e |-> CHOOSE t \in Members(b) : pos[t] = pos[b] + i - 1]
  BY <1>1, MembersCount DEF InOrder
<1>3. \A i \in 1 .. e : InOrder(b)[i] \in Members(b) /\ pos[InOrder(b)[i]] = pos[b] + i - 1
  BY <1>1, <1>2, MemberAt
<1>4. Members(b) \subseteq Tasks
  BY DEF Members
<1>5. InOrder(b) \in [1 .. e -> Tasks]
  BY <1>2, <1>3, <1>4
<1>. QED
  BY <1>1, <1>3, <1>4, <1>5

\* Tasks are told apart by their positions.
LEMMA SamePosition ==
  ASSUME PositionsInv, NEW t \in Tasks, NEW u \in Tasks, pos[t] = pos[u], pos[t] # -1
  PROVE  t = u
BY DEF PositionsInv

LEMMA BInvIntact == BInv => BatchesIntact
<1>. SUFFICES ASSUME BInv, NEW b \in Tasks, Bounded(b)
              PROVE  taken[b] \o [i \in DOMAIN todo[b] |-> buffer[todo[b][i]]] = InOrder(b)
  BY DEF BatchesIntact, Bounded
<1>. USE DEF BInv
<1>. DEFINE rest == [i \in DOMAIN todo[b] |-> buffer[todo[b][i]]]
<1>1. /\ taken[b] \in Seq(Tasks \cup {NONE}) /\ todo[b] \in Seq(Cells)
      /\ buffer \in [Cells -> Tasks \cup {NONE}] /\ handle[b] # "none" /\ PositionsInv
  BY DEF IInv, TypeOK, Bounded
<1>2. pos[b] \in Nat
  BY <1>1, SpanFacts
<1>3. PICK k \in Nat, m \in Nat, e \in Nat : k = Len(taken[b]) /\ m = Len(todo[b]) /\ e = k + m
  <2>1. \A x, y \in Nat : x + y \in Nat
    OBVIOUS
  <2>2. Len(taken[b]) \in Nat /\ Len(todo[b]) \in Nat
    BY <1>1
  <2>. QED
    BY <2>1, <2>2
<1>4. e = Span(b) /\ e = Extent(b) /\ e = k + m
  BY <1>3 DEF Extent, Span, OpenHandle, Bounded
<1>5. /\ \A i \in 1 .. k : taken[b][i] \in Tasks /\ pos[taken[b][i]] = pos[b] + i - 1
      /\ \A i \in 1 .. m : todo[b][i] = (pos[b] + k + i - 1) % N
  BY <1>3 DEF ContentInv, InPlace
<1>6. rest \in Seq(Tasks \cup {NONE}) /\ Len(rest) = m /\ \A i \in 1 .. m : rest[i] = buffer[todo[b][i]]
  BY <1>1, <1>3
<1>. HIDE DEF rest
<1>7. /\ taken[b] \o rest \in Seq(Tasks \cup {NONE}) /\ Len(taken[b] \o rest) = e
      /\ \A i \in 1 .. e : (taken[b] \o rest)[i] = IF i <= k THEN taken[b][i] ELSE rest[i - k]
  <2>1. PICK s \in Seq(Tasks \cup {NONE}) : s = taken[b]
    BY <1>1
  <2>2. s \o rest \in Seq(Tasks \cup {NONE}) /\ Len(s \o rest) = Len(s) + Len(rest)
    BY <1>6
  <2>3. \A i \in 1 .. (Len(s) + Len(rest)) :
          (s \o rest)[i] = IF i <= Len(s) THEN s[i] ELSE rest[i - Len(s)]
    BY <1>6
  <2>. QED
    BY <1>3, <1>6, <2>1, <2>2, <2>3
<1>8. /\ InOrder(b) \in Seq(Tasks) /\ Len(InOrder(b)) = e
      /\ \A i \in 1 .. e : InOrder(b)[i] \in Tasks /\ pos[InOrder(b)[i]] = pos[b] + i - 1
  BY <1>1, <1>4, BInvOrdered DEF Ordered
<1>9. ASSUME NEW i \in 1 .. e PROVE (taken[b] \o rest)[i] = InOrder(b)[i]
  <2>1. PICK t \in Tasks : t = InOrder(b)[i] /\ pos[t] = pos[b] + i - 1
    BY <1>8
  <2>2. pos[t] # -1
    BY <1>2, <2>1
  <2>3. CASE i <= k
    <3>1. i \in 1 .. k
      BY <2>3
    <3>2. taken[b][i] = t
      BY <1>1, <1>5, <2>1, <2>2, <3>1, SamePosition
    <3>. QED
      BY <1>7, <2>1, <2>3, <3>2
  <2>4. CASE ~ (i <= k)
    <3>1. PICK j \in 1 .. m : j = i - k
      BY <1>4, <2>4
    <3>2. pos[b] + k + j - 1 = pos[t]
      BY <1>2, <2>1, <3>1
    <3>3. pos[b] + k <= pos[t] /\ pos[t] < pos[b] + e
      BY <1>2, <2>1, <2>4
    <3>4. Unvisited(b, t)
      BY <1>3, <1>4, <3>3 DEF Unvisited
    <3>5. rest[j] = t
      BY <1>5, <1>6, <3>2, <3>4 DEF ContentInv
    <3>. QED
      BY <1>7, <2>1, <2>4, <3>1, <3>5
  <2>. QED
    BY <2>3, <2>4
<1>10. taken[b] \o rest = [i \in 1 .. e |-> (taken[b] \o rest)[i]]
  BY <1>7
<1>11. InOrder(b) = [i \in 1 .. e |-> InOrder(b)[i]]
  BY <1>8
<1>. QED
  BY <1>9, <1>10, <1>11 DEF rest

(***************************************************************************)
(* A bounded batch gets all the tasks pushed between its opening and its   *)
(* bounding, once each and in the order of the pushes, although its cells  *)
(* are only protected through the region it starts in: for every buffer    *)
(* size whose regions their counters can count, and for as_slices without  *)
(* any limit on the number of tasks.  The iterators are covered until the  *)
(* index wraps.                                                            *)
(***************************************************************************)
THEOREM BatchesAreIntact ==
  ASSUME RegionFits, ViewsAreSafe
  PROVE  Spec => []BatchesIntact
<1>1. Spec => []BInv
  BY BatchInvariance
<1>. QED
  BY <1>1, BInvIntact, PTL

=============================================================================
