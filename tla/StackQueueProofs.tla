-------------------------- MODULE StackQueueProofs --------------------------
(***************************************************************************)
(* Proofs about StackQueue for every buffer size, every number of tasks    *)
(* and every interleaving: its type invariant and, as long as the counter  *)
(* of a region can count the region's cells, the inductive invariant IInv  *)
(* with what follows from it.                                              *)
(***************************************************************************)
EXTENDS StackQueue, RegionArithmetic, FiniteSetTheorems, TLAPS

-----------------------------------------------------------------------------
(* The layout                                                              *)

LEMMA LayoutFacts == N \in Nat \ {0}
BY LayoutAssumption DEF N

\* Masking an index gives a cell.
LEMMA SlotIndexType ==
  ASSUME NEW i \in Nat
  PROVE  slot_index(i) \in Cells
BY LayoutFacts, DivMod DEF slot_index, Cells

\* A cell lies in one of the regions.
LEMMA RegionType ==
  ASSUME NEW c \in Cells
  PROVE  current_region(c) \in Regions
<1>. DEFINE rs == RegionSize
<1>1. rs \in Nat \ {0} /\ REGION_COUNT \in Nat \ {0}
  BY LayoutAssumption
<1>2. c \in Nat /\ c < rs * REGION_COUNT
  BY <1>1 DEF Cells, N
<1>3. c \div rs < REGION_COUNT
  BY <1>1, <1>2, DivBelow
<1>4. c \div rs \in Nat
  BY <1>1, <1>2, DivMod
<1>. QED
  BY <1>1, <1>3, <1>4 DEF current_region, Regions

\* Adding to and subtracting from the word give a word.
LEMMA ShiftedTypes ==
  ASSUME NEW word \in Words, NEW r \in Regions
  PROVE  AddShifted(word, r) \in Words /\ SubShifted(word, r) \in Words
<1>1. \A i \in Regions : word[i] \in Int /\ word[i] \in 0 .. REGION_MASK
  BY LayoutAssumption DEF Words
<1>2. \A x \in Int : x % (REGION_MASK + 1) \in 0 .. REGION_MASK
  BY LayoutAssumption
<1>3. \A i \in Regions : /\ (word[i] + 1) % (REGION_MASK + 1) \in 0 .. REGION_MASK
                         /\ (word[i] - 1) % (REGION_MASK + 1) \in 0 .. REGION_MASK
  BY <1>1, <1>2
<1>. QED
  BY <1>1, <1>3 DEF AddShifted, SubShifted, Words

\* Both views of a range visit cells of the buffer.
LEMMA CellsOfType ==
  ASSUME NEW view, NEW first \in Indexes, NEW end \in Indexes
  PROVE  CellsOf(view, first, end) \in Seq(Cells)
<1>1. first \in Nat /\ end \in Nat
  BY DEF Indexes
<1>2. BufferIterCells(first, end) \in Seq(Cells)
  <2>. DEFINE len == IF first < end THEN end - first ELSE 0
  <2>1. len \in Nat
    BY <1>1
  <2>2. \A i \in 1 .. len : slot_index(first + i - 1) \in Cells
    BY <1>1, <2>1, SlotIndexType
  <2>. QED
    BY <2>1, <2>2 DEF BufferIterCells
<1>3. as_slices(first, end) \in Seq(Cells)
  <2>. DEFINE s == slot_index(first)
              e == slot_index(end)
  <2>1. s \in 0 .. (N - 1) /\ e \in 0 .. (N - 1) /\ N \in Nat
    BY <1>1, SlotIndexType, LayoutFacts DEF Cells
  <2>. HIDE DEF s, e
  <2>2. CASE e > s
    <3>1. [i \in 1 .. (e - s) |-> s + i - 1] \in Seq(Cells)
      BY <2>1, <2>2 DEF Cells
    <3>. QED
      BY <2>2, <3>1 DEF as_slices, s, e
  <2>3. CASE ~ (e > s)
    <3>. DEFINE f == [i \in 1 .. (N - s + e) |-> IF i <= N - s THEN s + i - 1
                                                            ELSE i - (N - s) - 1]
    <3>1. f \in Seq(Cells)
      BY <2>1, <2>3 DEF Cells
    <3>. QED
      BY <2>3, <3>1 DEF as_slices, s, e
  <2>. QED
    BY <2>2, <2>3
<1>. QED
  BY <1>2, <1>3 DEF CellsOf

-----------------------------------------------------------------------------
(* Stale loads                                                             *)

(***************************************************************************)
(* The load of check_regional_occupancy may return an old version of the   *)
(* word.  All that the proofs need of it is that no region shows fewer     *)
(* batches than it has, so they are carried out for every such load; what  *)
(* PushCheck reads is one of them.                                         *)
(***************************************************************************)
NotBelow(word) == word \in Words /\ \A r \in Regions : word[r] >= occupancy[r]

StaleCheck(t) == \E word : NotBelow(word) /\ PushLoads(t, word)

StaleNext == Next \/ \E t \in Tasks : StaleCheck(t)

LEMMA CheckIsStale ==
  ASSUME TypeOK, NEW t \in Tasks, PushCheck(t)
  PROVE  StaleCheck(t)
<1>1. \A r \in Regions : occupancy[r] >= occupancy[r]
  BY LayoutAssumption DEF TypeOK, Words
<1>. QED
  BY <1>1 DEF StaleCheck, NotBelow, PushCheck, TypeOK

-----------------------------------------------------------------------------
(* Type correctness                                                        *)

LEMMA InitTypeOK == Init => TypeOK
<1>. SUFFICES ASSUME Init PROVE TypeOK
  OBVIOUS
<1>1. 0 \in Indexes /\ 0 \in Cells /\ 0 \in 0 .. REGION_MASK /\ 0 \in 0 .. RegionSize
  BY LayoutAssumption, LayoutFacts DEF Indexes, Cells
<1>2. slot \in Slots /\ localSlot \in Slots
  BY <1>1 DEF Init, Slots
<1>. QED
  BY <1>1, <1>2, TasksAssumption DEF Init, TypeOK, Words

LEMMA NextTypeOK == TypeOK /\ [StaleNext]_vars => TypeOK'
<1>. SUFFICES ASSUME TypeOK, [StaleNext]_vars PROVE TypeOK'
  OBVIOUS
<1>. USE TasksAssumption
<1>1. ASSUME NEW t \in Tasks, NEW word, NotBelow(word), PushLoads(t, word)
      PROVE  TypeOK'
  <2>1. slot_index(localSlot.index) \in Cells
    BY SlotIndexType DEF TypeOK, Slots, Indexes
  <2>2. localOccupancy' \in Words /\ pc' \in {"write", "full"}
    BY <1>1 DEF PushLoads, check_regional_occupancy, TypeOK, NotBelow
  <2>. QED
    BY <1>1, <2>1, <2>2 DEF PushLoads, TypeOK, sharedVars, handleVars, historyVars
<1>2. CASE RegisterWaker
  BY <1>2 DEF RegisterWaker, TypeOK, futureVars, handleVars, historyVars
<1>3. CASE PushWrite
  BY <1>3 DEF PushWrite, TypeOK, futureVars, handleVars, historyVars
<1>4. CASE PushClaim
  <2>1. (slot.index + 1) % IndexLimit \in Indexes /\ slot.index \in Indexes
    <3>1. slot.index \in Indexes
      BY DEF TypeOK, Slots
    <3>2. slot.index + 1 \in Nat
      BY <3>1 DEF Indexes
    <3>3. IndexLimit \in Nat \ {0}
      BY LayoutAssumption
    <3>. QED
      BY <3>1, <3>2, <3>3, DivMod DEF Indexes
  <2>2. slot' \in Slots /\ localSlot' \in Slots
    BY <1>4, <2>1 DEF PushClaim, TypeOK, Slots
  <2>3. current \in Tasks /\ pushed' \in Nat /\ pushed \in Nat
    BY <1>4 DEF PushClaim, TypeOK
  <2>4. CASE slot.phase = localSlot.phase
    BY <1>4, <2>2, <2>3, <2>4 DEF PushClaim, TypeOK
  <2>5. CASE slot.phase # localSlot.phase
    BY <1>4, <2>1, <2>2, <2>3, <2>5 DEF PushClaim, TypeOK
  <2>. QED
    BY <2>4, <2>5
<1>5. CASE OccupyRegion
  <2>1. AddShifted(occupancy, current_region(writeIndex)) \in Words
    BY RegionType, ShiftedTypes DEF TypeOK
  <2>. QED
    BY <1>5, <2>1 DEF OccupyRegion, occupy_region, TypeOK, futureVars, historyVars
<1>6. ASSUME NEW t \in Tasks, Cancel(t) PROVE TypeOK'
  BY <1>6 DEF Cancel, TypeOK, sharedVars, ownerVars, handleVars, historyVars
<1>7. ASSUME NEW b \in Tasks, NEW view \in Views, SetBounds(b, view) PROVE TypeOK'
  <2>1. slot' \in Slots
    <3>1. slot \in Slots /\ 1 - slot.phase \in {0, 1}
      BY DEF TypeOK, Slots
    <3>. QED
      BY <1>7, <3>1 DEF SetBounds, FlipPhase, Slots
  <2>2. CellsOf(view, base[b], slot.index) \in Seq(Cells)
    BY CellsOfType DEF TypeOK, Slots
  <2>. QED
    BY <1>7, <2>1, <2>2 DEF SetBounds, TypeOK, ownerVars, futureVars, historyVars
<1>8. ASSUME NEW b \in Tasks, VisitCell(b) PROVE TypeOK'
  <2>1. todo[b] \in Seq(Cells) /\ todo[b] # << >>
    BY <1>8 DEF VisitCell, TypeOK
  <2>2. Head(todo[b]) \in Cells /\ Tail(todo[b]) \in Seq(Cells)
    BY <2>1
  <2>3. taken' \in [Tasks -> Seq(Tasks \cup {NONE})]
    <3>1. PICK e \in Tasks \cup {NONE} : e = buffer[Head(todo[b])]
      BY <2>2 DEF TypeOK
    <3>2. PICK s \in Seq(Tasks \cup {NONE}) : s = taken[b]
      BY DEF TypeOK
    <3>3. Append(s, e) \in Seq(Tasks \cup {NONE})
      OBVIOUS
    <3>4. taken' = [taken EXCEPT ![b] = Append(s, e)]
      BY <1>8, <3>1, <3>2 DEF VisitCell
    <3>. QED
      BY <3>3, <3>4 DEF TypeOK
  <2>. QED
    BY <1>8, <2>2, <2>3 DEF VisitCell, TypeOK, ownerVars, futureVars
<1>9. ASSUME NEW b \in Tasks, DeoccupyRegion(b) PROVE TypeOK'
  <2>1. current_region(slot_index(base[b])) \in Regions
    BY SlotIndexType, RegionType DEF TypeOK, Indexes
  <2>2. occupancy' \in Words
    BY <1>9, <2>1, ShiftedTypes DEF DeoccupyRegion, TypeOK
  <2>3. 0 .. RegionSize # {} /\ RegionSize \in 0 .. RegionSize
    BY LayoutAssumption
  <2>4. CASE LastOccupant(current_region(slot_index(base[b])))
    BY <1>9, <2>2, <2>3, <2>4
    DEF DeoccupyRegion, TypeOK, ownerVars, futureVars, historyVars
  <2>5. CASE ~ LastOccupant(current_region(slot_index(base[b])))
    BY <1>9, <2>2, <2>5
    DEF DeoccupyRegion, TypeOK, ownerVars, futureVars, historyVars
  <2>. QED
    BY <2>4, <2>5
<1>10. ASSUME NEW b \in Tasks, WakeNext(b) PROVE TypeOK'
  <2>1. Head(pending) \in Tasks /\ Tail(pending) \in Seq(Tasks)
    BY <1>10 DEF WakeNext, TypeOK
  <2>2. wakeLimit[b] - 1 \in 0 .. RegionSize
    <3>1. wakeLimit[b] \in 0 .. RegionSize
      BY DEF TypeOK
    <3>2. wakeLimit[b] > 0 /\ RegionSize \in Nat
      BY <1>10, LayoutAssumption DEF WakeNext
    <3>. QED
      BY <3>1, <3>2
  <2>. QED
    BY <1>10, <2>1, <2>2 DEF WakeNext, TypeOK, ownerVars, historyVars
<1>11. ASSUME NEW b \in Tasks, WakeDone(b) PROVE TypeOK'
  <2>1. wakeLimit' \in [Tasks -> 0 .. RegionSize]
    BY <1>11, LayoutAssumption DEF WakeDone, TypeOK
  <2>. QED
    BY <1>11, <2>1 DEF WakeDone, TypeOK, sharedVars, ownerVars, futureVars, historyVars
<1>12. CASE UNCHANGED vars
  BY <1>12
  DEF vars, sharedVars, ownerVars, futureVars, handleVars, historyVars, TypeOK
<1>. QED
  BY <1>1, <1>2, <1>3, <1>4, <1>5, <1>6, <1>7, <1>8, <1>9, <1>10, <1>11, <1>12, CheckIsStale
  DEF StaleNext, StaleCheck, Next, OwnerStep, ConsumerStep

(***************************************************************************)
(* Every reachable state is well typed: in particular writeIndex and what  *)
(* a consumer has still to visit are cells of the buffer (the code indexes *)
(* with get_unchecked), and the occupancy word stays a word.               *)
(***************************************************************************)
THEOREM TypeCorrect == Spec => []TypeOK
<1>1. TypeOK /\ [Next]_vars => TypeOK'
  BY NextTypeOK DEF StaleNext
<1>. QED
  BY <1>1, InitTypeOK, PTL DEF Spec

-----------------------------------------------------------------------------
(* Positions, cells and regions                                            *)

\* Masking a wrapped index finds the cell of the position behind it.
LEMMA CellOfPosition ==
  ASSUME NEW p \in Nat
  PROVE  slot_index(p % IndexLimit) = p % N /\ slot_index(p) = p % N
<1>1. N \in Nat \ {0} /\ IndexLimit \in Nat \ {0} /\ IndexLimit % N = 0
  BY LayoutFacts, LayoutAssumption
<1>2. PICK k \in Nat : IndexLimit = N * k + 0
  BY <1>1, DivMod
<1>3. k \in Nat \ {0} /\ IndexLimit = k * N
  BY <1>1, <1>2
<1>4. (p % (k * N)) % N = p % N
  <2>1. PICK n \in Nat \ {0}, j \in Nat \ {0} : n = N /\ j = k
    BY <1>1, <1>3
  <2>2. (p % (j * n)) % n = p % n
    BY ModOfMod
  <2>. QED
    BY <2>1, <2>2
<1>. QED
  BY <1>3, <1>4 DEF slot_index

\* The region of a position's cell is its global region, round the buffer.
LEMMA RegionOfPosition ==
  ASSUME NEW p \in Nat
  PROVE  /\ GlobalRegion(p) \in Nat
         /\ current_region(p % N) = GlobalRegion(p) % REGION_COUNT
         /\ AtCheckpoint(p % N) <=> p % RegionSize = 0
<1>1. RegionSize \in Nat \ {0} /\ REGION_COUNT \in Nat \ {0}
  BY LayoutAssumption
<1>2. p \div RegionSize \in Nat
  BY <1>1, DivMod
<1>. QED
  BY <1>1, <1>2, RegionOfCell DEF GlobalRegion, current_region, AtCheckpoint, N

\* A position is below the start of a region exactly if its region is.
LEMMA BelowRegion ==
  ASSUME NEW p \in Nat, NEW g \in Nat
  PROVE  GlobalRegion(p) < g <=> p < RegionSize * g
BY LayoutAssumption, DivBelow DEF GlobalRegion

\* One turn of the buffer, counted in regions and in cells.
LEMMA OneTurn ==
  ASSUME NEW g \in Nat
  PROVE  RegionSize * (g + REGION_COUNT) = RegionSize * g + N
<1>1. RegionSize \in Nat /\ REGION_COUNT \in Nat
  BY LayoutAssumption
<1>2. RegionSize * (g + REGION_COUNT) = RegionSize * g + RegionSize * REGION_COUNT
  BY <1>1
<1>3. RegionSize * REGION_COUNT = REGION_COUNT * RegionSize
  BY <1>1
<1>. QED
  BY <1>2, <1>3 DEF N

\* The positions of a region are RegionSize many, from its start on.
LEMMA RegionSpan ==
  ASSUME NEW p \in Nat
  PROVE  p \in (RegionSize * GlobalRegion(p)) .. (RegionSize * GlobalRegion(p) + RegionSize - 1)
<1>1. RegionSize \in Nat \ {0}
  BY LayoutAssumption
<1>2. PICK q \in Nat, o \in 0 .. (RegionSize - 1) :
        q = GlobalRegion(p) /\ p = RegionSize * q + o
  BY <1>1, DivMod DEF GlobalRegion
<1>3. PICK z \in Nat : z = RegionSize * q
  BY <1>1
<1>4. p \in z .. (z + RegionSize - 1)
  BY <1>1, <1>2, <1>3
<1>. QED
  BY <1>2, <1>3, <1>4

\* Without a carry, one_shifted is added to its own region only.
LEMMA AddPlain ==
  ASSUME NEW word \in Words, NEW r \in Regions, word[r] < REGION_MASK
  PROVE  AddShifted(word, r) = [word EXCEPT ![r] = @ + 1]
<1>1. REGION_MASK \in Nat /\ REGION_COUNT \in Nat
  BY LayoutAssumption
<1>2. (word[r] + 1) % (REGION_MASK + 1) = word[r] + 1
  <2>1. PICK a \in 0 .. REGION_MASK, m \in Nat \ {0} :
          a = word[r] + 1 /\ m = REGION_MASK + 1
    BY <1>1 DEF Words
  <2>2. a \in 0 .. (m - 1)
    BY <1>1, <2>1
  <2>3. a % m = a
    BY <2>2, SmallMod
  <2>. QED
    BY <2>1, <2>3
<1>3. \A i \in Regions : i > r => r \in r .. (i - 1)
  BY <1>1 DEF Regions
<1>4. \A j \in r .. (r - 1) : FALSE
  BY <1>1 DEF Regions
<1>5. \A i \in Regions : i # r => (~ (i >= r) \/ i > r)
  BY <1>1 DEF Regions
<1>6. r >= r
  BY <1>1 DEF Regions
<1>7. word[r] # REGION_MASK
  BY <1>1 DEF Words
<1>8. DOMAIN word = Regions
  BY DEF Words
<1>. QED
  BY <1>2, <1>3, <1>4, <1>5, <1>6, <1>7, <1>8 DEF AddShifted

\* Without a borrow, it is subtracted from its own region only.
LEMMA SubPlain ==
  ASSUME NEW word \in Words, NEW r \in Regions, word[r] >= 1
  PROVE  SubShifted(word, r) = [word EXCEPT ![r] = @ - 1]
<1>1. REGION_MASK \in Nat /\ REGION_COUNT \in Nat
  BY LayoutAssumption
<1>2. (word[r] - 1) % (REGION_MASK + 1) = word[r] - 1
  <2>1. PICK a \in 0 .. REGION_MASK, m \in Nat \ {0} :
          a = word[r] - 1 /\ m = REGION_MASK + 1
    BY <1>1 DEF Words
  <2>2. a \in 0 .. (m - 1)
    BY <1>1, <2>1
  <2>3. a % m = a
    BY <2>2, SmallMod
  <2>. QED
    BY <2>1, <2>3
<1>3. \A i \in Regions : i > r => r \in r .. (i - 1)
  BY <1>1 DEF Regions
<1>4. \A j \in r .. (r - 1) : FALSE
  BY <1>1 DEF Regions
<1>5. \A i \in Regions : i # r => (~ (i >= r) \/ i > r)
  BY <1>1 DEF Regions
<1>6. r >= r
  BY <1>1 DEF Regions
<1>7. word[r] # 0
  BY <1>1 DEF Words
<1>8. DOMAIN word = Regions
  BY DEF Words
<1>. QED
  BY <1>2, <1>3, <1>4, <1>5, <1>6, <1>7, <1>8 DEF SubShifted

-----------------------------------------------------------------------------
(* What IInv says of the regions                                           *)

\* A handle's region is the global region of its position, round the buffer.
LEMMA RegionOfHandle ==
  ASSUME TypeOK, PositionsInv, NEW b \in Tasks, handle[b] # "none"
  PROVE  /\ pos[b] \in Nat
         /\ GlobalRegion(pos[b]) \in Nat
         /\ RegionOf(b) = GlobalRegion(pos[b]) % REGION_COUNT
         /\ RegionOf(b) \in Regions
<1>1. pos[b] \in Nat /\ base[b] = pos[b] % IndexLimit
  BY DEF TypeOK, PositionsInv
<1>2. slot_index(base[b]) = pos[b] % N
  BY <1>1, CellOfPosition
<1>3. base[b] \in Nat
  BY DEF TypeOK, Indexes
<1>4. RegionOf(b) \in Regions
  BY <1>3, SlotIndexType, RegionType DEF RegionOf
<1>. QED
  BY <1>1, <1>2, <1>4, RegionOfPosition DEF RegionOf

\* In every state the owner is at most at the end of the turn.
LEMMA TurnBound ==
  ASSUME TypeOK, PositionsInv, NEW b \in Tasks, handle[b] # "none", InWindow(b)
  PROVE  pushed <= RegionSize * (GlobalRegion(pos[b]) + REGION_COUNT)
<1>1. GlobalRegion(pos[b]) \in Nat /\ REGION_COUNT \in Nat /\ RegionSize \in Nat
  BY RegionOfHandle, LayoutAssumption
<1>2. PICK g \in Nat : g = GlobalRegion(pos[b]) + REGION_COUNT
  BY <1>1
<1>3. pushed \in Nat
  BY DEF TypeOK
<1>4. CASE pc \in {"write", "claim"}
  <2>1. GlobalRegion(pushed) < g
    BY <1>2, <1>4 DEF InWindow
  <2>2. pushed < RegionSize * g
    BY <1>3, <2>1, BelowRegion
  <2>3. RegionSize * g \in Nat
    BY <1>1
  <2>. QED
    BY <1>2, <1>3, <2>2, <2>3
<1>5. CASE pc \notin {"write", "claim"}
  BY <1>5 DEF InWindow
<1>. QED
  BY <1>4, <1>5

LEMMA WindowBound ==
  ASSUME TypeOK, PositionsInv, WindowInv, NEW b \in Tasks, Live(b)
  PROVE  /\ handle[b] # "none"
         /\ pushed <= RegionSize * (GlobalRegion(pos[b]) + REGION_COUNT)
<1>1. handle[b] # "none" /\ InWindow(b)
  BY DEF Live, WindowInv
<1>. QED
  BY <1>1, TurnBound

\* Live batches of one region are of the same turn of the buffer.
LEMMA SameTurn ==
  ASSUME TypeOK, PositionsInv, WindowInv,
         NEW b \in Tasks, NEW c \in Tasks, Live(b), Live(c),
         RegionOf(b) = RegionOf(c)
  PROVE  GlobalRegion(pos[b]) = GlobalRegion(pos[c])
<1>1. REGION_COUNT \in Nat \ {0} /\ RegionSize \in Nat /\ pushed \in Nat
  BY LayoutAssumption DEF TypeOK
<1>2. PICK x \in Nat, y \in Nat : x = GlobalRegion(pos[b]) /\ y = GlobalRegion(pos[c])
  BY WindowBound, RegionOfHandle
<1>3. pos[b] \in Nat /\ pos[c] \in Nat /\ pos[b] < pushed /\ pos[c] < pushed
  BY WindowBound, RegionOfHandle DEF PositionsInv
<1>4. y < x + REGION_COUNT
  <2>1. PICK g \in Nat : g = x + REGION_COUNT
    BY <1>1
  <2>2. pushed <= RegionSize * g
    BY <1>2, <2>1, WindowBound
  <2>3. pos[c] < RegionSize * g
    BY <1>1, <1>3, <2>2
  <2>. QED
    BY <1>2, <1>3, <2>1, <2>3, BelowRegion
<1>5. x < y + REGION_COUNT
  <2>1. PICK g \in Nat : g = y + REGION_COUNT
    BY <1>1
  <2>2. pushed <= RegionSize * g
    BY <1>2, <2>1, WindowBound
  <2>3. pos[b] < RegionSize * g
    BY <1>1, <1>3, <2>2
  <2>. QED
    BY <1>2, <1>3, <2>1, <2>3, BelowRegion
<1>6. x % REGION_COUNT = y % REGION_COUNT
  BY <1>2, WindowBound, RegionOfHandle
<1>7. ~ (x < y)
  <2>. SUFFICES ASSUME x < y PROVE FALSE
    OBVIOUS
  <2>1. y - x < REGION_COUNT
    BY <1>1, <1>4
  <2>. QED
    BY <1>1, <1>6, <2>1, DistinctMod
<1>8. ~ (y < x)
  <2>. SUFFICES ASSUME y < x PROVE FALSE
    OBVIOUS
  <2>1. x - y < REGION_COUNT
    BY <1>1, <1>5
  <2>. QED
    BY <1>1, <1>6, <2>1, DistinctMod
<1>. QED
  BY <1>2, <1>7, <1>8

\* The batches of a region are finitely many.
LEMMA OccupiedFinite ==
  ASSUME NEW r
  PROVE  /\ OccupiedIn(r) \subseteq Tasks
         /\ IsFiniteSet(OccupiedIn(r))
         /\ Cardinality(OccupiedIn(r)) \in Nat
<1>1. OccupiedIn(r) \subseteq Tasks
  BY DEF OccupiedIn
<1>2. IsFiniteSet(OccupiedIn(r))
  BY <1>1, TasksAssumption, FS_Subset
<1>. QED
  BY <1>1, <1>2, FS_CardinalityType

(***************************************************************************)
(* The batch that is about to be counted finds room in the counter of its  *)
(* region: it and the batches counted there start in distinct cells of one *)
(* turn of the region.                                                     *)
(***************************************************************************)
LEMMA RoomInRegion ==
  ASSUME RegionFits, IInv, pc = "occupy"
  PROVE  occupancy[RegionOf(current)] < REGION_MASK
<1>. DEFINE r == RegionOf(current)
            S == OccupiedIn(r) \cup {current}
            g == GlobalRegion(pos[current])
            T == (RegionSize * g) .. (RegionSize * g + RegionSize - 1)
            f == [b \in S |-> pos[b]]
<1>1. current \in Tasks /\ handle[current] = "claimed" /\ Live(current)
  BY DEF IInv, TypeOK, OwnerInv, Live
<1>2. r \in Regions /\ g \in Nat
  BY <1>1, RegionOfHandle DEF IInv
<1>3. RegionSize \in Nat \ {0} /\ REGION_MASK \in Nat /\ RegionSize <= REGION_MASK
  BY LayoutAssumption DEF RegionFits
<1>4. current \notin OccupiedIn(r)
  BY <1>1 DEF OccupiedIn, Occupied
<1>5. /\ IsFiniteSet(S) /\ S \subseteq Tasks
      /\ Cardinality(S) = Cardinality(OccupiedIn(r)) + 1
  BY <1>1, <1>4, OccupiedFinite, FS_AddElement
<1>6. IsFiniteSet(T) /\ Cardinality(T) = RegionSize
  <2>1. PICK z \in Nat : z = RegionSize * g
    BY <1>2, <1>3
  <2>2. z \in Int /\ z + RegionSize - 1 \in Int /\ ~ (z > z + RegionSize - 1)
    BY <1>3
  <2>3. /\ IsFiniteSet(z .. (z + RegionSize - 1))
        /\ Cardinality(z .. (z + RegionSize - 1)) = (z + RegionSize - 1) - z + 1
    BY <2>2, FS_Interval
  <2>4. (z + RegionSize - 1) - z + 1 = RegionSize
    BY <1>3
  <2>. QED
    BY <2>1, <2>3, <2>4
<1>7. \A b \in S : b \in Tasks /\ Live(b) /\ RegionOf(b) = RegionOf(current)
  BY <1>1, <1>5 DEF OccupiedIn, Occupied, Live
<1>8. f \in [S -> T]
  <2>. SUFFICES ASSUME NEW b \in S PROVE pos[b] \in T
    OBVIOUS
  <2>1. GlobalRegion(pos[b]) = g
    BY <1>1, <1>7, SameTurn DEF IInv
  <2>2. pos[b] \in Nat
    BY <1>7, WindowBound, RegionOfHandle DEF IInv
  <2>. QED
    BY <2>1, <2>2, RegionSpan
<1>9. \A x, y \in S : f[x] = f[y] => x = y
  <2>. SUFFICES ASSUME NEW x \in S, NEW y \in S, pos[x] = pos[y] PROVE x = y
    OBVIOUS
  <2>1. pos[x] \in Nat
    BY <1>7, WindowBound, RegionOfHandle DEF IInv
  <2>. QED
    BY <1>7, <2>1 DEF IInv, PositionsInv
<1>10. ~ (Cardinality(T) < Cardinality(S))
  <2>. HIDE DEF S, T, f
  <2>. QED
    BY <1>5, <1>6, <1>8, <1>9, FS_PigeonHole
<1>11. occupancy[r] = Cardinality(OccupiedIn(r)) /\ Cardinality(OccupiedIn(r)) \in Nat
  BY <1>2, OccupiedFinite DEF IInv, CountInv
<1>. QED
  BY <1>3, <1>5, <1>6, <1>10, <1>11

\* A region in which the counter shows nothing holds no occupied batch.
LEMMA FreeRegion ==
  ASSUME CountInv, NEW r \in Regions
  PROVE  occupancy[r] = 0 <=> OccupiedIn(r) = {}
BY OccupiedFinite, FS_EmptySet DEF CountInv

-----------------------------------------------------------------------------
(* IInv is inductive: one lemma per conjunct, one step per action          *)

LEMMA InitIInv == Init => IInv
<1>. SUFFICES ASSUME Init PROVE IInv
  OBVIOUS
<1>1. TypeOK
  BY InitTypeOK
<1>2. PositionsInv
  <2>1. 0 % IndexLimit = 0
    BY LayoutAssumption, SmallMod
  <2>2. pushed = 0 /\ slot.index = 0 /\ localSlot.index = 0
    BY DEF Init
  <2>3. slot.index = pushed % IndexLimit /\ localSlot.index = slot.index
    BY <2>1, <2>2
  <2>4. \A t \in Tasks : pos[t] = -1 /\ handle[t] = "none"
    BY DEF Init
  <2>. QED
    BY <2>2, <2>3, <2>4 DEF PositionsInv
<1>3. OwnerInv
  BY DEF Init, OwnerInv
<1>4. CountInv
  <2>. SUFFICES ASSUME NEW r \in Regions
                PROVE  occupancy[r] = Cardinality(OccupiedIn(r)) /\ localOccupancy[r] >= occupancy[r]
    BY DEF CountInv
  <2>1. OccupiedIn(r) = {}
    BY DEF Init, OccupiedIn, Occupied
  <2>2. occupancy[r] = 0 /\ localOccupancy[r] = 0
    BY DEF Init
  <2>. QED
    BY <2>1, <2>2, FS_EmptySet
<1>5. WindowInv
  BY DEF Init, WindowInv, Live
<1>. QED
  BY <1>1, <1>2, <1>3, <1>4, <1>5 DEF IInv

LEMMA PositionsStep == IInv /\ [StaleNext]_vars => PositionsInv'
<1>. SUFFICES ASSUME IInv, [StaleNext]_vars PROVE PositionsInv'
  OBVIOUS
<1>. USE DEF IInv
<1>1. ASSUME NEW t \in Tasks, NEW word, NotBelow(word), PushLoads(t, word)
      PROVE  PositionsInv'
  BY <1>1 DEF PushLoads, PositionsInv, sharedVars, handleVars, historyVars
<1>2. CASE RegisterWaker
  BY <1>2 DEF RegisterWaker, PositionsInv, futureVars, handleVars, historyVars
<1>3. CASE PushWrite
  BY <1>3 DEF PushWrite, PositionsInv, futureVars, handleVars, historyVars
<1>4. CASE PushClaim
  <2>1. /\ current \in Tasks /\ future[current] = "unbatched"
        /\ pos[current] = -1 /\ handle[current] = "none"
    BY <1>4 DEF PushClaim, TypeOK, OwnerInv, PositionsInv
  <2>2. pushed \in Nat /\ pushed' = pushed + 1 /\ IndexLimit \in Nat \ {0}
    BY <1>4, LayoutAssumption DEF PushClaim, TypeOK
  <2>3. slot.index = pushed % IndexLimit
    BY DEF PositionsInv
  <2>4. (slot.index + 1) % IndexLimit = pushed' % IndexLimit
    BY <2>2, <2>3, ModSucc
  <2>5. slot'.index = pushed' % IndexLimit /\ localSlot'.index = slot'.index
    BY <1>4, <2>4 DEF PushClaim, TypeOK, Slots
  <2>6. /\ pos' = [pos EXCEPT ![current] = pushed]
        /\ future' = [future EXCEPT ![current] = "batched"]
    BY <1>4 DEF PushClaim
  <2>7. \A t \in Tasks : pos[t] \in Nat \cup {-1} /\ pos[t] < pushed
    BY DEF TypeOK, PositionsInv
  <2>8. \A t \in Tasks : pos'[t] = IF t = current THEN pushed ELSE pos[t]
    BY <2>6 DEF TypeOK
  <2>9. \A t \in Tasks : pos'[t] < pushed'
    BY <2>2, <2>7, <2>8
  <2>10. \A t, u \in Tasks : pos'[t] = pos'[u] /\ pos'[t] # -1 => t = u
    BY <2>2, <2>7, <2>8 DEF PositionsInv
  <2>11. \A t \in Tasks : handle'[t] # "none" =>
           pos'[t] # -1 /\ base'[t] = pos'[t] % IndexLimit
    <3>1. CASE slot.phase = localSlot.phase
      <4>1. handle' = handle /\ base' = base
        BY <1>4, <3>1 DEF PushClaim
      <4>. QED
        BY <4>1, <2>1, <2>8 DEF PositionsInv
    <3>2. CASE slot.phase # localSlot.phase
      <4>1. /\ handle' = [handle EXCEPT ![current] = "claimed"]
            /\ base' = [base EXCEPT ![current] = slot.index]
        BY <1>4, <3>2 DEF PushClaim
      <4>2. base'[current] = pushed % IndexLimit /\ pos'[current] = pushed /\ pushed # -1
        BY <4>1, <2>1, <2>2, <2>3, <2>8 DEF TypeOK
      <4>3. ASSUME NEW t \in Tasks, t # current
            PROVE  handle'[t] = handle[t] /\ base'[t] = base[t] /\ pos'[t] = pos[t]
        BY <4>1, <4>3, <2>8 DEF TypeOK
      <4>. QED
        BY <4>2, <4>3 DEF PositionsInv
    <3>. QED
      BY <3>1, <3>2
  <2>12. \A t \in Tasks : future'[t] = "unbatched" => pos'[t] = -1 /\ handle'[t] = "none"
    <3>. SUFFICES ASSUME NEW t \in Tasks, future'[t] = "unbatched"
                  PROVE  pos'[t] = -1 /\ handle'[t] = "none"
      OBVIOUS
    <3>1. t # current /\ future[t] = "unbatched"
      BY <2>1, <2>6 DEF TypeOK
    <3>2. handle'[t] = handle[t]
      BY <1>4, <3>1 DEF PushClaim, TypeOK
    <3>. QED
      BY <3>1, <3>2, <2>8 DEF PositionsInv
  <2>. QED
    BY <2>5, <2>9, <2>10, <2>11, <2>12 DEF PositionsInv
<1>5. CASE OccupyRegion
  <2>1. current \in Tasks /\ handle[current] = "claimed"
    BY <1>5 DEF OccupyRegion, TypeOK, OwnerInv
  <2>2. \A t \in Tasks : handle'[t] = "none" <=> handle[t] = "none"
    BY <1>5, <2>1 DEF OccupyRegion, TypeOK
  <2>. QED
    BY <1>5, <2>2 DEF OccupyRegion, PositionsInv, futureVars, historyVars
<1>6. ASSUME NEW t \in Tasks, Cancel(t) PROVE PositionsInv'
  <2>1. \A u \in Tasks : future'[u] = "unbatched" => future[u] = "unbatched"
    BY <1>6 DEF Cancel, TypeOK
  <2>. QED
    BY <1>6, <2>1 DEF Cancel, PositionsInv, sharedVars, ownerVars, handleVars, historyVars
<1>7. ASSUME NEW b \in Tasks, NEW view \in Views, SetBounds(b, view) PROVE PositionsInv'
  <2>1. slot'.index = slot.index
    BY <1>7 DEF SetBounds, FlipPhase, TypeOK, Slots
  <2>2. \A t \in Tasks : handle'[t] = "none" <=> handle[t] = "none"
    BY <1>7 DEF SetBounds, TypeOK
  <2>. QED
    BY <1>7, <2>1, <2>2 DEF SetBounds, PositionsInv, ownerVars, futureVars, historyVars
<1>8. ASSUME NEW b \in Tasks, VisitCell(b) PROVE PositionsInv'
  BY <1>8 DEF VisitCell, PositionsInv, ownerVars, futureVars
<1>9. ASSUME NEW b \in Tasks, DeoccupyRegion(b) PROVE PositionsInv'
  <2>1. \A t \in Tasks : handle'[t] = "none" <=> handle[t] = "none"
    BY <1>9 DEF DeoccupyRegion, TypeOK
  <2>. QED
    BY <1>9, <2>1 DEF DeoccupyRegion, PositionsInv, ownerVars, futureVars, historyVars
<1>10. ASSUME NEW b \in Tasks, WakeNext(b) PROVE PositionsInv'
  BY <1>10 DEF WakeNext, PositionsInv, ownerVars, historyVars
<1>11. ASSUME NEW b \in Tasks, WakeDone(b) PROVE PositionsInv'
  <2>1. \A t \in Tasks : handle'[t] = "none" <=> handle[t] = "none"
    BY <1>11 DEF WakeDone, TypeOK
  <2>. QED
    BY <1>11, <2>1
    DEF WakeDone, PositionsInv, sharedVars, ownerVars, futureVars, historyVars
<1>12. CASE UNCHANGED vars
  BY <1>12
  DEF vars, sharedVars, ownerVars, futureVars, handleVars, historyVars, PositionsInv
<1>. QED
  BY <1>1, <1>2, <1>3, <1>4, <1>5, <1>6, <1>7, <1>8, <1>9, <1>10, <1>11, <1>12, CheckIsStale
  DEF StaleNext, StaleCheck, Next, OwnerStep, ConsumerStep

LEMMA OwnerStepInv == IInv /\ [StaleNext]_vars => OwnerInv'
<1>. SUFFICES ASSUME IInv, [StaleNext]_vars PROVE OwnerInv'
  OBVIOUS
<1>. USE DEF IInv
<1>1. ASSUME NEW t \in Tasks, NEW word, NotBelow(word), PushLoads(t, word)
      PROVE  OwnerInv'
  <2>1. slot_index(localSlot.index) = pushed % N
    BY CellOfPosition DEF TypeOK, PositionsInv
  <2>2. pc' \in {"write", "full"}
    BY <1>1 DEF PushLoads, check_regional_occupancy
  <2>3. \A b \in Tasks : handle[b] # "claimed"
    BY <1>1 DEF PushLoads, OwnerInv
  <2>. QED
    BY <1>1, <2>1, <2>2, <2>3 DEF PushLoads, OwnerInv, handleVars, historyVars
<1>2. CASE RegisterWaker
  BY <1>2 DEF RegisterWaker, OwnerInv, handleVars
<1>3. CASE PushWrite
  BY <1>3 DEF PushWrite, OwnerInv, futureVars, handleVars, historyVars
<1>4. CASE PushClaim
  <2>1. current \in Tasks /\ \A b \in Tasks : handle[b] # "claimed"
    BY <1>4 DEF PushClaim, TypeOK, OwnerInv
  <2>2. writeIndex = slot_index(slot.index)
    BY <1>4, CellOfPosition DEF PushClaim, TypeOK, PositionsInv, OwnerInv
  <2>3. CASE slot.phase = localSlot.phase
    BY <1>4, <2>1, <2>3 DEF PushClaim, OwnerInv
  <2>4. CASE slot.phase # localSlot.phase
    <3>1. pc' = "occupy" /\ current' = current /\ writeIndex' = writeIndex
      BY <1>4, <2>4 DEF PushClaim
    <3>2. handle'[current] = "claimed" /\ base'[current] = slot.index
      BY <1>4, <2>1, <2>4 DEF PushClaim, TypeOK
    <3>3. \A b \in Tasks : b # current => handle'[b] = handle[b]
      BY <1>4, <2>4 DEF PushClaim, TypeOK
    <3>. QED
      BY <2>1, <2>2, <3>1, <3>2, <3>3 DEF OwnerInv
  <2>. QED
    BY <2>3, <2>4
<1>5. CASE OccupyRegion
  BY <1>5 DEF OccupyRegion, TypeOK, OwnerInv
<1>6. ASSUME NEW t \in Tasks, Cancel(t) PROVE OwnerInv'
  BY <1>6 DEF Cancel, TypeOK, OwnerInv, ownerVars, handleVars, historyVars
<1>7. ASSUME NEW b \in Tasks, NEW view \in Views, SetBounds(b, view) PROVE OwnerInv'
  BY <1>7 DEF SetBounds, TypeOK, OwnerInv, ownerVars, futureVars, historyVars
<1>8. ASSUME NEW b \in Tasks, VisitCell(b) PROVE OwnerInv'
  BY <1>8 DEF VisitCell, OwnerInv, ownerVars, futureVars
<1>9. ASSUME NEW b \in Tasks, DeoccupyRegion(b) PROVE OwnerInv'
  BY <1>9 DEF DeoccupyRegion, TypeOK, OwnerInv, ownerVars, futureVars, historyVars
<1>10. ASSUME NEW b \in Tasks, WakeNext(b) PROVE OwnerInv'
  BY <1>10 DEF WakeNext, OwnerInv, ownerVars, historyVars
<1>11. ASSUME NEW b \in Tasks, WakeDone(b) PROVE OwnerInv'
  BY <1>11 DEF WakeDone, TypeOK, OwnerInv, ownerVars, futureVars, historyVars
<1>12. CASE UNCHANGED vars
  BY <1>12 DEF vars, ownerVars, futureVars, handleVars, historyVars, OwnerInv
<1>. QED
  BY <1>1, <1>2, <1>3, <1>4, <1>5, <1>6, <1>7, <1>8, <1>9, <1>10, <1>11, <1>12, CheckIsStale
  DEF StaleNext, StaleCheck, Next, OwnerStep, ConsumerStep

\* A step that changes neither the word nor what counts as occupied.
LEMMA CountFrame ==
  ASSUME TypeOK, CountInv, occupancy' = occupancy,
         localOccupancy' = localOccupancy \/ NotBelow(localOccupancy'),
         \A b \in Tasks : Occupied(b)' <=> Occupied(b),
         \A b \in Tasks : Occupied(b) => base'[b] = base[b]
  PROVE  CountInv'
<1>. SUFFICES ASSUME NEW r \in Regions
              PROVE  /\ occupancy'[r] = Cardinality(OccupiedIn(r)')
                     /\ localOccupancy'[r] >= occupancy'[r]
  BY DEF CountInv
<1>1. OccupiedIn(r)' = OccupiedIn(r)
  BY DEF OccupiedIn, RegionOf
<1>2. occupancy[r] \in Int
  BY LayoutAssumption DEF TypeOK, Words
<1>. QED
  BY <1>1, <1>2 DEF CountInv, NotBelow

LEMMA CountStep == RegionFits /\ IInv /\ [StaleNext]_vars => CountInv'
<1>. SUFFICES ASSUME RegionFits, IInv, [StaleNext]_vars PROVE CountInv'
  OBVIOUS
<1>. USE DEF IInv
<1>1. ASSUME NEW t \in Tasks, NEW word, NotBelow(word), PushLoads(t, word)
      PROVE  CountInv'
  <2>1. localOccupancy' = localOccupancy \/ NotBelow(localOccupancy')
    BY <1>1 DEF PushLoads, check_regional_occupancy
  <2>. QED
    BY <1>1, <2>1, CountFrame DEF PushLoads, Occupied, sharedVars, handleVars
<1>2. CASE RegisterWaker
  BY <1>2, CountFrame DEF RegisterWaker, Occupied, handleVars
<1>3. CASE PushWrite
  BY <1>3, CountFrame DEF PushWrite, Occupied, handleVars
<1>4. CASE PushClaim
  <2>1. current \in Tasks /\ handle[current] = "none"
    BY <1>4 DEF PushClaim, TypeOK, OwnerInv, PositionsInv
  <2>2. /\ \A b \in Tasks : Occupied(b)' <=> Occupied(b)
        /\ \A b \in Tasks : Occupied(b) => base'[b] = base[b]
    <3>1. CASE slot.phase = localSlot.phase
      BY <1>4, <3>1 DEF PushClaim, Occupied
    <3>2. CASE slot.phase # localSlot.phase
      BY <1>4, <2>1, <3>2 DEF PushClaim, TypeOK, Occupied
    <3>. QED
      BY <3>1, <3>2
  <2>. QED
    BY <1>4, <2>2, CountFrame DEF PushClaim
<1>5. CASE OccupyRegion
  <2>. DEFINE r == RegionOf(current)
  <2>1. current \in Tasks /\ handle[current] = "claimed" /\ pc = "occupy"
    BY <1>5 DEF OccupyRegion, TypeOK, OwnerInv
  <2>2. r = current_region(writeIndex) /\ r \in Regions
    BY <2>1, RegionOfHandle DEF OwnerInv, RegionOf
  <2>3. occupancy[r] < REGION_MASK
    BY <2>1, RoomInRegion
  <2>4. AddShifted(occupancy, r) = [occupancy EXCEPT ![r] = @ + 1]
    BY <2>2, <2>3, AddPlain DEF TypeOK
  <2>5. occupancy' = [occupancy EXCEPT ![r] = @ + 1] /\ localOccupancy' = occupancy'
    BY <1>5, <2>2, <2>4 DEF OccupyRegion, occupy_region
  <2>6. handle' = [handle EXCEPT ![current] = "unbounded"] /\ base' = base
    BY <1>5 DEF OccupyRegion
  <2>7. current \notin OccupiedIn(r)
    BY <2>1 DEF OccupiedIn, Occupied
  <2>8. ASSUME NEW q \in Regions
        PROVE  occupancy'[q] = Cardinality(OccupiedIn(q)')
    <3>1. CASE q = r
      <4>1. OccupiedIn(q)' = OccupiedIn(q) \cup {current}
        BY <2>1, <2>6, <3>1 DEF OccupiedIn, Occupied, RegionOf, TypeOK
      <4>2. Cardinality(OccupiedIn(q)') = Cardinality(OccupiedIn(q)) + 1
        BY <2>7, <3>1, <4>1, OccupiedFinite, FS_AddElement
      <4>. QED
        BY <2>2, <2>5, <3>1, <4>2 DEF CountInv, TypeOK, Words
    <3>2. CASE q # r
      <4>1. OccupiedIn(q)' = OccupiedIn(q)
        BY <2>1, <2>6, <3>2 DEF OccupiedIn, Occupied, RegionOf, TypeOK
      <4>. QED
        BY <2>5, <3>2, <4>1 DEF CountInv, TypeOK, Words
    <3>. QED
      BY <3>1, <3>2
  <2>9. \A q \in Regions : occupancy'[q] \in Int
    <3>1. occupancy' \in Words
      BY NextTypeOK DEF TypeOK
    <3>. QED
      BY <3>1, LayoutAssumption DEF Words
  <2>10. \A q \in Regions : localOccupancy'[q] >= occupancy'[q]
    BY <2>5, <2>9
  <2>. QED
    BY <2>8, <2>10 DEF CountInv
<1>6. ASSUME NEW t \in Tasks, Cancel(t) PROVE CountInv'
  BY <1>6, CountFrame DEF Cancel, Occupied, sharedVars, ownerVars, handleVars
<1>7. ASSUME NEW b \in Tasks, NEW view \in Views, SetBounds(b, view) PROVE CountInv'
  <2>1. \A c \in Tasks : Occupied(c)' <=> Occupied(c)
    BY <1>7 DEF SetBounds, TypeOK, Occupied
  <2>. QED
    BY <1>7, <2>1, CountFrame DEF SetBounds, ownerVars
<1>8. ASSUME NEW b \in Tasks, VisitCell(b) PROVE CountInv'
  BY <1>8, CountFrame DEF VisitCell, Occupied, ownerVars
<1>9. ASSUME NEW b \in Tasks, DeoccupyRegion(b) PROVE CountInv'
  <2>. DEFINE r == RegionOf(b)
  <2>1. handle[b] = "bounded" /\ r \in Regions
    BY <1>9, RegionOfHandle DEF DeoccupyRegion
  <2>2. b \in OccupiedIn(r)
    BY <2>1 DEF OccupiedIn, Occupied
  <2>3. occupancy[r] \in Nat /\ occupancy[r] >= 1
    BY <2>1, <2>2, FreeRegion, OccupiedFinite DEF CountInv
  <2>4. SubShifted(occupancy, r) = [occupancy EXCEPT ![r] = @ - 1]
    BY <2>1, <2>3, SubPlain DEF TypeOK
  <2>5. occupancy' = [occupancy EXCEPT ![r] = @ - 1]
    BY <1>9, <2>4 DEF DeoccupyRegion, RegionOf
  <2>6. /\ base' = base /\ localOccupancy' = localOccupancy
        /\ handle'[b] \in {"waking", "released"}
        /\ \A c \in Tasks : c # b => handle'[c] = handle[c]
    BY <1>9 DEF DeoccupyRegion, TypeOK, ownerVars
  <2>7. ASSUME NEW q \in Regions
        PROVE  /\ occupancy'[q] = Cardinality(OccupiedIn(q)')
               /\ localOccupancy'[q] >= occupancy'[q]
    <3>0. /\ occupancy[q] \in Int /\ localOccupancy'[q] \in Int
          /\ localOccupancy'[q] >= occupancy[q]
      BY <2>6, LayoutAssumption DEF TypeOK, CountInv, Words
    <3>1. CASE q = r
      <4>1. OccupiedIn(q)' = OccupiedIn(q) \ {b}
        BY <2>6, <3>1 DEF OccupiedIn, Occupied, RegionOf
      <4>2. Cardinality(OccupiedIn(q)') = Cardinality(OccupiedIn(q)) - 1
        BY <2>2, <3>1, <4>1, OccupiedFinite, FS_RemoveElement
      <4>3. occupancy'[q] = occupancy[q] - 1
        BY <2>1, <2>5, <3>1 DEF TypeOK, Words
      <4>. QED
        BY <3>0, <4>2, <4>3 DEF CountInv
    <3>2. CASE q # r
      <4>1. OccupiedIn(q)' = OccupiedIn(q)
        BY <2>6, <3>2 DEF OccupiedIn, Occupied, RegionOf
      <4>2. occupancy'[q] = occupancy[q]
        BY <2>5, <3>2 DEF TypeOK, Words
      <4>. QED
        BY <3>0, <4>1, <4>2 DEF CountInv
    <3>. QED
      BY <3>1, <3>2
  <2>. QED
    BY <2>7 DEF CountInv
<1>10. ASSUME NEW b \in Tasks, WakeNext(b) PROVE CountInv'
  BY <1>10, CountFrame DEF WakeNext, Occupied, ownerVars
<1>11. ASSUME NEW b \in Tasks, WakeDone(b) PROVE CountInv'
  <2>1. \A c \in Tasks : Occupied(c)' <=> Occupied(c)
    BY <1>11 DEF WakeDone, TypeOK, Occupied
  <2>. QED
    BY <1>11, <2>1, CountFrame DEF WakeDone, sharedVars, ownerVars
<1>12. CASE UNCHANGED vars
  BY <1>12, CountFrame DEF vars, sharedVars, ownerVars, handleVars, Occupied
<1>. QED
  BY <1>1, <1>2, <1>3, <1>4, <1>5, <1>6, <1>7, <1>8, <1>9, <1>10, <1>11, <1>12, CheckIsStale
  DEF StaleNext, StaleCheck, Next, OwnerStep, ConsumerStep

\* A step that neither admits a push nor claims a slot moves no window.
LEMMA TurnFrame ==
  ASSUME TypeOK, PositionsInv, pushed' = pushed, pos' = pos,
         pc' = pc \/ pc' \notin {"write", "claim"} \/ (pc = "write" /\ pc' = "claim"),
         NEW b \in Tasks, handle[b] # "none", InWindow(b)
  PROVE  InWindow(b)'
<1>1. pushed <= RegionSize * (GlobalRegion(pos[b]) + REGION_COUNT)
  BY TurnBound
<1>. QED
  BY <1>1 DEF InWindow, GlobalRegion

LEMMA WindowFrame ==
  ASSUME TypeOK, PositionsInv, WindowInv, pushed' = pushed, pos' = pos,
         pc' = pc \/ pc' \notin {"write", "claim"} \/ (pc = "write" /\ pc' = "claim"),
         \A b \in Tasks : Live(b)' => Live(b)
  PROVE  WindowInv'
<1>. SUFFICES ASSUME NEW b \in Tasks, Live(b)' PROVE InWindow(b)'
  BY DEF WindowInv
<1>1. handle[b] # "none" /\ InWindow(b)
  BY DEF Live, WindowInv
<1>. QED
  BY <1>1, TurnFrame

(***************************************************************************)
(* The admission of a push is where the occupancy word does its work: at   *)
(* the first cell of a region the counter has been seen at zero, so that   *)
(* no live batch started there a turn ago; at any other cell the owner is  *)
(* inside a region that it was admitted to before.                         *)
(***************************************************************************)
LEMMA AdmissionAt ==
  ASSUME IInv, NEW t \in Tasks, NEW word, PushLoads(t, word), pc' = "write",
         NEW b \in Tasks, handle[b] # "none", InWindow(b),
         localOccupancy[RegionOf(b)] # 0,
         Loads(slot_index(localSlot.index)) => word[RegionOf(b)] # 0
  PROVE  GlobalRegion(pushed) < GlobalRegion(pos[b]) + REGION_COUNT
<1>. USE DEF IInv
<1>. DEFINE w == slot_index(localSlot.index)
<1>1. /\ REGION_COUNT \in Nat \ {0} /\ RegionSize \in Nat \ {0} /\ pushed \in Nat
  BY LayoutAssumption DEF TypeOK
<1>2. w = pushed % N
  BY CellOfPosition DEF TypeOK, PositionsInv
<1>3. PICK h \in Nat : h = GlobalRegion(pos[b]) /\ RegionOf(b) = h % REGION_COUNT
  BY <1>1, RegionOfHandle
<1>4. PICK g \in Nat : g = h + REGION_COUNT
  BY <1>1
<1>5. pushed <= RegionSize * g
  BY <1>3, <1>4, TurnBound
<1>6. PICK z \in Nat : z = RegionSize * g
  BY <1>1
<1>7. pushed # z
  <2>. SUFFICES ASSUME pushed = RegionSize * g PROVE FALSE
    BY <1>6
  <2>1. pushed % RegionSize = 0 /\ GlobalRegion(pushed) = g
    <3>1. pushed = RegionSize * g + 0 /\ 0 \in 0 .. (RegionSize - 1)
      BY <1>1, <1>6
    <3>. QED
      BY <1>1, <3>1, DivModUnique DEF GlobalRegion
  <2>2. AtCheckpoint(w) /\ current_region(w) = g % REGION_COUNT
    BY <1>1, <1>2, <2>1, RegionOfPosition
  <2>3. (h + REGION_COUNT) % REGION_COUNT = h % REGION_COUNT
    BY <1>1, ModPlusPeriod
  <2>4. current_region(w) = RegionOf(b) /\ RegionOf(b) \in Regions
    BY <1>1, <1>3, <1>4, <2>2, <2>3, RegionOfHandle
  <2>5. pc' = "full"
    BY <2>2, <2>4 DEF PushLoads, check_regional_occupancy, Loads, RegionIsFree, region_mask
  <2>. QED
    BY <2>5
<1>8. pushed < RegionSize * g
  BY <1>1, <1>5, <1>6, <1>7
<1>. QED
  BY <1>1, <1>3, <1>4, <1>8, BelowRegion

\* A live batch is counted in every word that can be loaded.
LEMMA Admission ==
  ASSUME IInv, NEW t \in Tasks, NEW word, NotBelow(word), PushLoads(t, word), pc' = "write",
         NEW b \in Tasks, Live(b)
  PROVE  GlobalRegion(pushed) < GlobalRegion(pos[b]) + REGION_COUNT
<1>. USE DEF IInv
<1>1. handle[b] # "none" /\ InWindow(b)
  BY DEF Live, WindowInv
<1>2. Occupied(b)
  BY DEF PushLoads, OwnerInv, Live, Occupied
<1>3. RegionOf(b) \in Regions
  BY <1>1, RegionOfHandle
<1>4. occupancy[RegionOf(b)] # 0
  BY <1>2, <1>3, FreeRegion DEF OccupiedIn
<1>5. localOccupancy[RegionOf(b)] # 0 /\ word[RegionOf(b)] # 0
  BY <1>3, <1>4, OccupiedFinite DEF CountInv, NotBelow
<1>. QED
  BY <1>1, <1>5, AdmissionAt

\* A claim ends the push it was admitted for, at most at the end of the turn.
LEMMA TurnClaim ==
  ASSUME IInv, PushClaim, NEW b \in Tasks, NEW h \in Nat,
         h = GlobalRegion(pos'[b]), GlobalRegion(pushed) < h + REGION_COUNT
  PROVE  InWindow(b)'
<1>1. pushed \in Nat /\ pushed' = pushed + 1 /\ RegionSize \in Nat /\ REGION_COUNT \in Nat \ {0}
  BY LayoutAssumption DEF PushClaim, IInv, TypeOK
<1>2. pc' \notin {"write", "claim"}
  BY DEF PushClaim
<1>3. PICK g \in Nat : g = h + REGION_COUNT
  BY <1>1
<1>4. pushed < RegionSize * g
  BY <1>1, <1>3, BelowRegion
<1>5. PICK z \in Nat : z = RegionSize * g
  BY <1>1
<1>6. pushed' <= RegionSize * g
  BY <1>1, <1>4, <1>5
<1>. QED
  BY <1>2, <1>3, <1>6 DEF InWindow, GlobalRegion

LEMMA TurnKept ==
  ASSUME IInv, PushClaim, NEW b \in Tasks, handle[b] # "none", InWindow(b)
  PROVE  InWindow(b)'
<1>1. pos'[b] = pos[b] /\ pc = "claim"
  BY DEF PushClaim, IInv, TypeOK, OwnerInv, PositionsInv
<1>2. GlobalRegion(pos[b]) \in Nat
  BY RegionOfHandle DEF IInv
<1>3. GlobalRegion(pushed) < GlobalRegion(pos[b]) + REGION_COUNT
  BY <1>1 DEF InWindow
<1>. QED
  BY <1>1, <1>2, <1>3, TurnClaim

LEMMA WindowStep == IInv /\ [StaleNext]_vars => WindowInv'
<1>. SUFFICES ASSUME IInv, [StaleNext]_vars PROVE WindowInv'
  OBVIOUS
<1>. USE DEF IInv
<1>1. ASSUME NEW t \in Tasks, NEW word, NotBelow(word), PushLoads(t, word)
      PROVE  WindowInv'
  <2>1. pc' \in {"write", "full"} /\ handle' = handle /\ pushed' = pushed /\ pos' = pos
    BY <1>1 DEF PushLoads, check_regional_occupancy, handleVars, historyVars
  <2>2. CASE pc' = "full"
    BY <2>1, <2>2, WindowFrame DEF Live
  <2>3. CASE pc' = "write"
    <3>1. \A b \in Tasks : Live(b) =>
            GlobalRegion(pushed) < GlobalRegion(pos[b]) + REGION_COUNT
      BY <1>1, <2>3, Admission
    <3>. QED
      BY <2>1, <2>3, <3>1 DEF WindowInv, InWindow, Live, GlobalRegion
  <2>. QED
    BY <2>1, <2>2, <2>3
<1>2. CASE RegisterWaker
  BY <1>2, WindowFrame DEF RegisterWaker, Live, handleVars, historyVars
<1>3. CASE PushWrite
  BY <1>3, WindowFrame DEF PushWrite, Live, handleVars, historyVars
<1>4. CASE PushClaim
  <2>1. current \in Tasks /\ handle[current] = "none" /\ pc = "claim"
    BY <1>4 DEF PushClaim, TypeOK, OwnerInv, PositionsInv
  <2>2. ASSUME NEW b \in Tasks, Live(b)' PROVE InWindow(b)'
    <3>1. CASE b = current
      <4>1. pos'[b] = pushed /\ pushed \in Nat /\ REGION_COUNT \in Nat \ {0}
        BY <1>4, <2>1, <3>1, LayoutAssumption DEF PushClaim, TypeOK
      <4>2. PICK h \in Nat : h = GlobalRegion(pushed)
        BY <4>1, RegionOfPosition
      <4>3. h < h + REGION_COUNT
        BY <4>1
      <4>. QED
        BY <1>4, <4>1, <4>2, <4>3, TurnClaim
    <3>2. CASE b # current
      <4>1. handle'[b] = handle[b]
        BY <1>4, <3>2 DEF PushClaim, TypeOK
      <4>2. handle[b] # "none" /\ InWindow(b)
        BY <2>2, <4>1 DEF Live, WindowInv
      <4>. QED
        BY <1>4, <4>2, TurnKept
    <3>. QED
      BY <3>1, <3>2
  <2>. QED
    BY <2>2 DEF WindowInv
<1>5. CASE OccupyRegion
  <2>1. \A b \in Tasks : Live(b)' => Live(b)
    BY <1>5 DEF OccupyRegion, TypeOK, OwnerInv, Live
  <2>. QED
    BY <1>5, <2>1, WindowFrame DEF OccupyRegion, historyVars
<1>6. ASSUME NEW t \in Tasks, Cancel(t) PROVE WindowInv'
  BY <1>6, WindowFrame DEF Cancel, Live, ownerVars, handleVars, historyVars
<1>7. ASSUME NEW b \in Tasks, NEW view \in Views, SetBounds(b, view) PROVE WindowInv'
  <2>1. \A c \in Tasks : Live(c)' => Live(c)
    BY <1>7 DEF SetBounds, TypeOK, Live
  <2>. QED
    BY <1>7, <2>1, WindowFrame DEF SetBounds, ownerVars, historyVars
<1>8. ASSUME NEW b \in Tasks, VisitCell(b) PROVE WindowInv'
  BY <1>8, WindowFrame DEF VisitCell, Live, ownerVars
<1>9. ASSUME NEW b \in Tasks, DeoccupyRegion(b) PROVE WindowInv'
  <2>1. \A c \in Tasks : Live(c)' => Live(c)
    BY <1>9 DEF DeoccupyRegion, TypeOK, Live
  <2>. QED
    BY <1>9, <2>1, WindowFrame DEF DeoccupyRegion, ownerVars, historyVars
<1>10. ASSUME NEW b \in Tasks, WakeNext(b) PROVE WindowInv'
  BY <1>10, WindowFrame DEF WakeNext, Live, ownerVars, historyVars
<1>11. ASSUME NEW b \in Tasks, WakeDone(b) PROVE WindowInv'
  <2>1. \A c \in Tasks : Live(c)' => Live(c)
    BY <1>11 DEF WakeDone, TypeOK, Live
  <2>. QED
    BY <1>11, <2>1, WindowFrame DEF WakeDone, ownerVars, historyVars
<1>12. CASE UNCHANGED vars
  BY <1>12, WindowFrame DEF vars, ownerVars, handleVars, historyVars, Live
<1>. QED
  BY <1>1, <1>2, <1>3, <1>4, <1>5, <1>6, <1>7, <1>8, <1>9, <1>10, <1>11, <1>12, CheckIsStale
  DEF StaleNext, StaleCheck, Next, OwnerStep, ConsumerStep

\* Every step keeps IInv, also if the word it has loaded is stale.
LEMMA IInvStep ==
  ASSUME RegionFits, IInv, [StaleNext]_vars
  PROVE  IInv'
<1>1. TypeOK'
  BY NextTypeOK DEF IInv
<1>2. PositionsInv' /\ OwnerInv' /\ CountInv' /\ WindowInv'
  BY PositionsStep, OwnerStepInv, CountStep, WindowStep
<1>. QED
  BY <1>1, <1>2 DEF IInv

\* The tasks of a live batch lie within one turn of the buffer.
LEMMA LiveSpan ==
  ASSUME IInv, NEW b \in Tasks, Live(b)
  PROVE  pos[b] \in Nat /\ pushed \in Nat /\ pos[b] < pushed /\ pushed - pos[b] <= N
<1>. USE DEF IInv
<1>1. handle[b] # "none" /\ pos[b] \in Nat /\ GlobalRegion(pos[b]) \in Nat
  BY RegionOfHandle DEF Live
<1>2. pushed \in Nat /\ pos[b] < pushed /\ RegionSize \in Nat \ {0} /\ N \in Nat
  BY LayoutAssumption, LayoutFacts DEF TypeOK, PositionsInv
<1>3. PICK h \in Nat : h = GlobalRegion(pos[b])
  BY <1>1
<1>4. PICK z \in Nat : z = RegionSize * h
  BY <1>2
<1>5. pushed <= z + N
  BY <1>3, <1>4, WindowBound, OneTurn
<1>6. z <= pos[b]
  BY <1>1, <1>2, <1>3, <1>4, RegionSpan
<1>. QED
  BY <1>1, <1>2, <1>5, <1>6

\* While a push is under way its own position is within that turn, too.
LEMMA TurnSpan ==
  ASSUME IInv, pc \in {"write", "claim"}, NEW b \in Tasks, handle[b] # "none", InWindow(b)
  PROVE  pushed - pos[b] < N
<1>. USE DEF IInv
<1>1. pos[b] \in Nat /\ GlobalRegion(pos[b]) \in Nat
  BY RegionOfHandle
<1>2. /\ pushed \in Nat /\ RegionSize \in Nat \ {0} /\ REGION_COUNT \in Nat /\ N \in Nat
  BY LayoutAssumption, LayoutFacts DEF TypeOK
<1>3. PICK h \in Nat, g \in Nat : h = GlobalRegion(pos[b]) /\ g = h + REGION_COUNT
  BY <1>1, <1>2
<1>4. GlobalRegion(pushed) < g
  BY <1>3 DEF InWindow
<1>5. pushed < RegionSize * g
  BY <1>2, <1>4, BelowRegion
<1>6. PICK z \in Nat : z = RegionSize * h /\ RegionSize * g = z + N
  BY <1>2, <1>3, OneTurn
<1>7. z <= pos[b]
  BY <1>1, <1>2, <1>3, <1>6, RegionSpan
<1>. QED
  BY <1>1, <1>2, <1>5, <1>6, <1>7

LEMMA PushSpan ==
  ASSUME IInv, pc \in {"write", "claim"}, NEW b \in Tasks, Live(b)
  PROVE  pushed - pos[b] < N
<1>1. handle[b] # "none" /\ InWindow(b)
  BY DEF Live, IInv, WindowInv
<1>. QED
  BY <1>1, TurnSpan

-----------------------------------------------------------------------------
(* The theorems                                                            *)

(***************************************************************************)
(* IInv holds in every reachable state, provided that the counter of a     *)
(* region can count a batch in each of its cells (region_size at most 255  *)
(* on 64-bit targets): buffers of up to 1024 cells.                        *)
(***************************************************************************)
THEOREM Invariance ==
  ASSUME RegionFits
  PROVE  Spec => []IInv
<1>1. Init => IInv
  BY InitIInv
<1>2. IInv /\ [Next]_vars => IInv'
  BY IInvStep DEF StaleNext
<1>. QED
  BY <1>1, <1>2, PTL DEF Spec

\* Within one turn of a live batch no cell comes up twice.
LEMMA IInvExclusive == IInv => ExclusiveWrite
<1>. SUFFICES ASSUME IInv, pc = "write",
                     NEW b \in Tasks, Live(b), NEW t \in Members(b)
              PROVE  slot_index(pos[t]) # writeIndex
  BY DEF ExclusiveWrite
<1>. USE DEF IInv
<1>1. handle[b] # "none" /\ t \in Tasks /\ pos[t] >= pos[b] /\ pos[t] < pushed
  BY DEF Live, Members, PositionsInv
<1>2. pos[b] \in Nat /\ pushed \in Nat /\ pushed - pos[b] < N
  BY LiveSpan, PushSpan
<1>3. pos[t] \in Nat /\ N \in Nat \ {0} /\ pushed - pos[t] < N
  BY <1>1, <1>2, LayoutFacts DEF TypeOK
<1>4. pos[t] % N # pushed % N
  BY <1>1, <1>2, <1>3, DistinctMod
<1>. QED
  BY <1>3, <1>4, CellOfPosition DEF OwnerInv

(***************************************************************************)
(* No push ever writes a cell of a live batch, whatever the buffer size,   *)
(* the number of tasks and the interleaving with the consumers, although   *)
(* the occupancy is looked at once per region and may be stale.            *)
(***************************************************************************)
THEOREM WritesAreExclusive ==
  ASSUME RegionFits
  PROVE  Spec => []ExclusiveWrite
BY Invariance, IInvExclusive, PTL

LEMMA IInvNeverFree == IInv => NeverWronglyFree
<1>. SUFFICES ASSUME IInv, NEW b \in Tasks, Occupied(b)
              PROVE  localOccupancy[RegionOf(b)] # 0
  BY DEF NeverWronglyFree
<1>1. RegionOf(b) \in Regions
  BY RegionOfHandle DEF IInv, Occupied
<1>2. b \in OccupiedIn(RegionOf(b))
  BY DEF OccupiedIn
<1>3. occupancy[RegionOf(b)] # 0
  BY <1>1, <1>2, FreeRegion DEF IInv
<1>. QED
  BY <1>1, <1>3, OccupiedFinite DEF IInv, CountInv

(***************************************************************************)
(* The claim of queue.rs:409 for every buffer whose counters fit: the copy *)
(* of the occupancy that the owner keeps never shows a region free while a *)
(* batch that started there is occupied.                                   *)
(***************************************************************************)
THEOREM CacheNeverWronglyFree ==
  ASSUME RegionFits
  PROVE  Spec => []NeverWronglyFree
BY Invariance, IInvNeverFree, PTL

LEMMA RefusalStep ==
  IInv /\ [Next]_vars =>
    [pc = "idle" /\ pc' = "full" =>
       \E b \in Tasks : Occupied(b) /\ RegionOf(b) = current_region(writeIndex')]_vars
<1>. SUFFICES ASSUME IInv, [Next]_vars, pc = "idle", pc' = "full"
              PROVE  \E b \in Tasks : Occupied(b) /\ RegionOf(b) = current_region(writeIndex')
  OBVIOUS
<1>1. PICK t \in Tasks : PushCheck(t)
  BY DEF Next, OwnerStep, ConsumerStep, RegisterWaker, PushWrite, PushClaim, OccupyRegion,
         Cancel, SetBounds, VisitCell, DeoccupyRegion, WakeNext, WakeDone, vars, ownerVars
<1>2. writeIndex' = slot_index(localSlot.index)
  BY <1>1 DEF PushCheck, PushLoads
<1>3. current_region(writeIndex') \in Regions
  BY <1>2, SlotIndexType, RegionType DEF IInv, TypeOK, Slots, Indexes
<1>4. occupancy[current_region(writeIndex')] # 0
  BY <1>1, <1>2 DEF PushCheck, PushLoads, check_regional_occupancy,
     RegionIsFree, region_mask
<1>5. OccupiedIn(current_region(writeIndex')) # {}
  BY <1>3, <1>4, FreeRegion DEF IInv
<1>. QED
  BY <1>5 DEF OccupiedIn

(***************************************************************************)
(* A push is refused only while a batch that started in the region ahead   *)
(* is occupied: the counters hold no residue of batches long released.     *)
(***************************************************************************)
THEOREM RefusalsAreJustified ==
  ASSUME RegionFits
  PROVE  Spec => RefusedOnlyIfOccupied
<1>1. Spec => []IInv
  BY Invariance
<1>. QED
  BY <1>1, RefusalStep, PTL DEF Spec, RefusedOnlyIfOccupied

-----------------------------------------------------------------------------
(* The open batch                                                          *)

\* Between fetch_add and occupy_region the batch belongs to the owner.
ClaimedByOwner == pc = "occupy" => handle[current] = "claimed"

LEMMA ClaimedStep == TypeOK /\ ClaimedByOwner /\ [StaleNext]_vars => ClaimedByOwner'
<1>. SUFFICES ASSUME TypeOK, ClaimedByOwner, [StaleNext]_vars, pc' = "occupy"
              PROVE  handle'[current'] = "claimed"
  BY DEF ClaimedByOwner
<1>1. CASE PushClaim
  <2>1. slot.phase # localSlot.phase /\ current \in Tasks
    BY <1>1 DEF PushClaim, TypeOK
  <2>. QED
    BY <1>1, <2>1 DEF PushClaim, TypeOK
<1>2. ASSUME NEW b \in Tasks, ConsumerStep(b) PROVE handle'[current'] = "claimed"
  <2>1. pc = "occupy" /\ current' = current /\ current \in Tasks
    BY <1>2 DEF ConsumerStep, SetBounds, VisitCell, DeoccupyRegion, WakeNext, WakeDone,
                ownerVars, TypeOK
  <2>2. handle[current] = "claimed"
    BY <2>1 DEF ClaimedByOwner
  <2>. QED
    BY <1>2, <2>1, <2>2
    DEF ConsumerStep, SetBounds, VisitCell, DeoccupyRegion, WakeNext, WakeDone, TypeOK
<1>3. ASSUME NEW t \in Tasks, NEW word, NotBelow(word), PushLoads(t, word)
      PROVE  FALSE
  BY <1>3 DEF PushLoads, check_regional_occupancy
<1>4. CASE RegisterWaker \/ PushWrite \/ OccupyRegion
  BY <1>4 DEF RegisterWaker, PushWrite, OccupyRegion
<1>5. CASE (\E t \in Tasks : Cancel(t)) \/ UNCHANGED vars
  BY <1>5 DEF Cancel, vars, ownerVars, handleVars, ClaimedByOwner
<1>. QED
  BY <1>1, <1>2, <1>3, <1>4, <1>5, CheckIsStale DEF StaleNext, StaleCheck, Next, OwnerStep

LEMMA OpenStep == TypeOK /\ ClaimedByOwner /\ OneOpenBatch /\ [StaleNext]_vars => OneOpenBatch'
<1>. SUFFICES ASSUME TypeOK, ClaimedByOwner, OneOpenBatch, [StaleNext]_vars PROVE OneOpenBatch'
  OBVIOUS
<1>. DEFINE Open(b) == handle[b] \in {"claimed", "unbounded"}
<1>0. /\ \A b, c \in Tasks : Open(b) /\ Open(c) => b = c
      /\ localSlot.phase = slot.phase <=> \E b \in Tasks : Open(b)
  BY DEF OneOpenBatch
<1>. SUFFICES /\ \A b, c \in Tasks : Open(b)' /\ Open(c)' => b = c
              /\ localSlot'.phase = slot'.phase <=> \E b \in Tasks : Open(b)'
  BY DEF OneOpenBatch
<1>1. ASSUME NEW b \in Tasks, NEW view \in Views, SetBounds(b, view)
      PROVE  /\ \A c \in Tasks : ~ Open(c)'
             /\ localSlot'.phase # slot'.phase
  <2>1. Open(b)
    BY <1>1 DEF SetBounds
  <2>2. \A c \in Tasks : ~ Open(c)'
    BY <1>0, <1>1, <2>1 DEF SetBounds, TypeOK
  <2>3. localSlot.phase = slot.phase /\ slot.phase \in {0, 1}
    BY <1>0, <2>1 DEF TypeOK, Slots
  <2>4. slot'.phase = 1 - slot.phase /\ localSlot' = localSlot
    BY <1>1 DEF SetBounds, FlipPhase, TypeOK, Slots, ownerVars
  <2>. QED
    BY <2>2, <2>3, <2>4
<1>2. CASE PushClaim
  <2>1. current \in Tasks
    BY <1>2 DEF PushClaim, TypeOK
  <2>2. localSlot'.phase = slot.phase /\ slot'.phase = slot.phase
    BY <1>2 DEF PushClaim, TypeOK, Slots
  <2>3. CASE slot.phase = localSlot.phase
    <3>1. handle' = handle
      BY <1>2, <2>3 DEF PushClaim
    <3>. QED
      BY <1>0, <2>2, <2>3, <3>1
  <2>4. CASE slot.phase # localSlot.phase
    <3>1. handle' = [handle EXCEPT ![current] = "claimed"]
      BY <1>2, <2>4 DEF PushClaim
    <3>2. \A b \in Tasks : Open(b)' <=> b = current
      BY <1>0, <2>1, <2>4, <3>1 DEF TypeOK
    <3>. QED
      BY <2>1, <2>2, <3>2
  <2>. QED
    BY <2>3, <2>4
<1>3. ASSUME NEW b \in Tasks, VisitCell(b) \/ DeoccupyRegion(b) \/ WakeNext(b) \/ WakeDone(b)
      PROVE  /\ slot' = slot /\ localSlot' = localSlot
             /\ \A c \in Tasks : Open(c)' <=> Open(c)
  BY <1>3 DEF VisitCell, DeoccupyRegion, WakeNext, WakeDone, TypeOK, sharedVars, ownerVars
<1>4. CASE RegisterWaker \/ PushWrite \/ (\E t \in Tasks : StaleCheck(t) \/ Cancel(t))
           \/ UNCHANGED vars
  <2>1. slot' = slot /\ localSlot' = localSlot /\ handle' = handle
    BY <1>4 DEF RegisterWaker, PushWrite, StaleCheck, PushLoads, Cancel, vars, sharedVars, ownerVars,
                handleVars
  <2>. QED
    BY <1>0, <2>1
<1>5. CASE OccupyRegion
  <2>1. slot' = slot /\ localSlot' = localSlot
    BY <1>5 DEF OccupyRegion
  <2>2. \A b \in Tasks : Open(b)' <=> Open(b)
    BY <1>5 DEF OccupyRegion, ClaimedByOwner, TypeOK
  <2>. QED
    BY <1>0, <2>1, <2>2
<1>6. ASSUME NEW b \in Tasks, ConsumerStep(b)
      PROVE  /\ \A c, d \in Tasks : Open(c)' /\ Open(d)' => c = d
             /\ localSlot'.phase = slot'.phase <=> \E c \in Tasks : Open(c)'
  <2>1. CASE \E view \in Views : SetBounds(b, view)
    BY <1>1, <2>1
  <2>2. CASE VisitCell(b) \/ DeoccupyRegion(b) \/ WakeNext(b) \/ WakeDone(b)
    <3>1. /\ slot' = slot /\ localSlot' = localSlot
          /\ \A c \in Tasks : Open(c)' <=> Open(c)
      BY <1>3, <2>2
    <3>. QED
      BY <1>0, <3>1
  <2>. QED
    BY <1>6, <2>1, <2>2 DEF ConsumerStep
<1>. QED
  BY <1>2, <1>4, <1>5, <1>6, CheckIsStale DEF StaleNext, Next, OwnerStep

(***************************************************************************)
(* At most one batch is open, exactly while the owner's phase agrees with  *)
(* the shared one, even where a push and a bounding cross: with buffers of *)
(* any size, and without any assumption on the counters.                   *)
(***************************************************************************)
THEOREM BatchesOpenOneByOne == Spec => []OneOpenBatch
<1>1. Init => ClaimedByOwner /\ OneOpenBatch
  BY DEF Init, ClaimedByOwner, OneOpenBatch
<1>2. TypeOK /\ ClaimedByOwner /\ OneOpenBatch /\ [Next]_vars
        => ClaimedByOwner' /\ OneOpenBatch'
  BY ClaimedStep, OpenStep DEF StaleNext
<1>. QED
  BY <1>1, <1>2, TypeCorrect, PTL DEF Spec

=============================================================================
