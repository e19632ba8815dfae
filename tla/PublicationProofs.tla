------------------------- MODULE PublicationProofs --------------------------
(***************************************************************************)
(* Proofs about the memory orderings: whichever version of the occupancy   *)
(* the owner's loads return, it learns of every read of a cell before it   *)
(* writes the cell again.                                                  *)
(***************************************************************************)
EXTENDS Publication, BatchProofs

Over(b) == handle[b] \in {"waking", "released"}

\* The reads that the consumer of a batch has made.
ReadsOf(b) == {<<"read", taken[b][i]>> : i \in 1 .. Len(taken[b])}

(***************************************************************************)
(* The consumer knows its own reads; its fetch_sub and everything after it *)
(* teach them.  An older version, and the owner's copy, either still shows *)
(* the region of the batch as occupied or comes with the knowledge.        *)
(***************************************************************************)
KnowInv ==
  /\ \A b \in Tasks : Bounded(b) => ReadsOf(b) \subseteq knows[b]
  /\ \A b \in Tasks : Over(b) => ReadsOf(b) \subseteq Latest.teaches
  /\ \A b \in Tasks : Over(b) => \A v \in seen .. Len(versions) :
       versions[v].word[RegionOf(b)] # 0 \/ ReadsOf(b) \subseteq versions[v].teaches \cup knows[Owner]
  /\ \A b \in Tasks : Over(b) =>
       localOccupancy[RegionOf(b)] # 0 \/ ReadsOf(b) \subseteq knows[Owner]

\* Every task that was pushed belongs to a batch.
CoverInv ==
  \A t \in Tasks : pos[t] # -1 => \E b \in Tasks : handle[b] # "none" /\ t \in Members(b)

\* A batch that is over holds the owner back like a live one, until the owner
\* knows that its cells were read.
ReachInv ==
  \A b \in Tasks : Over(b) /\ ~ (ReadsOf(b) \subseteq knows[Owner]) => InWindow(b)

PubInv == BInv /\ PubTypeOK /\ NoLoadUnderstates /\ KnowInv /\ CoverInv /\ ReachInv

-----------------------------------------------------------------------------
(* The versions of the occupancy                                           *)

Records == [word : Words, teaches : SUBSET Accesses]

LEMMA VersionFacts ==
  ASSUME PubTypeOK
  PROVE  /\ Len(versions) \in Nat /\ Len(versions) >= 1
         /\ seen \in 1 .. Len(versions) /\ Latest = versions[Len(versions)]
         /\ \A v \in 1 .. Len(versions) :
              versions[v].word \in Words /\ versions[v].teaches \in SUBSET Accesses
         /\ Latest.teaches \in SUBSET Accesses /\ Latest.word = occupancy
<1>1. versions \in Seq(Records) /\ seen \in DOMAIN versions /\ Latest.word = occupancy
  BY DEF PubTypeOK, Records
<1>2. Len(versions) \in Nat /\ DOMAIN versions = 1 .. Len(versions)
  BY <1>1
<1>3. Len(versions) >= 1 /\ seen \in 1 .. Len(versions)
  BY <1>1, <1>2
<1>4. \A v \in 1 .. Len(versions) : versions[v] \in Records
  BY <1>1, <1>2
<1>5. Len(versions) \in 1 .. Len(versions)
  BY <1>2, <1>3
<1>. QED
  BY <1>1, <1>2, <1>3, <1>4, <1>5 DEF Records, Latest

\* A read-modify-write adds a version and keeps the others.
LEMMA Appended ==
  ASSUME PubTypeOK, NEW rec \in Records, versions' = Append(versions, rec)
  PROVE  /\ versions' \in Seq(Records) /\ Len(versions') = Len(versions) + 1
         /\ \A v \in 1 .. Len(versions) : versions'[v] = versions[v]
         /\ versions'[Len(versions) + 1] = rec /\ Latest' = rec
<1>1. versions \in Seq(Records)
  BY DEF PubTypeOK, Records
<1>2. /\ versions' \in Seq(Records) /\ Len(versions') = Len(versions) + 1
      /\ \A v \in 1 .. Len(versions) : versions'[v] = versions[v]
      /\ versions'[Len(versions) + 1] = rec
  BY <1>1
<1>. QED
  BY <1>2 DEF Latest

\* Publication takes the steps of StackQueue, with loads that may be stale.
LEMMA PubStale ==
  ASSUME PubTypeOK, NoLoadUnderstates, [PubNext]_pubVars
  PROVE  [StaleNext]_vars
<1>1. ASSUME NEW t \in Tasks, Check(t) PROVE StaleNext
  <2>1. CASE Loads(slot_index(localSlot.index))
    <3>1. PICK v \in seen .. Len(versions) : PushLoads(t, versions[v].word)
      BY <1>1, <2>1 DEF Check
    <3>2. v \in 1 .. Len(versions)
      BY VersionFacts
    <3>3. NotBelow(versions[v].word)
      BY <3>2, VersionFacts DEF NotBelow, NoLoadUnderstates
    <3>. QED
      BY <3>1, <3>3 DEF StaleNext, StaleCheck
  <2>2. CASE ~ Loads(slot_index(localSlot.index))
    BY <1>1, <2>2 DEF Check, StaleNext, Next, OwnerStep
  <2>. QED
    BY <2>1, <2>2
<1>2. CASE Park \/ Write \/ Claim \/ Occupy
  BY <1>2 DEF Park, Write, Claim, Occupy, StaleNext, Next, OwnerStep
<1>3. ASSUME NEW b \in Tasks, Bound(b) \/ Read(b) \/ Deoccupy(b) \/ Wake(b) PROVE StaleNext
  BY <1>3 DEF Bound, Read, Deoccupy, Wake, StaleNext, Next, ConsumerStep
<1>4. CASE UNCHANGED pubVars
  BY <1>4 DEF pubVars
<1>. QED
  BY <1>1, <1>2, <1>3, <1>4 DEF PubNext

-----------------------------------------------------------------------------
(* What happens to a batch that is over                                    *)

LEMMA OverStep ==
  ASSUME BInv, [StaleNext]_vars, NEW b \in Tasks, Over(b)'
  PROVE  /\ ReadsOf(b)' = ReadsOf(b) /\ RegionOf(b)' = RegionOf(b)
         /\ Over(b) \/ DeoccupyRegion(b)
<1>. USE DEF BInv
<1>0. TypeOK
  BY DEF IInv
<1>1. CASE Quiet
  BY <1>1 DEF Quiet, Over, ReadsOf, RegionOf
<1>2. CASE PushWrite
  BY <1>2 DEF PushWrite, Over, ReadsOf, RegionOf, handleVars, historyVars
<1>3. CASE PushClaim
  <2>1. taken' = taken /\ b # current /\ handle'[b] = handle[b]
    BY <1>3, ClaimEffect DEF Over
  <2>2. base'[b] = base[b]
    BY <1>0, <1>3, <2>1 DEF PushClaim, TypeOK
  <2>. QED
    BY <2>1, <2>2 DEF Over, ReadsOf, RegionOf
<1>4. CASE OccupyRegion
  <2>1. handle' = [handle EXCEPT ![current] = "unbounded"] /\ UNCHANGED <<base, taken>>
    BY <1>4 DEF OccupyRegion, historyVars
  <2>. QED
    BY <1>0, <2>1 DEF TypeOK, Over, ReadsOf, RegionOf
<1>5. ASSUME NEW c \in Tasks, NEW view \in Views, SetBounds(c, view)
      PROVE  ReadsOf(b)' = ReadsOf(b) /\ RegionOf(b)' = RegionOf(b) /\ Over(b)
  <2>1. handle' = [handle EXCEPT ![c] = "bounded"] /\ UNCHANGED <<base, taken>>
    BY <1>5 DEF SetBounds, historyVars
  <2>. QED
    BY <1>0, <2>1 DEF TypeOK, Over, ReadsOf, RegionOf
<1>6. ASSUME NEW c \in Tasks, VisitCell(c)
      PROVE  ReadsOf(b)' = ReadsOf(b) /\ RegionOf(b)' = RegionOf(b) /\ Over(b)
  <2>1. handle' = handle /\ base' = base /\ handle[c] = "bounded"
    BY <1>6 DEF VisitCell
  <2>2. b # c
    BY <2>1 DEF Over
  <2>3. taken'[b] = taken[b]
    BY <1>0, <1>6, <2>2 DEF VisitCell, TypeOK
  <2>. QED
    BY <2>1, <2>3 DEF Over, ReadsOf, RegionOf
<1>7. ASSUME NEW c \in Tasks, DeoccupyRegion(c) \/ WakeDone(c)
      PROVE  /\ ReadsOf(b)' = ReadsOf(b) /\ RegionOf(b)' = RegionOf(b)
             /\ Over(b) \/ DeoccupyRegion(b)
  <2>1. /\ UNCHANGED <<base, taken>> /\ \A d \in Tasks : d # c => handle'[d] = handle[d]
        /\ DeoccupyRegion(c) \/ handle[c] = "waking"
    BY <1>0, <1>7 DEF DeoccupyRegion, WakeDone, TypeOK, historyVars
  <2>. QED
    BY <2>1 DEF Over, ReadsOf, RegionOf
<1>. QED
  BY <1>0, <1>1, <1>2, <1>3, <1>4, <1>5, <1>6, <1>7, Effects

\* Nobody forgets.
LEMMA KnowsGrow ==
  ASSUME PubTypeOK, [PubNext]_pubVars, NEW th \in Threads
  PROVE  knows[th] \subseteq knows'[th]
<1>1. DOMAIN knows = Threads
  BY DEF PubTypeOK
<1>2. ASSUME NEW t \in Tasks, Check(t) PROVE knows[th] \subseteq knows'[th]
  BY <1>1, <1>2 DEF Check, Load, memoryVars
<1>3. CASE Park \/ Claim
  BY <1>3 DEF Park, Claim, memoryVars
<1>4. CASE Write
  BY <1>1, <1>4 DEF Write
<1>5. CASE Occupy
  BY <1>1, <1>5 DEF Occupy, FetchAdd
<1>6. ASSUME NEW b \in Tasks, Bound(b) \/ Wake(b) PROVE knows[th] \subseteq knows'[th]
  BY <1>6 DEF Bound, Wake, memoryVars
<1>7. ASSUME NEW b \in Tasks, Read(b) \/ Deoccupy(b) PROVE knows[th] \subseteq knows'[th]
  BY <1>1, <1>7 DEF Read, Deoccupy, FetchSub
<1>8. CASE UNCHANGED pubVars
  BY <1>8 DEF pubVars, memoryVars
<1>. QED
  BY <1>2, <1>3, <1>4, <1>5, <1>6, <1>7, <1>8 DEF PubNext

-----------------------------------------------------------------------------
(* PubInv is inductive                                                     *)

\* The version that a read-modify-write leaves behind.
LEMMA NewRecord ==
  ASSUME PubTypeOK, TypeOK', NEW th \in Threads
  PROVE  [word |-> occupancy', teaches |-> Latest.teaches \cup knows[th]] \in Records
<1>1. occupancy' \in Words /\ knows[th] \in SUBSET Accesses /\ Latest.teaches \in SUBSET Accesses
  BY VersionFacts DEF PubTypeOK, TypeOK
<1>. QED
  BY <1>1 DEF Records

\* The steps that leave the occupancy alone, and its versions too.
LEMMA SameVersions ==
  ASSUME [PubNext]_pubVars, ~ Occupy, \A b \in Tasks : ~ Deoccupy(b)
  PROVE  occupancy' = occupancy /\ versions' = versions
<1>1. ASSUME NEW t \in Tasks, Check(t) PROVE occupancy' = occupancy /\ versions' = versions
  BY <1>1 DEF Check, PushCheck, PushLoads, Load, memoryVars, sharedVars
<1>2. CASE Park \/ Write \/ Claim
  BY <1>2 DEF Park, Write, Claim, RegisterWaker, PushWrite, PushClaim, memoryVars
<1>3. ASSUME NEW b \in Tasks, Bound(b) \/ Read(b) \/ Wake(b)
      PROVE  occupancy' = occupancy /\ versions' = versions
  BY <1>3 DEF Bound, Read, Wake, SetBounds, VisitCell, WakeNext, WakeDone, memoryVars, sharedVars
<1>4. CASE UNCHANGED pubVars
  BY <1>4 DEF pubVars, vars, memoryVars, sharedVars
<1>. QED
  BY <1>1, <1>2, <1>3, <1>4 DEF PubNext

LEMMA KnowsType ==
  ASSUME BInv, PubTypeOK, [PubNext]_pubVars
  PROVE  knows' \in [Threads -> SUBSET Accesses]
<1>0. /\ knows \in [Threads -> SUBSET Accesses] /\ Owner \in Threads
      /\ Tasks \subseteq Threads /\ Latest.teaches \in SUBSET Accesses
  BY VersionFacts DEF PubTypeOK, Threads
<1>1. ASSUME NEW t \in Tasks, Check(t) PROVE knows' \in [Threads -> SUBSET Accesses]
  <2>1. CASE Loads(slot_index(localSlot.index))
    <3>1. PICK v \in seen .. Len(versions) : Load(v)
      BY <1>1, <2>1 DEF Check
    <3>2. v \in 1 .. Len(versions)
      BY VersionFacts
    <3>3. versions[v].teaches \in SUBSET Accesses
      BY <3>2, VersionFacts
    <3>. QED
      BY <1>0, <3>1, <3>3 DEF Load
  <2>2. CASE ~ Loads(slot_index(localSlot.index))
    BY <1>0, <1>1, <2>2 DEF Check, memoryVars
  <2>. QED
    BY <2>1, <2>2
<1>2. CASE Park \/ Claim
  BY <1>0, <1>2 DEF Park, Claim, memoryVars
<1>3. CASE Write
  <2>1. current \in Tasks
    BY <1>3 DEF Write, PushWrite, BInv, IInv, TypeOK
  <2>2. <<"write", current>> \in Accesses
    BY <2>1 DEF Accesses
  <2>. QED
    BY <1>0, <1>3, <2>2 DEF Write
<1>4. CASE Occupy
  <2>1. current \in Tasks
    BY <1>4 DEF Occupy, OccupyRegion, BInv, IInv, TypeOK
  <2>. QED
    BY <1>0, <1>4, <2>1 DEF Occupy, FetchAdd
<1>5. ASSUME NEW b \in Tasks, Bound(b) \/ Wake(b) PROVE knows' \in [Threads -> SUBSET Accesses]
  BY <1>0, <1>5 DEF Bound, Wake, memoryVars
<1>6. ASSUME NEW b \in Tasks, Read(b) PROVE knows' \in [Threads -> SUBSET Accesses]
  <2>1. PICK t \in Tasks : taken'[b] = Append(taken[b], t)
    BY <1>6, VisitEffect DEF Read
  <2>2. taken[b] \in Seq(Tasks \cup {NONE}) /\ b \in DOMAIN taken
    BY DEF BInv, IInv, TypeOK
  <2>3. taken'[b] = Append(taken[b], buffer[Head(todo[b])])
    BY <1>6, <2>2 DEF Read, VisitCell
  <2>4. buffer[Head(todo[b])] = t
    <3>1. Head(todo[b]) \in Cells
      BY <1>6 DEF Read, VisitCell, BInv, IInv, TypeOK
    <3>2. PICK x \in Tasks \cup {NONE} : x = buffer[Head(todo[b])]
      BY <3>1 DEF BInv, IInv, TypeOK
    <3>3. Append(taken[b], t)[Len(taken[b]) + 1] = t /\ Append(taken[b], x)[Len(taken[b]) + 1] = x
      BY <2>2
    <3>. QED
      BY <2>1, <2>3, <3>2, <3>3
  <2>5. <<"read", t>> \in Accesses
    BY DEF Accesses
  <2>. QED
    BY <1>0, <1>6, <2>4, <2>5 DEF Read
<1>7. ASSUME NEW b \in Tasks, Deoccupy(b) PROVE knows' \in [Threads -> SUBSET Accesses]
  BY <1>0, <1>7 DEF Deoccupy, FetchSub
<1>8. CASE UNCHANGED pubVars
  BY <1>0, <1>8 DEF pubVars, memoryVars
<1>. QED
  BY <1>1, <1>2, <1>3, <1>4, <1>5, <1>6, <1>7, <1>8 DEF PubNext

\* The owner only moves on to later versions.
LEMMA SeenStep ==
  ASSUME PubTypeOK, [PubNext]_pubVars, ~ Occupy
  PROVE  seen' \in seen .. Len(versions)
<1>0. seen \in 1 .. Len(versions) /\ Len(versions) \in Nat
  BY VersionFacts
<1>1. ASSUME NEW t \in Tasks, Check(t) PROVE seen' \in seen .. Len(versions)
  BY <1>0, <1>1 DEF Check, Load, memoryVars
<1>2. CASE UNCHANGED seen
  BY <1>0, <1>2
<1>3. CASE Park \/ Write \/ Claim
  BY <1>2, <1>3 DEF Park, Write, Claim, memoryVars
<1>4. ASSUME NEW b \in Tasks, Bound(b) \/ Read(b) \/ Deoccupy(b) \/ Wake(b) PROVE UNCHANGED seen
  BY <1>4 DEF Bound, Read, Deoccupy, FetchSub, Wake, memoryVars
<1>5. CASE UNCHANGED pubVars
  BY <1>2, <1>5 DEF pubVars, memoryVars
<1>. QED
  BY <1>1, <1>2, <1>3, <1>4, <1>5 DEF PubNext

LEMMA PubTypeStep ==
  ASSUME BInv, TypeOK', PubTypeOK, [PubNext]_pubVars
  PROVE  PubTypeOK'
<1>1. knows' \in [Threads -> SUBSET Accesses]
  BY KnowsType
<1>2. Len(versions) \in Nat /\ seen \in 1 .. Len(versions) /\ versions \in Seq(Records)
  BY VersionFacts DEF PubTypeOK, Records
<1>3. CASE Occupy \/ \E b \in Tasks : Deoccupy(b)
  <2>1. PICK th \in Threads : versions' = NewVersion(th)
    BY <1>3 DEF Occupy, FetchAdd, Deoccupy, FetchSub, Threads
  <2>2. PICK rec \in Records : rec.word = occupancy' /\ versions' = Append(versions, rec)
    BY <2>1, NewRecord DEF NewVersion
  <2>3. versions' \in Seq(Records) /\ Len(versions') = Len(versions) + 1 /\ Latest' = rec
    BY <2>2, Appended
  <2>4. seen' \in 1 .. Len(versions')
    <3>1. CASE Occupy
      <4>1. seen' = Len(versions')
        BY <3>1 DEF Occupy, FetchAdd
      <4>. QED
        BY <1>2, <2>3, <4>1
    <3>2. CASE ~ Occupy
      BY <1>2, <2>3, <3>2, SeenStep
    <3>. QED
      BY <3>1, <3>2
  <2>5. seen' \in DOMAIN versions'
    BY <2>3, <2>4
  <2>. QED
    BY <1>1, <2>2, <2>3, <2>5 DEF PubTypeOK, Records
<1>4. CASE ~ Occupy /\ \A b \in Tasks : ~ Deoccupy(b)
  <2>1. occupancy' = occupancy /\ versions' = versions
    BY <1>4, SameVersions
  <2>2. seen' \in seen .. Len(versions)
    BY <1>4, SeenStep
  <2>3. seen' \in DOMAIN versions'
    BY <1>2, <2>1, <2>2
  <2>4. Latest' = Latest
    BY <2>1 DEF Latest
  <2>. QED
    BY <1>1, <2>1, <2>3, <2>4 DEF PubTypeOK
<1>. QED
  BY <1>3, <1>4

\* A fetch_sub never raises a counter.
LEMMA DeoccupyLowers ==
  ASSUME IInv, NEW b \in Tasks, DeoccupyRegion(b), NEW r \in Regions
  PROVE  occupancy'[r] <= occupancy[r] /\ occupancy[RegionOf(b)] >= 1
<1>. USE DEF IInv
<1>1. handle[b] # "none" /\ Occupied(b)
  BY DEF DeoccupyRegion, Occupied
<1>2. RegionOf(b) \in Regions
  BY <1>1, RegionOfHandle
<1>3. occupancy \in Words /\ REGION_MASK \in Nat
  BY LayoutAssumption DEF TypeOK
<1>4. occupancy[RegionOf(b)] # 0
  BY <1>1, <1>2, FreeRegion DEF OccupiedIn
<1>5. occupancy[RegionOf(b)] >= 1
  BY <1>2, <1>3, <1>4 DEF Words
<1>6. occupancy' = [occupancy EXCEPT ![RegionOf(b)] = @ - 1]
  BY <1>2, <1>3, <1>5, SubPlain DEF DeoccupyRegion, RegionOf
<1>. QED
  BY <1>2, <1>3, <1>5, <1>6 DEF Words

LEMMA VersionsStep ==
  ASSUME BInv, TypeOK', PubTypeOK, NoLoadUnderstates, [PubNext]_pubVars
  PROVE  NoLoadUnderstates'
<1>. SUFFICES ASSUME NEW v \in seen' .. Len(versions'), NEW r \in Regions
              PROVE  versions'[v].word[r] >= occupancy'[r]
  BY DEF NoLoadUnderstates
<1>1. Len(versions) \in Nat /\ seen \in 1 .. Len(versions)
  BY VersionFacts
<1>2. occupancy'[r] \in Nat /\ occupancy[r] \in Nat
  BY LayoutAssumption DEF BInv, IInv, TypeOK, Words
<1>3. CASE Occupy
  <2>1. versions' = NewVersion(Owner) /\ seen' = Len(versions')
    BY <1>3 DEF Occupy, FetchAdd
  <2>2. Owner \in Threads
    BY DEF Threads
  <2>3. PICK rec \in Records : rec.word = occupancy' /\ versions' = Append(versions, rec)
    BY <2>1, <2>2, NewRecord DEF NewVersion
  <2>4. v = Len(versions')
    BY <1>1, <2>1, <2>3, Appended
  <2>5. versions'[v].word = occupancy'
    BY <2>3, <2>4, Appended
  <2>. QED
    BY <1>2, <2>5
<1>4. ASSUME NEW b \in Tasks, Deoccupy(b) PROVE versions'[v].word[r] >= occupancy'[r]
  <2>1. versions' = NewVersion(b) /\ seen' = seen /\ DeoccupyRegion(b) /\ b \in Threads
    BY <1>4 DEF Deoccupy, FetchSub, Threads
  <2>2. PICK rec \in Records : rec.word = occupancy' /\ versions' = Append(versions, rec)
    BY <2>1, NewRecord DEF NewVersion
  <2>3. CASE v = Len(versions) + 1
    <3>1. versions'[v].word = occupancy'
      BY <2>2, <2>3, Appended
    <3>. QED
      BY <1>2, <3>1
  <2>4. CASE v # Len(versions) + 1
    <3>1. v \in seen .. Len(versions) /\ v \in 1 .. Len(versions)
      BY <1>1, <2>1, <2>2, <2>4, Appended
    <3>2. versions'[v] = versions[v]
      BY <2>2, <3>1, Appended
    <3>3. versions[v].word[r] >= occupancy[r] /\ versions[v].word[r] \in Nat
      BY <3>1, VersionFacts, LayoutAssumption DEF NoLoadUnderstates, Words
    <3>4. occupancy'[r] <= occupancy[r]
      BY <2>1, DeoccupyLowers DEF BInv
    <3>. QED
      BY <1>2, <3>2, <3>3, <3>4
  <2>. QED
    BY <2>3, <2>4
<1>5. CASE ~ Occupy /\ \A b \in Tasks : ~ Deoccupy(b)
  <2>1. occupancy' = occupancy /\ versions' = versions
    BY <1>5, SameVersions
  <2>2. v \in seen .. Len(versions)
    BY <1>1, <1>5, <2>1, SeenStep
  <2>. QED
    BY <2>1, <2>2 DEF NoLoadUnderstates
<1>. QED
  BY <1>3, <1>4, <1>5

\* Every task that was pushed belongs to a batch, and stays in it.
LEMMA CoverStep ==
  ASSUME BInv, CoverInv, [StaleNext]_vars
  PROVE  CoverInv'
<1>. USE DEF BInv
<1>0. TypeOK /\ pushed \in Nat /\ \A t \in Tasks : pos[t] \in Int /\ pos[t] < pushed
  BY DEF IInv, TypeOK, PositionsInv
<1>a. ASSUME pos' = pos, \A b \in Tasks : handle'[b] = "none" <=> handle[b] = "none"
      PROVE  CoverInv'
  BY <1>a DEF CoverInv, Members
<1>1. CASE Quiet \/ PushWrite
  BY <1>1, <1>a DEF Quiet, PushWrite, handleVars, historyVars
<1>2. CASE PushClaim
  <2>1. /\ current \in Tasks /\ pos[current] = -1 /\ handle[current] = "none"
        /\ \A t \in Tasks : pos'[t] = IF t = current THEN pushed ELSE pos[t]
        /\ \A t \in Tasks : t # current => handle'[t] = handle[t]
        /\ \/ handle'[current] = "none" /\ \E b \in Tasks : OpenHandle(b)
           \/ handle'[current] = "claimed"
    BY <1>2, ClaimEffect
  <2>. SUFFICES ASSUME NEW t \in Tasks, pos'[t] # -1
                PROVE  \E b \in Tasks : handle'[b] # "none" /\ t \in Members(b)'
    BY DEF CoverInv
  <2>2. CASE t # current
    <3>1. PICK b \in Tasks : handle[b] # "none" /\ t \in Members(b)
      BY <2>1, <2>2 DEF CoverInv
    <3>2. b # current /\ handle'[b] # "none" /\ pos'[b] = pos[b] /\ pos'[t] = pos[t]
      BY <2>1, <2>2, <3>1
    <3>3. /\ pos[t] >= pos[b]
          /\ \A c \in Tasks : handle[c] # "none" => ~ (pos[b] < pos[c] /\ pos[c] <= pos[t])
      BY <3>1 DEF Members
    <3>4. ASSUME NEW c \in Tasks, handle'[c] # "none"
          PROVE  ~ (pos'[b] < pos'[c] /\ pos'[c] <= pos'[t])
      <4>1. CASE c = current
        BY <1>0, <2>1, <3>2, <4>1
      <4>2. CASE c # current
        BY <2>1, <3>2, <3>3, <3>4, <4>2
      <4>. QED
        BY <4>1, <4>2
    <3>5. t \in Members(b)'
      BY <3>2, <3>3, <3>4 DEF Members
    <3>. QED
      BY <3>2, <3>5
  <2>3. CASE t = current /\ handle'[current] = "claimed"
    <3>1. pos'[t] >= pos'[t] /\ \A c \in Tasks : ~ (pos'[t] < pos'[c] /\ pos'[c] <= pos'[t])
      BY <1>0, <2>1
    <3>2. t \in Members(t)'
      BY <3>1 DEF Members
    <3>. QED
      BY <2>3, <3>2
  <2>4. CASE t = current /\ handle'[current] = "none"
    <3>1. PICK o \in Tasks : OpenHandle(o)
      BY <2>1, <2>4
    <3>2. handle[o] # "none" /\ o # current /\ handle'[o] # "none"
      BY <2>1, <3>1 DEF OpenHandle
    <3>3. pos'[o] = pos[o] /\ pos'[t] = pushed /\ pos[o] < pushed
      BY <1>0, <2>1, <2>4, <3>2
    <3>4. \A c \in Tasks : handle'[c] # "none" => pos'[c] = pos[c] /\ pos[c] <= pos[o]
      BY <2>1, <2>4, <3>1 DEF ExtentInv
    <3>5. t \in Members(o)'
      <4>1. pos'[t] >= pos'[o]
        BY <1>0, <3>3
      <4>2. \A c \in Tasks : handle'[c] # "none" => ~ (pos'[o] < pos'[c] /\ pos'[c] <= pos'[t])
        BY <1>0, <3>3, <3>4
      <4>. QED
        BY <4>1, <4>2 DEF Members
    <3>. QED
      BY <3>2, <3>5
  <2>. QED
    BY <2>1, <2>2, <2>3, <2>4
<1>3. CASE OccupyRegion
  <2>1. /\ current \in Tasks /\ handle[current] = "claimed" /\ handle'[current] = "unbounded"
        /\ \A b \in Tasks : b # current => handle'[b] = handle[b]
        /\ pos' = pos
    BY <1>3 DEF OccupyRegion, IInv, TypeOK, OwnerInv, historyVars
  <2>. QED
    BY <2>1, <1>a
<1>4. ASSUME NEW b \in Tasks, (\E view \in Views : SetBounds(b, view)) \/ VisitCell(b)
                              \/ DeoccupyRegion(b) \/ WakeDone(b)
      PROVE  CoverInv'
  <2>1. /\ pos' = pos /\ handle[b] # "none" /\ handle'[b] # "none"
        /\ \A c \in Tasks : c # b => handle'[c] = handle[c]
    BY <1>0, <1>4 DEF SetBounds, VisitCell, DeoccupyRegion, WakeDone, TypeOK, historyVars
  <2>. QED
    BY <2>1, <1>a
<1>. QED
  BY <1>0, <1>1, <1>2, <1>3, <1>4, Effects

\* A consumer knows of its own reads.
LEMMA OwnReads ==
  ASSUME BInv, PubTypeOK, KnowInv, [PubNext]_pubVars, NEW b \in Tasks, Bounded(b)'
  PROVE  ReadsOf(b)' \subseteq knows'[b]
<1>1. b \in Threads /\ knows[b] \subseteq knows'[b] /\ DOMAIN knows = Threads
  BY KnowsGrow DEF Threads, PubTypeOK
<1>2. ReadsOf(b) \subseteq knows[b]
  <2>1. CASE Bounded(b)
    BY <2>1 DEF KnowInv
  <2>2. CASE ~ Bounded(b)
    <3>1. taken[b] = << >>
      BY <2>2 DEF BInv, ExtentInv
    <3>2. ReadsOf(b) = {}
      BY <3>1 DEF ReadsOf
    <3>. QED
      BY <3>2
  <2>. QED
    BY <2>1, <2>2
<1>3. CASE Read(b)
  <2>1. taken[b] \in Seq(Tasks \cup {NONE}) /\ b \in DOMAIN taken
    BY DEF BInv, IInv, TypeOK
  <2>2. Head(todo[b]) \in Cells
    BY <1>3 DEF Read, VisitCell, BInv, IInv, TypeOK
  <2>3. PICK x \in Tasks \cup {NONE} : x = buffer[Head(todo[b])]
    BY <2>2 DEF BInv, IInv, TypeOK
  <2>4. taken'[b] = Append(taken[b], x)
    BY <1>3, <2>1, <2>3 DEF Read, VisitCell
  <2>5. <<"read", x>> \in knows'[b]
    BY <1>1, <1>3, <2>3 DEF Read
  <2>6. ASSUME NEW i \in 1 .. Len(taken'[b])
        PROVE  taken'[b][i] = x \/ (i \in 1 .. Len(taken[b]) /\ taken'[b][i] = taken[b][i])
    BY <2>1, <2>4, <2>6
  <2>. QED
    BY <1>1, <1>2, <2>5, <2>6 DEF ReadsOf
<1>4. CASE ~ Read(b)
  <2>1. taken'[b] = taken[b]
    <3>1. ASSUME NEW t \in Tasks, Check(t) PROVE taken' = taken
      BY <3>1 DEF Check, PushCheck, PushLoads, historyVars
    <3>2. CASE Park \/ Write \/ Claim \/ Occupy
      BY <3>2 DEF Park, Write, Claim, Occupy, RegisterWaker, PushWrite, PushClaim,
         OccupyRegion, historyVars
    <3>3. ASSUME NEW c \in Tasks, Bound(c) \/ Deoccupy(c) \/ Wake(c) PROVE taken' = taken
      BY <3>3 DEF Bound, Deoccupy, Wake, SetBounds, DeoccupyRegion, WakeNext, WakeDone, historyVars
    <3>4. ASSUME NEW c \in Tasks, Read(c) PROVE taken'[b] = taken[b]
      <4>1. c # b
        BY <1>4, <3>4
      <4>. QED
        BY <3>4, <4>1 DEF Read, VisitCell, BInv, IInv, TypeOK
    <3>5. CASE UNCHANGED pubVars
      BY <3>5 DEF pubVars, vars, historyVars
    <3>. QED
      BY <3>1, <3>2, <3>3, <3>4, <3>5 DEF PubNext
  <2>2. ReadsOf(b)' = ReadsOf(b)
    BY <2>1 DEF ReadsOf
  <2>. QED
    BY <1>1, <1>2, <2>2
<1>. QED
  BY <1>3, <1>4

\* What a batch that is over did, the latest version teaches.
LEMMA LatestTeaches ==
  ASSUME BInv, TypeOK', PubTypeOK, NoLoadUnderstates, KnowInv, [PubNext]_pubVars,
         NEW b \in Tasks, Over(b)'
  PROVE  ReadsOf(b)' \subseteq Latest'.teaches
<1>0. ReadsOf(b)' = ReadsOf(b) /\ (Over(b) \/ DeoccupyRegion(b))
  BY PubStale, OverStep
<1>1. CASE Over(b)
  <2>1. ReadsOf(b) \subseteq Latest.teaches
    BY <1>1 DEF KnowInv
  <2>2. Latest.teaches \subseteq Latest'.teaches
    <3>1. CASE Occupy \/ \E c \in Tasks : Deoccupy(c)
      <4>1. PICK th \in Threads : versions' = NewVersion(th)
        BY <3>1 DEF Occupy, FetchAdd, Deoccupy, FetchSub, Threads
      <4>2. PICK rec \in Records : /\ rec.teaches = Latest.teaches \cup knows[th]
                                   /\ versions' = Append(versions, rec)
        BY <4>1, NewRecord DEF NewVersion
      <4>. QED
        BY <4>2, Appended
    <3>2. CASE ~ Occupy /\ \A c \in Tasks : ~ Deoccupy(c)
      BY <3>2, SameVersions DEF Latest
    <3>. QED
      BY <3>1, <3>2
  <2>. QED
    BY <1>0, <2>1, <2>2
<1>2. CASE ~ Over(b)
  <2>1. DeoccupyRegion(b) /\ handle[b] = "bounded"
    BY <1>0, <1>2 DEF DeoccupyRegion
  <2>2. Deoccupy(b)
    <3>1. handle'[b] # handle[b]
      BY <2>1 DEF Over
    <3>2. ASSUME NEW t \in Tasks, Check(t) PROVE handle' = handle
      BY <3>2 DEF Check, PushCheck, PushLoads, handleVars
    <3>3. CASE Park \/ Write
      BY <3>1, <3>3 DEF Park, Write, RegisterWaker, PushWrite, handleVars
    <3>4. CASE Claim
      <4>1. handle[current] = "none" /\ \A t \in Tasks : t # current => handle'[t] = handle[t]
        BY <3>4, ClaimEffect DEF Claim, BInv
      <4>. QED
        BY <2>1, <3>1, <4>1
    <3>5. CASE Occupy
      <4>1. handle[current] = "claimed" /\ \A t \in Tasks : t # current => handle'[t] = handle[t]
        BY <3>5 DEF Occupy, OccupyRegion, BInv, IInv, TypeOK, OwnerInv
      <4>. QED
        BY <2>1, <3>1, <4>1
    <3>6. ASSUME NEW c \in Tasks, Bound(c) \/ Read(c) \/ Wake(c)
          PROVE  handle'[b] = handle[b]
      BY <2>1, <3>6 DEF Bound, Read, Wake, SetBounds, VisitCell, WakeNext, WakeDone,
         BInv, IInv, TypeOK
    <3>7. ASSUME NEW c \in Tasks, Deoccupy(c) PROVE c = b
      BY <3>1, <3>7 DEF Deoccupy, DeoccupyRegion, BInv, IInv, TypeOK
    <3>8. CASE UNCHANGED pubVars
      BY <3>1, <3>8 DEF pubVars, vars, handleVars
    <3>. QED
      BY <3>1, <3>2, <3>3, <3>4, <3>5, <3>6, <3>7, <3>8 DEF PubNext
  <2>3. ReadsOf(b) \subseteq knows[b]
    BY <2>1 DEF KnowInv, Bounded
  <2>4. PICK rec \in Records : /\ rec.teaches = Latest.teaches \cup knows[b]
                               /\ versions' = Append(versions, rec)
    BY <2>2, NewRecord DEF Deoccupy, FetchSub, NewVersion, Threads
  <2>5. knows[b] \subseteq Latest'.teaches
    BY <2>4, Appended
  <2>. QED
    BY <1>0, <2>3, <2>5
<1>. QED
  BY <1>1, <1>2

\* A version that the owner may load shows the region occupied, or teaches.
LEMMA VersionsKnow ==
  ASSUME BInv, TypeOK', PubTypeOK, NoLoadUnderstates, KnowInv, [PubNext]_pubVars,
         NEW b \in Tasks, Over(b)', NEW v \in seen' .. Len(versions')
  PROVE  \/ versions'[v].word[RegionOf(b)'] # 0
         \/ ReadsOf(b)' \subseteq versions'[v].teaches \cup knows'[Owner]
<1>1. Len(versions) \in Nat /\ seen \in 1 .. Len(versions)
  BY VersionFacts
<1>2. CASE v = Len(versions')
  BY <1>2, LatestTeaches DEF Latest
<1>3. CASE v # Len(versions')
  <2>1. ~ Occupy /\ v < Len(versions') /\ v \in Int
    <3>1. ASSUME Occupy PROVE FALSE
      <4>1. seen' = Len(versions')
        BY <3>1 DEF Occupy, FetchAdd
      <4>2. Len(versions') \in Nat
        BY PubTypeStep DEF PubTypeOK
      <4>. QED
        BY <1>3, <4>1, <4>2
    <3>2. Len(versions') \in Nat
      BY PubTypeStep DEF PubTypeOK
    <3>3. seen' \in Int
      BY <3>1, <1>1, SeenStep
    <3>. QED
      BY <1>3, <3>1, <3>2, <3>3
  <2>2. v \in seen .. Len(versions) /\ v \in 1 .. Len(versions) /\ versions'[v] = versions[v]
    <3>1. seen' \in seen .. Len(versions)
      BY <2>1, SeenStep
    <3>2. CASE \E c \in Tasks : Deoccupy(c)
      <4>1. PICK c \in Threads : versions' = NewVersion(c)
        BY <3>2 DEF Deoccupy, FetchSub, Threads
      <4>2. PICK rec \in Records : versions' = Append(versions, rec)
        BY <4>1, NewRecord DEF NewVersion
      <4>3. Len(versions') = Len(versions) + 1
        BY <4>2, Appended
      <4>4. v \in seen .. Len(versions) /\ v \in 1 .. Len(versions)
        BY <1>1, <2>1, <3>1, <4>3
      <4>. QED
        BY <4>2, <4>4, Appended
    <3>3. CASE \A c \in Tasks : ~ Deoccupy(c)
      <4>1. versions' = versions
        BY <2>1, <3>3, SameVersions
      <4>. QED
        BY <1>1, <3>1, <4>1
    <3>. QED
      BY <3>2, <3>3
  <2>3. /\ ReadsOf(b)' = ReadsOf(b) /\ RegionOf(b)' = RegionOf(b)
        /\ Over(b) \/ DeoccupyRegion(b)
    BY PubStale, OverStep
  <2>4. CASE Over(b)
    <3>1. versions[v].word[RegionOf(b)] # 0 \/ ReadsOf(b) \subseteq versions[v].teaches \cup knows[Owner]
      BY <2>2, <2>4 DEF KnowInv
    <3>2. knows[Owner] \subseteq knows'[Owner]
      BY KnowsGrow DEF Threads
    <3>. QED
      BY <2>2, <2>3, <3>1, <3>2
  <2>5. CASE DeoccupyRegion(b)
    <3>1. handle[b] # "none" /\ RegionOf(b) \in Regions
      BY <2>5, RegionOfHandle DEF DeoccupyRegion, BInv, IInv
    <3>2. occupancy[RegionOf(b)] >= 1 /\ occupancy[RegionOf(b)] \in Nat
      <4>1. IInv /\ occupancy \in Words
        BY DEF BInv, IInv, TypeOK
      <4>. QED
        BY <2>5, <3>1, <4>1, DeoccupyLowers, LayoutAssumption DEF Words
    <3>3. /\ versions[v].word[RegionOf(b)] >= occupancy[RegionOf(b)]
          /\ versions[v].word[RegionOf(b)] \in Nat
      BY <2>2, <3>1, VersionFacts, LayoutAssumption DEF NoLoadUnderstates, Words
    <3>4. versions[v].word[RegionOf(b)] # 0
      BY <3>2, <3>3
    <3>. QED
      BY <2>2, <2>3, <3>4
  <2>. QED
    BY <2>3, <2>4, <2>5
<1>. QED
  BY <1>2, <1>3

\* So does the owner's copy, with the owner's knowledge.
LEMMA CopyKnows ==
  ASSUME BInv, PubTypeOK, NoLoadUnderstates, KnowInv, [PubNext]_pubVars, NEW b \in Tasks, Over(b)'
  PROVE  localOccupancy'[RegionOf(b)'] # 0 \/ ReadsOf(b)' \subseteq knows'[Owner]
<1>0. /\ ReadsOf(b)' = ReadsOf(b) /\ RegionOf(b)' = RegionOf(b)
      /\ Over(b) \/ DeoccupyRegion(b)
  BY PubStale, OverStep
<1>1. knows[Owner] \subseteq knows'[Owner] /\ Owner \in Threads /\ DOMAIN knows = Threads
  BY KnowsGrow DEF Threads, PubTypeOK
<1>2. CASE localOccupancy' = localOccupancy
  <2>1. CASE Over(b)
    BY <1>0, <1>1, <1>2, <2>1 DEF KnowInv
  <2>2. CASE DeoccupyRegion(b)
    <3>1. handle[b] # "none" /\ RegionOf(b) \in Regions
      BY <2>2, RegionOfHandle DEF DeoccupyRegion, BInv, IInv
    <3>2. occupancy[RegionOf(b)] >= 1 /\ occupancy[RegionOf(b)] \in Nat
      <4>1. IInv /\ occupancy \in Words
        BY DEF BInv, IInv, TypeOK
      <4>. QED
        BY <2>2, <3>1, <4>1, DeoccupyLowers, LayoutAssumption DEF Words
    <3>3. localOccupancy[RegionOf(b)] >= occupancy[RegionOf(b)] /\ localOccupancy[RegionOf(b)] \in Nat
      BY <3>1, LayoutAssumption DEF BInv, IInv, TypeOK, CountInv, Words
    <3>4. localOccupancy[RegionOf(b)] # 0
      BY <3>2, <3>3
    <3>. QED
      BY <1>0, <1>2, <3>4
  <2>. QED
    BY <1>0, <2>1, <2>2
<1>3. ASSUME NEW t \in Tasks, Check(t), localOccupancy' # localOccupancy
      PROVE  localOccupancy'[RegionOf(b)'] # 0 \/ ReadsOf(b)' \subseteq knows'[Owner]
  <2>1. Loads(slot_index(localSlot.index))
    BY <1>3 DEF Check, PushCheck, PushLoads, check_regional_occupancy
  <2>2. PICK v \in seen .. Len(versions) : PushLoads(t, versions[v].word) /\ Load(v)
    BY <1>3, <2>1 DEF Check
  <2>3. localOccupancy' = versions[v].word /\ handle' = handle
    BY <2>1, <2>2 DEF PushLoads, check_regional_occupancy, handleVars
  <2>4. versions[v].teaches \subseteq knows'[Owner]
    BY <1>1, <2>2 DEF Load
  <2>5. Over(b)
    BY <2>3 DEF Over
  <2>6. versions[v].word[RegionOf(b)] # 0 \/ ReadsOf(b) \subseteq versions[v].teaches \cup knows[Owner]
    BY <2>5 DEF KnowInv
  <2>. QED
    BY <1>0, <1>1, <2>3, <2>4, <2>6
<1>4. CASE Occupy
  <2>1. Over(b)
    BY <1>4 DEF Occupy, OccupyRegion, Over, BInv, IInv, TypeOK
  <2>2. Latest.teaches \subseteq knows'[Owner]
    BY <1>1, <1>4 DEF Occupy, FetchAdd
  <2>3. ReadsOf(b) \subseteq Latest.teaches
    BY <2>1 DEF KnowInv
  <2>. QED
    BY <1>0, <2>2, <2>3
<1>5. CASE Park \/ Write \/ Claim
  BY <1>2, <1>5 DEF Park, Write, Claim, RegisterWaker, PushWrite, PushClaim
<1>6. ASSUME NEW c \in Tasks, Bound(c) \/ Read(c) \/ Deoccupy(c) \/ Wake(c)
      PROVE  localOccupancy' = localOccupancy
  BY <1>6 DEF Bound, Read, Deoccupy, Wake, SetBounds, VisitCell, DeoccupyRegion, WakeNext,
     WakeDone, ownerVars
<1>7. CASE UNCHANGED pubVars
  BY <1>2, <1>7 DEF pubVars, vars, ownerVars
<1>. QED
  BY <1>2, <1>3, <1>4, <1>5, <1>6, <1>7 DEF PubNext

LEMMA KnowStep ==
  ASSUME BInv, TypeOK', PubTypeOK, NoLoadUnderstates, KnowInv, [PubNext]_pubVars
  PROVE  KnowInv'
BY OwnReads, LatestTeaches, VersionsKnow, CopyKnows DEF KnowInv

\* The window of a batch that the owner has not learnt of.
LEMMA ReachStep ==
  ASSUME BInv, PubTypeOK, NoLoadUnderstates, KnowInv, ReachInv, [PubNext]_pubVars
  PROVE  ReachInv'
<1>. SUFFICES ASSUME NEW b \in Tasks, Over(b)', ~ (ReadsOf(b)' \subseteq knows'[Owner])
              PROVE  InWindow(b)'
  BY DEF ReachInv
<1>. USE DEF BInv
<1>0. TypeOK /\ PositionsInv
  BY DEF IInv
<1>1. ReadsOf(b)' = ReadsOf(b) /\ (Over(b) \/ DeoccupyRegion(b))
  BY PubStale, OverStep
<1>2. knows[Owner] \subseteq knows'[Owner] /\ Owner \in Threads /\ DOMAIN knows = Threads
  BY KnowsGrow DEF Threads, PubTypeOK
<1>3. ~ (ReadsOf(b) \subseteq knows[Owner])
  BY <1>1, <1>2
<1>4. handle[b] # "none" /\ InWindow(b)
  <2>1. CASE Over(b)
    BY <1>3, <2>1 DEF ReachInv, Over
  <2>2. CASE DeoccupyRegion(b)
    BY <2>2 DEF DeoccupyRegion, IInv, WindowInv, Live
  <2>. QED
    BY <1>1, <2>1, <2>2
<1>a. ASSUME pushed' = pushed, pos' = pos,
             pc' = pc \/ pc' \notin {"write", "claim"} \/ (pc = "write" /\ pc' = "claim")
      PROVE  InWindow(b)'
  BY <1>0, <1>4, <1>a, TurnFrame
<1>5. ASSUME NEW t \in Tasks, Check(t) PROVE InWindow(b)'
  <2>1. PICK word : /\ PushLoads(t, word)
                    /\ Loads(slot_index(localSlot.index)) =>
                         \E v \in seen .. Len(versions) : word = versions[v].word /\ Load(v)
    BY <1>5 DEF Check, PushCheck
  <2>2. /\ pushed' = pushed /\ pos' = pos /\ handle' = handle /\ pc' \in {"write", "full"}
        /\ pc = "idle"
    BY <2>1 DEF PushLoads, check_regional_occupancy, historyVars, handleVars
  <2>3. Over(b)
    BY <2>2 DEF Over
  <2>4. localOccupancy[RegionOf(b)] # 0
    BY <1>3, <2>3 DEF KnowInv
  <2>5. Loads(slot_index(localSlot.index)) => word[RegionOf(b)] # 0
    <3>. SUFFICES ASSUME Loads(slot_index(localSlot.index)) PROVE word[RegionOf(b)] # 0
      OBVIOUS
    <3>1. PICK v \in seen .. Len(versions) : word = versions[v].word /\ Load(v)
      BY <2>1
    <3>2. versions[v].teaches \cup knows[Owner] \subseteq knows'[Owner]
      BY <1>2, <3>1 DEF Load
    <3>3. versions[v].word[RegionOf(b)] # 0 \/ ReadsOf(b) \subseteq versions[v].teaches \cup knows[Owner]
      BY <2>3 DEF KnowInv
    <3>. QED
      BY <1>1, <3>1, <3>2, <3>3
  <2>6. CASE pc' = "write"
    <3>1. GlobalRegion(pushed) < GlobalRegion(pos[b]) + REGION_COUNT
      BY <1>4, <2>1, <2>4, <2>5, <2>6, AdmissionAt
    <3>. QED
      BY <2>2, <2>6, <3>1 DEF InWindow, GlobalRegion
  <2>7. CASE pc' = "full"
    BY <2>2, <2>7, <1>a
  <2>. QED
    BY <2>2, <2>6, <2>7
<1>6. CASE Claim
  BY <1>4, <1>6, TurnKept DEF Claim
<1>7. CASE Park \/ Write \/ Occupy
  BY <1>7, <1>a DEF Park, Write, Occupy, RegisterWaker, PushWrite, OccupyRegion, historyVars
<1>8. ASSUME NEW c \in Tasks, Bound(c) \/ Read(c) \/ Deoccupy(c) \/ Wake(c) PROVE InWindow(b)'
  BY <1>8, <1>a DEF Bound, Read, Deoccupy, Wake, SetBounds, VisitCell, DeoccupyRegion,
     WakeNext, WakeDone, ownerVars, historyVars
<1>9. CASE UNCHANGED pubVars
  BY <1>9, <1>a DEF pubVars, vars, ownerVars, historyVars
<1>. QED
  BY <1>5, <1>6, <1>7, <1>8, <1>9 DEF PubNext

-----------------------------------------------------------------------------
(* The theorems                                                            *)

LEMMA InitPubInv == PubInit => PubInv
<1>. SUFFICES ASSUME PubInit PROVE PubInv
  OBVIOUS
<1>1. Init /\ TypeOK /\ BInv
  BY InitBInv DEF PubInit, BInv, IInv
<1>2. /\ versions = <<[word |-> occupancy, teaches |-> {}]>> /\ seen = 1
      /\ knows = [th \in Threads |-> {}]
  BY DEF PubInit
<1>3. [word |-> occupancy, teaches |-> {}] \in Records
  BY <1>1 DEF TypeOK, Records
<1>4. /\ versions \in Seq(Records) /\ Len(versions) = 1 /\ versions[1].word = occupancy
      /\ DOMAIN versions = 1 .. 1
  BY <1>2, <1>3
<1>5. PubTypeOK
  BY <1>1, <1>2, <1>4 DEF PubTypeOK, Records, Latest
<1>6. NoLoadUnderstates
  <2>1. \A r \in Regions : occupancy[r] \in Nat
    BY <1>1, LayoutAssumption DEF TypeOK, Words
  <2>2. \A r \in Regions : occupancy[r] >= occupancy[r]
    BY <2>1
  <2>. QED
    BY <1>2, <1>4, <2>2 DEF NoLoadUnderstates
<1>7. \A b \in Tasks : handle[b] = "none" /\ pos[b] = -1
  BY <1>1 DEF Init
<1>8. KnowInv /\ ReachInv /\ CoverInv
  BY <1>7 DEF KnowInv, ReachInv, CoverInv, Over, Bounded
<1>. QED
  BY <1>1, <1>5, <1>6, <1>8 DEF PubInv

LEMMA PubInvStep ==
  ASSUME RegionFits, ViewsAreSafe, PubInv, [PubNext]_pubVars
  PROVE  PubInv'
<1>. USE DEF PubInv
<1>1. [StaleNext]_vars
  BY PubStale
<1>2. BInv'
  BY <1>1, BInvStep
<1>3. TypeOK'
  BY <1>2 DEF BInv, IInv
<1>4. PubTypeOK' /\ NoLoadUnderstates' /\ KnowInv'
  BY <1>3, PubTypeStep, VersionsStep, KnowStep
<1>5. CoverInv' /\ ReachInv'
  BY <1>1, CoverStep, ReachStep
<1>. QED
  BY <1>2, <1>4, <1>5

\* PubInv holds in every reachable state.
THEOREM PubInvariance ==
  ASSUME RegionFits, ViewsAreSafe
  PROVE  PubSpec => []PubInv
<1>1. PubInit => PubInv
  BY InitPubInv
<1>2. PubInv /\ [PubNext]_pubVars => PubInv'
  BY PubInvStep
<1>. QED
  BY <1>1, <1>2, PTL DEF PubSpec

(***************************************************************************)
(* Type correctness of the model with memory orderings, and that the       *)
(* latest version of the occupancy is the shared word.                     *)
(***************************************************************************)
THEOREM PubTypeCorrect ==
  ASSUME RegionFits, ViewsAreSafe
  PROVE  PubSpec => []PubTypeOK
<1>1. PubInv => PubTypeOK
  BY DEF PubInv
<1>. QED
  BY <1>1, PubInvariance, PTL

\* The consumer of a batch that is over has read all its tasks.
LEMMA OverHasRead ==
  ASSUME BInv, NEW b \in Tasks, Over(b), NEW t \in Members(b)
  PROVE  <<"read", t>> \in ReadsOf(b)
<1>1. handle[b] # "none" /\ ~ OpenHandle(b) /\ Bounded(b) /\ t \in Tasks
  BY DEF Over, OpenHandle, Bounded, Members
<1>2. taken[b] \in Seq(Tasks \cup {NONE}) /\ todo[b] = << >> /\ PositionsInv
  BY DEF BInv, IInv, TypeOK, ExtentInv, Over
<1>3. PICK k \in Nat : k = Len(taken[b])
  BY <1>2
<1>4. Span(b) = k
  <2>1. Len(todo[b]) = 0 /\ k + 0 = k
    BY <1>2
  <2>. QED
    BY <1>1, <1>3, <2>1 DEF Span, Extent
<1>5. pos[b] \in Nat /\ pos[t] \in Int /\ pos[b] <= pos[t] /\ pos[t] < pos[b] + k
  <2>1. pos[t] \in Int
    BY <1>1 DEF BInv, IInv, TypeOK
  <2>. QED
    BY <1>1, <1>4, <2>1, SpanFacts, MembersSpan
<1>6. PICK i \in 1 .. k : pos[b] + i - 1 = pos[t]
  <2>1. pos[t] - pos[b] + 1 \in 1 .. k /\ pos[b] + (pos[t] - pos[b] + 1) - 1 = pos[t]
    BY <1>5
  <2>. QED
    BY <2>1
<1>7. taken[b][i] \in Tasks /\ pos[taken[b][i]] = pos[t]
  BY <1>1, <1>3, <1>6 DEF BInv, ContentInv, InPlace
<1>8. pos[t] # -1
  BY <1>5
<1>9. taken[b][i] = t
  BY <1>1, <1>2, <1>7, <1>8, SamePosition
<1>. QED
  BY <1>3, <1>6, <1>9 DEF ReadsOf

LEMMA PubInvFree == PubInv => FreeIsKnown
<1>. SUFFICES ASSUME PubInv, NEW b \in Tasks,
                     handle[b] \in {"unbounded", "bounded", "waking", "released"},
                     localOccupancy[RegionOf(b)] = 0, NEW t \in Members(b)
              PROVE  <<"read", t>> \in knows[Owner]
  BY DEF FreeIsKnown
<1>1. BInv /\ IInv
  BY DEF PubInv, BInv
<1>2. Over(b)
  BY <1>1, IInvNeverFree DEF NeverWronglyFree, Occupied, Over
<1>. QED
  BY <1>1, <1>2, OverHasRead DEF PubInv, KnowInv

(***************************************************************************)
(* The owner's copy never shows a region free without the owner knowing of *)
(* every read of the batches that started there, whatever version of the   *)
(* occupancy it was loaded from.                                           *)
(***************************************************************************)
THEOREM FreeRegionsAreKnown ==
  ASSUME RegionFits, ViewsAreSafe
  PROVE  PubSpec => []FreeIsKnown
BY PubInvFree, PubInvariance, PTL

LEMMA PubInvOrdered == PubInv => OverwriteIsOrdered
<1>. SUFFICES ASSUME PubInv, pc = "write", NEW t \in Tasks,
                     pos[t] # -1, slot_index(pos[t]) = writeIndex
              PROVE  <<"read", t>> \in knows[Owner]
  BY DEF OverwriteIsOrdered
<1>1. BInv /\ IInv /\ N \in Nat \ {0}
  BY LayoutFacts DEF PubInv, BInv
<1>2. pos[t] \in Nat /\ pushed \in Nat /\ pos[t] < pushed /\ writeIndex = pushed % N
  BY <1>1 DEF IInv, TypeOK, PositionsInv, OwnerInv
<1>3. ~ (pushed - pos[t] < N)
  BY <1>1, <1>2, DistinctMod DEF slot_index
<1>4. PICK b \in Tasks : handle[b] # "none" /\ t \in Members(b)
  BY DEF PubInv, CoverInv
<1>5. pos[b] \in Nat /\ pos[b] <= pos[t]
  BY <1>1, <1>4, SpanFacts DEF Members
<1>6. ~ InWindow(b)
  <2>. SUFFICES ASSUME InWindow(b) PROVE FALSE
    OBVIOUS
  <2>1. pushed - pos[b] < N
    BY <1>1, <1>4, TurnSpan
  <2>. QED
    BY <1>1, <1>2, <1>3, <1>5, <2>1
<1>7. Over(b)
  BY <1>1, <1>4, <1>6 DEF IInv, TypeOK, WindowInv, Live, Over
<1>8. ReadsOf(b) \subseteq knows[Owner]
  BY <1>6, <1>7 DEF PubInv, ReachInv
<1>. QED
  BY <1>1, <1>4, <1>7, <1>8, OverHasRead

(***************************************************************************)
(* Before a push writes a cell again, every read of the tasks that were in *)
(* it happens before the write, although the slot is Relaxed, most writes  *)
(* touch no atomic, and a load of the occupancy may return an old word.    *)
(***************************************************************************)
THEOREM OverwritesAreOrdered ==
  ASSUME RegionFits, ViewsAreSafe
  PROVE  PubSpec => []OverwriteIsOrdered
BY PubInvOrdered, PubInvariance, PTL

(***************************************************************************)
(* Every word that a load at queue.rs:420 may return, however old, counts  *)
(* at least the batches that are occupied: staleness refuses pushes, it    *)
(* never admits one.                                                       *)
(***************************************************************************)
THEOREM StaleWordsOnlyOverstate ==
  ASSUME RegionFits, ViewsAreSafe
  PROVE  PubSpec => []NoLoadUnderstates
<1>1. PubInv => NoLoadUnderstates
  BY DEF PubInv
<1>. QED
  BY <1>1, PubInvariance, PTL

(***************************************************************************)
(* What is proved with sequentially consistent loads holds with the loads  *)
(* that the memory orderings allow: no push writes a cell of a live batch, *)
(* and every batch gets its tasks, all of them and in order.               *)
(***************************************************************************)
THEOREM StaleLoadsAreSafe ==
  ASSUME RegionFits, ViewsAreSafe
  PROVE  PubSpec => [](ExclusiveWrite /\ BatchesIntact)
<1>1. PubInv => ExclusiveWrite /\ BatchesIntact
  BY IInvExclusive, BInvIntact DEF PubInv, BInv
<1>. QED
  BY <1>1, PubInvariance, PTL

=============================================================================
