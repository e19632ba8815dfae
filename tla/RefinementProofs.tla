-------------------------- MODULE RefinementProofs --------------------------
(***************************************************************************)
(* StackQueue implements BatchQueue: for every buffer size, any number of  *)
(* tasks and every interleaving.                                           *)
(***************************************************************************)
EXTENDS StackQueueRefinement, BatchProofs

\* The open batch of BatchQueue is the one whose handle is not bounded.
LEMMA OpenBatchIs ==
  ASSUME OneOpenBatch
  PROVE  /\ OpenBatch \in Tasks \cup {NONE}
         /\ \A b \in Tasks : OpenBatch = b <=> OpenHandle(b)
         /\ OpenBatch = NONE <=> \A b \in Tasks : ~ OpenHandle(b)
<1>1. \A b, c \in Tasks : OpenHandle(b) /\ OpenHandle(c) => b = c
  BY OpenFacts
<1>2. CASE \E b \in Tasks : IsOpen(b)
  <2>1. OpenBatch \in Tasks /\ IsOpen(OpenBatch)
    BY <1>2 DEF OpenBatch
  <2>. QED
    BY <1>1, <2>1, TasksAssumption DEF IsOpen, OpenHandle
<1>3. CASE ~ \E b \in Tasks : IsOpen(b)
  <2>1. OpenBatch = NONE
    BY <1>3 DEF OpenBatch
  <2>. QED
    BY <1>3, <2>1, TasksAssumption DEF IsOpen, OpenHandle
<1>. QED
  BY <1>2, <1>3

LEMMA RefinementInit == Init => Abstract!Init
<1>. SUFFICES ASSUME Init PROVE Abstract!Init
  OBVIOUS
<1>1. \A b \in Tasks : handle[b] = "none" /\ taken[b] = << >>
  BY DEF Init
<1>2. OpenBatch = NONE
  BY <1>1 DEF OpenBatch, IsOpen
<1>3. openBar = [q \in {"owner"} |-> NONE]
  BY <1>2 DEF openBar
<1>4. homeBar = [t \in Tasks |-> NONE] /\ batchBar = [t \in Tasks |-> << >>] /\ releasedBar = {}
  BY <1>1 DEF homeBar, batchBar, releasedBar, IsBatch
<1>5. taken = [t \in Tasks |-> << >>]
  BY DEF Init
<1>. QED
  BY <1>3, <1>4, <1>5 DEF Abstract!Init

-----------------------------------------------------------------------------
(* Steps that leave the tasks where they are                               *)

\* As long as no task is placed and no batch opened, the batches stay the same.
LEMMA SameBatches ==
  ASSUME pos' = pos, \A b \in Tasks : handle'[b] = "none" <=> handle[b] = "none"
  PROVE  UNCHANGED <<homeBar, batchBar>>
<1>1. \A b \in Tasks : IsBatch(b)' <=> IsBatch(b)
  BY DEF IsBatch
<1>2. \A b \in Tasks : Members(b)' = Members(b)
  BY DEF Members
<1>3. \A b \in Tasks : InOrder(b)' = InOrder(b)
  BY <1>2 DEF InOrder
<1>. QED
  BY <1>1, <1>3 DEF homeBar, batchBar

\* Nothing changes for the users of a queue in the other steps.
LEMMA Stutter ==
  ASSUME pos' = pos, taken' = taken,
         \A b \in Tasks : handle'[b] = "none" <=> handle[b] = "none",
         \A b \in Tasks : OpenHandle(b)' <=> OpenHandle(b),
         \A b \in Tasks : handle'[b] \in {"waking", "released"} <=>
                            handle[b] \in {"waking", "released"}
  PROVE  UNCHANGED Abstract!queueVars
<1>1. UNCHANGED <<homeBar, batchBar>>
  BY SameBatches
<1>2. (\E b \in Tasks : IsOpen(b))' <=> \E b \in Tasks : IsOpen(b)
  BY DEF IsOpen, OpenHandle
<1>3. (CHOOSE b \in Tasks : IsOpen(b))' = CHOOSE b \in Tasks : IsOpen(b)
  BY DEF IsOpen, OpenHandle
<1>4. openBar' = openBar
  BY <1>2, <1>3 DEF openBar, OpenBatch
<1>5. releasedBar' = releasedBar
  BY DEF releasedBar
<1>. QED
  BY <1>1, <1>4, <1>5 DEF Abstract!queueVars

-----------------------------------------------------------------------------
(* The capacity                                                            *)

\* The batches have no position in common.
LEMMA SpansApart ==
  ASSUME BInv, NEW b \in Tasks, handle[b] # "none", NEW i \in 1 .. Span(b),
               NEW c \in Tasks, handle[c] # "none", NEW j \in 1 .. Span(c),
         pos[b] + i - 1 = pos[c] + j - 1
  PROVE  b = c /\ i = j
<1>1. /\ pos[b] \in Nat /\ Span(b) \in Nat /\ pos[c] \in Nat /\ Span(c) \in Nat
      /\ ~ (pos[b] < pos[c] /\ pos[c] < pos[b] + Span(b))
      /\ ~ (pos[c] < pos[b] /\ pos[b] < pos[c] + Span(c))
  BY SpanFacts
<1>2. pos[b] = pos[c] /\ i = j /\ pos[b] # -1
  BY <1>1
<1>. QED
  BY <1>2, SamePosition DEF BInv, IInv

\* The cells of the batches that are not released are distinct, and so is the
\* cell that the owner has just written.
LEMMA Room ==
  ASSUME BInv, pc = "claim"
  PROVE  Abstract!HasRoom("owner")
<1>. DEFINE H == Abstract!Held("owner")
            S == (pushed - N + 1) .. (pushed - 1)
            f == [h \in H |-> pos[h[1]] + h[2] - 1]
<1>1. ASSUME NEW b \in Abstract!LiveIn("owner")
      PROVE  b \in Tasks /\ Live(b) /\ handle[b] # "none" /\ DOMAIN batchBar[b] = 1 .. Span(b)
  <2>1. b \in Tasks /\ homeBar[b] = "owner" /\ b \notin releasedBar
    BY DEF Abstract!LiveIn
  <2>2. IsBatch(b) /\ handle[b] # "none" /\ Live(b)
    BY <2>1, NameAssumption DEF homeBar, releasedBar, IsBatch, Live, BInv, IInv, TypeOK
  <2>3. batchBar[b] = InOrder(b)
    BY <2>1, <2>2 DEF batchBar
  <2>4. InOrder(b) \in Seq(Tasks) /\ Len(InOrder(b)) = Span(b)
    BY <2>1, <2>2, BInvOrdered DEF Ordered
  <2>. QED
    BY <2>1, <2>2, <2>3, <2>4
<1>2. ASSUME NEW h \in H
      PROVE  /\ h[1] \in Tasks /\ Live(h[1]) /\ handle[h[1]] # "none"
             /\ h[2] \in 1 .. Span(h[1]) /\ h = <<h[1], h[2]>>
  <2>1. PICK b \in Abstract!LiveIn("owner") : h \in {b} \X DOMAIN batchBar[b]
    BY DEF Abstract!Held
  <2>2. b \in Tasks /\ Live(b) /\ handle[b] # "none" /\ DOMAIN batchBar[b] = 1 .. Span(b)
    BY <1>1
  <2>3. h \in {b} \X (1 .. Span(b))
    BY <2>1, <2>2
  <2>4. h[1] = b /\ h[2] \in 1 .. Span(b) /\ h = <<h[1], h[2]>>
    BY <2>3
  <2>. QED
    BY <2>2, <2>4
<1>. HIDE DEF H
<1>3. N \in Nat \ {0} /\ pushed \in Nat
  BY LayoutFacts DEF BInv, IInv, TypeOK
<1>4. \A h \in H : f[h] \in S
  <2>. SUFFICES ASSUME NEW h \in H PROVE pos[h[1]] + h[2] - 1 \in S
    OBVIOUS
  <2>1. PICK b \in Tasks : b = h[1]
    BY <1>2
  <2>2. Live(b) /\ handle[b] # "none" /\ h[2] \in 1 .. Span(b)
    BY <1>2, <2>1
  <2>3. pos[b] \in Nat /\ Span(b) \in Nat /\ pos[b] + Span(b) <= pushed
    BY <2>2, SpanFacts
  <2>4. pushed - pos[b] < N
    BY <2>2, PushSpan DEF BInv
  <2>5. pos[b] + h[2] - 1 \in S
    BY <1>3, <2>2, <2>3, <2>4
  <2>. QED
    BY <2>1, <2>5
<1>5. f \in [H -> S]
  BY <1>4
<1>6. \A h, g \in H : f[h] = f[g] => h = g
  <2>. SUFFICES ASSUME NEW h \in H, NEW g \in H, pos[h[1]] + h[2] - 1 = pos[g[1]] + g[2] - 1
                PROVE  h = g
    OBVIOUS
  <2>1. h[1] = g[1] /\ h[2] = g[2]
    BY <1>2, SpansApart
  <2>. QED
    BY <1>2, <2>1
<1>. HIDE DEF f
<1>7. f \in Injection(H, S)
  BY <1>5, <1>6 DEF Injection, IsInjective
<1>8. IsFiniteSet(S) /\ Cardinality(S) = N - 1
  <2>1. PICK x \in Int, y \in Int : x = pushed - N + 1 /\ y = pushed - 1
    BY <1>3
  <2>2. IsFiniteSet(x .. y) /\ Cardinality(x .. y) = IF x > y THEN 0 ELSE y - x + 1
    BY FS_Interval
  <2>. QED
    BY <1>3, <2>1, <2>2
<1>. HIDE DEF S
<1>9. Cardinality(H) <= N - 1 /\ IsFiniteSet(H)
  BY <1>7, <1>8, FS_Injection
<1>10. Cardinality(H) \in Nat
  BY <1>9, FS_CardinalityType
<1>11. Cardinality(H) < N
  BY <1>3, <1>9, <1>10
<1>12. Cardinality(Abstract!Held("owner")) < N
  BY <1>11 DEF H
<1>. QED
  BY <1>12 DEF Abstract!HasRoom, Abstract!Cardinality, Cardinality

-----------------------------------------------------------------------------
(* The steps of the owner                                                  *)

\* The positions of its tasks say which sequence a batch is.
OrderIsUnique ==
  \A b \in Tasks : \A s \in Seq(Tasks) :
    /\ handle[b] # "none" /\ Len(s) = Span(b)
    /\ \A i \in 1 .. Span(b) : pos[s[i]] = pos[b] + i - 1
    => InOrder(b) = s

LEMMA BInvUnique == BInv => OrderIsUnique
<1>. SUFFICES ASSUME BInv, NEW b \in Tasks, NEW s \in Seq(Tasks),
                     handle[b] # "none", Len(s) = Span(b),
                     \A i \in 1 .. Span(b) : pos[s[i]] = pos[b] + i - 1
              PROVE  InOrder(b) = s
  BY DEF OrderIsUnique
<1>1. PICK e \in Nat : e = Span(b)
  BY SpanFacts
<1>2. /\ InOrder(b) \in Seq(Tasks) /\ Len(InOrder(b)) = e
      /\ \A i \in 1 .. e : InOrder(b)[i] \in Tasks /\ pos[InOrder(b)[i]] = pos[b] + i - 1
  BY <1>1, BInvOrdered DEF Ordered
<1>3. ASSUME NEW i \in 1 .. e PROVE InOrder(b)[i] = s[i]
  <2>1. pos[b] + i - 1 # -1
    BY <1>1, SpanFacts
  <2>2. s[i] \in Tasks
    BY <1>1
  <2>. QED
    BY <1>1, <1>2, <2>1, <2>2, SamePosition DEF BInv, IInv
<1>4. InOrder(b) = [i \in 1 .. e |-> InOrder(b)[i]] /\ s = [i \in 1 .. e |-> s[i]]
  BY <1>1, <1>2
<1>. QED
  BY <1>3, <1>4

\* A batch that a claim does not touch keeps its tasks.
LEMMA ClaimKeeps ==
  ASSUME BInv, BInv', PushClaim, NEW b \in Tasks, handle[b] # "none", ~ OpenHandle(b)
  PROVE  InOrder(b)' = InOrder(b)
<1>1. OrderIsUnique'
  BY BInvUnique, PTL
<1>2. /\ current \in Tasks /\ pos[current] = -1 /\ handle[current] = "none"
      /\ \A t \in Tasks : pos'[t] = IF t = current THEN pushed ELSE pos[t]
      /\ \A t \in Tasks : t # current => handle'[t] = handle[t]
      /\ taken' = taken /\ todo' = todo
  BY ClaimEffect DEF BInv
<1>3. handle'[b] = handle[b] /\ pos'[b] = pos[b] /\ Span(b)' = Span(b)
  BY <1>2 DEF Span, OpenHandle, Extent
<1>4. /\ InOrder(b) \in Seq(Tasks) /\ Len(InOrder(b)) = Span(b)
      /\ \A i \in 1 .. Span(b) :
           InOrder(b)[i] \in Tasks /\ pos[InOrder(b)[i]] = pos[b] + i - 1
  BY BInvOrdered DEF Ordered
<1>5. \A i \in 1 .. Span(b) : pos'[InOrder(b)[i]] = pos[b] + i - 1
  <2>. SUFFICES ASSUME NEW i \in 1 .. Span(b) PROVE pos'[InOrder(b)[i]] = pos[b] + i - 1
    OBVIOUS
  <2>1. pos[b] + i - 1 # -1
    BY SpanFacts
  <2>. QED
    BY <1>2, <1>4, <2>1
<1>. QED
  BY <1>1, <1>3, <1>4, <1>5 DEF OrderIsUnique

\* A task that is pushed was in no batch before.
LEMMA NotBatched ==
  ASSUME BInv, NEW t \in Tasks, pos[t] = -1
  PROVE  ~ Abstract!Batched(t)
<1>. SUFFICES ASSUME NEW b \in Tasks, NEW i \in DOMAIN batchBar[b], batchBar[b][i] = t
              PROVE  FALSE
  BY DEF Abstract!Batched
<1>1. CASE handle[b] = "none"
  <2>1. batchBar[b] = << >>
    BY <1>1 DEF batchBar, IsBatch
  <2>. QED
    BY <2>1
<1>2. CASE handle[b] # "none"
  <2>1. batchBar[b] = InOrder(b)
    BY <1>2 DEF batchBar, IsBatch
  <2>2. /\ InOrder(b) \in Seq(Tasks) /\ Len(InOrder(b)) = Span(b)
        /\ \A j \in 1 .. Span(b) : pos[InOrder(b)[j]] = pos[b] + j - 1
    BY <1>2, BInvOrdered DEF Ordered
  <2>3. i \in 1 .. Span(b)
    BY <2>1, <2>2
  <2>4. pos[b] + i - 1 # -1
    BY <1>2, <2>3, SpanFacts
  <2>. QED
    BY <2>1, <2>2, <2>3, <2>4
<1>. QED
  BY <1>1, <1>2

\* A push that finds the phase changed opens a batch.
LEMMA OpenRefines ==
  ASSUME BInv, BInv', PushClaim, NEW u \in Tasks, u = current,
         \A b \in Tasks : ~ OpenHandle(b)
  PROVE  Abstract!Open("owner", u)
<1>1. /\ pos[u] = -1 /\ handle[u] = "none"
      /\ pushed \in Nat /\ pushed' = pushed + 1 /\ taken' = taken /\ pc = "claim"
      /\ \A t \in Tasks : pos'[t] = IF t = u THEN pushed ELSE pos[t]
      /\ \A t \in Tasks : t # u => handle'[t] = handle[t]
      /\ handle'[u] = "claimed"
  BY ClaimEffect DEF BInv
<1>2. OpenBatch = NONE
  BY OpenBatchIs DEF BInv
<1>3. OpenBatch' = u
  <2>1. OpenHandle(u)'
    BY <1>1 DEF OpenHandle
  <2>2. \A b \in Tasks : OpenHandle(b)' => b = u
    <3>1. \A b \in Tasks : b # u => (OpenHandle(b)' <=> OpenHandle(b))
      BY <1>1 DEF OpenHandle
    <3>. QED
      BY <3>1
  <2>. QED
    BY <1>1, <2>1, <2>2 DEF OpenBatch, IsOpen, OpenHandle
<1>4. /\ openBar["owner"] = NONE
      /\ openBar' = [openBar EXCEPT !["owner"] = u]
  BY <1>2, <1>3 DEF openBar
<1>5. \A b \in Tasks : IsBatch(b)' <=> IsBatch(b) \/ b = u
  BY <1>1 DEF IsBatch
<1>6. homeBar' = [homeBar EXCEPT ![u] = "owner"]
  BY <1>1, <1>5 DEF homeBar
<1>7. InOrder(u)' = <<u>>
  <2>1. OrderIsUnique'
    BY BInvUnique, PTL
  <2>2. Span(u)' = 1 /\ pos'[u] = pushed
    <3>1. OpenHandle(u)'
      BY <1>1 DEF OpenHandle
    <3>2. Span(u)' = pushed' - pos'[u]
      BY <3>1 DEF Span
    <3>3. pos'[u] = pushed /\ (pushed + 1) - pushed = 1
      BY <1>1
    <3>. QED
      BY <1>1, <3>2, <3>3
  <2>3. <<u>> \in Seq(Tasks) /\ Len(<<u>>) = 1
    BY <1>1
  <2>4. \A i \in 1 .. 1 : pos'[<<u>>[i]] = pos'[u] + i - 1
    BY <1>1, <2>2
  <2>5. PICK s \in Seq(Tasks) : s = <<u>>
    BY <2>3
  <2>6. /\ handle'[u] # "none" /\ Len(s) = Span(u)'
        /\ \A i \in 1 .. Span(u)' : pos'[s[i]] = pos'[u] + i - 1
    BY <1>1, <2>2, <2>3, <2>4, <2>5
  <2>. QED
    BY <1>1, <2>1, <2>5, <2>6 DEF OrderIsUnique
<1>8. \A b \in Tasks : IsBatch(b) => InOrder(b)' = InOrder(b)
  BY ClaimKeeps DEF IsBatch
<1>9. batchBar' = [batchBar EXCEPT ![u] = <<u>>]
  <2>1. ASSUME NEW b \in Tasks
        PROVE  batchBar'[b] = IF b = u THEN <<u>> ELSE batchBar[b]
    BY <1>5, <1>7, <1>8 DEF batchBar
  <2>2. batchBar' = [b \in Tasks |-> batchBar'[b]] /\ DOMAIN batchBar = Tasks
    BY DEF batchBar
  <2>. QED
    BY <1>1, <2>1, <2>2
<1>10. releasedBar' = releasedBar
  BY <1>1 DEF releasedBar
<1>11. Abstract!HasRoom("owner") /\ ~ Abstract!Batched(u)
  BY <1>1, Room, NotBatched
<1>. QED
  BY <1>1, <1>4, <1>6, <1>9, <1>10, <1>11 DEF Abstract!Open

\* Any other push adds its task to the end of the open batch.
LEMMA JoinRefines ==
  ASSUME BInv, BInv', PushClaim, NEW o \in Tasks, OpenHandle(o)
  PROVE  Abstract!Join("owner", current)
<1>1. /\ current \in Tasks /\ pos[current] = -1 /\ handle[current] = "none"
      /\ pushed \in Nat /\ pushed' = pushed + 1 /\ taken' = taken /\ pc = "claim"
      /\ \A t \in Tasks : pos'[t] = IF t = current THEN pushed ELSE pos[t]
      /\ \A t \in Tasks : handle'[t] = handle[t]
  BY ClaimEffect DEF BInv
<1>2. OpenBatch = o
  BY OpenBatchIs DEF BInv
<1>3. OpenBatch' = o
  <2>1. \A b \in Tasks : OpenHandle(b)' <=> b = o
    BY <1>1, OpenFacts DEF OpenHandle, BInv
  <2>. QED
    BY <2>1 DEF OpenBatch, IsOpen, OpenHandle
<1>4. openBar["owner"] = o /\ o # NONE /\ openBar' = openBar
  BY <1>2, <1>3, TasksAssumption DEF openBar
<1>5. \A b \in Tasks : IsBatch(b)' <=> IsBatch(b)
  BY <1>1 DEF IsBatch
<1>6. homeBar' = homeBar /\ releasedBar' = releasedBar
  BY <1>1, <1>5 DEF homeBar, releasedBar
<1>7. InOrder(o)' = Append(InOrder(o), current)
  <2>1. OrderIsUnique'
    BY BInvUnique, PTL
  <2>2. handle[o] # "none" /\ o # current /\ pos'[o] = pos[o]
    BY <1>1 DEF OpenHandle
  <2>3. PICK p \in Nat, e \in Nat : p = pos[o] /\ e = Span(o)
    BY <2>2, SpanFacts
  <2>4. e = pushed - p /\ Span(o)' = e + 1
    BY <1>1, <2>2, <2>3 DEF Span, OpenHandle
  <2>5. PICK s \in Seq(Tasks) : s = InOrder(o) /\ Len(s) = e
    BY <2>2, <2>3, BInvOrdered DEF Ordered
  <2>6. \A i \in 1 .. e : s[i] \in Tasks /\ pos[s[i]] = p + i - 1
    BY <2>2, <2>3, <2>5, BInvOrdered DEF Ordered
  <2>7. /\ Append(s, current) \in Seq(Tasks) /\ Len(Append(s, current)) = e + 1
        /\ \A i \in 1 .. e : Append(s, current)[i] = s[i]
        /\ Append(s, current)[e + 1] = current
    BY <1>1, <2>5
  <2>8. ASSUME NEW i \in 1 .. (e + 1) PROVE pos'[Append(s, current)[i]] = p + i - 1
    <3>1. CASE i \in 1 .. e
      <4>1. p + i - 1 # -1
        OBVIOUS
      <4>. QED
        BY <1>1, <2>6, <2>7, <3>1, <4>1
    <3>2. CASE i = e + 1
      <4>1. p + (e + 1) - 1 = pushed
        BY <1>1, <2>4
      <4>. QED
        BY <1>1, <2>7, <3>2, <4>1
    <3>3. i \in 1 .. e \/ i = e + 1
      OBVIOUS
    <3>. QED
      BY <3>1, <3>2, <3>3
  <2>9. /\ handle'[o] # "none" /\ Len(Append(s, current)) = Span(o)'
        /\ \A i \in 1 .. Span(o)' : pos'[Append(s, current)[i]] = pos'[o] + i - 1
    BY <1>1, <2>2, <2>3, <2>4, <2>7, <2>8
  <2>. QED
    BY <2>1, <2>5, <2>7, <2>9 DEF OrderIsUnique
<1>8. \A b \in Tasks : IsBatch(b) /\ b # o => InOrder(b)' = InOrder(b)
  BY ClaimKeeps, OpenFacts DEF IsBatch, BInv
<1>9. batchBar' = [batchBar EXCEPT ![o] = Append(@, current)]
  BY <1>5, <1>7, <1>8 DEF batchBar, IsBatch, OpenHandle
<1>10. Abstract!HasRoom("owner") /\ ~ Abstract!Batched(current)
  BY <1>1, Room, NotBatched
<1>. QED
  BY <1>1, <1>4, <1>6, <1>9, <1>10 DEF Abstract!Join

-----------------------------------------------------------------------------
(* The steps of the consumers                                              *)

\* What a batch is to BatchQueue while its consumer works on it.
LEMMA HandleBars ==
  ASSUME BInv, NEW b \in Tasks, handle[b] # "none"
  PROVE  /\ homeBar[b] = "owner" /\ homeBar[b] # NONE /\ batchBar[b] = InOrder(b)
         /\ openBar[homeBar[b]] = b <=> OpenHandle(b)
<1>1. homeBar[b] = "owner" /\ batchBar[b] = InOrder(b)
  BY DEF homeBar, batchBar, IsBatch
<1>2. openBar["owner"] = OpenBatch
  BY DEF openBar
<1>. QED
  BY <1>1, <1>2, OpenBatchIs, NameAssumption DEF BInv

LEMMA BoundRefines ==
  ASSUME BInv, NEW b \in Tasks, NEW view \in Views, SetBounds(b, view)
  PROVE  Abstract!Bound(b)
<1>1. /\ handle[b] = "unbounded" /\ handle'[b] = "bounded" /\ pos' = pos /\ taken' = taken
      /\ \A c \in Tasks : c # b => handle'[c] = handle[c]
  BY DEF SetBounds, BInv, IInv, TypeOK, historyVars
<1>2. homeBar[b] = "owner" /\ homeBar[b] # NONE /\ openBar[homeBar[b]] = b
  BY <1>1, HandleBars DEF OpenHandle
<1>3. UNCHANGED <<homeBar, batchBar>>
  BY <1>1, SameBatches
<1>4. releasedBar' = releasedBar
  BY <1>1 DEF releasedBar
<1>5. OpenBatch' = NONE
  <2>1. \A c \in Tasks : ~ OpenHandle(c)'
    BY <1>1, OpenFacts DEF OpenHandle, BInv
  <2>. QED
    BY <2>1 DEF OpenBatch, IsOpen, OpenHandle
<1>6. openBar' = [openBar EXCEPT ![homeBar[b]] = NONE]
  BY <1>2, <1>5 DEF openBar
<1>. QED
  BY <1>1, <1>2, <1>3, <1>4, <1>6 DEF Abstract!Bound

LEMMA DeliverRefines ==
  ASSUME BInv, NEW b \in Tasks, VisitCell(b)
  PROVE  Abstract!Deliver(b)
<1>1. handle[b] = "bounded" /\ handle' = handle /\ pos' = pos
  BY VisitEffect
<1>2. Abstract!IsBounded(b)
  BY <1>1, HandleBars DEF OpenHandle, releasedBar, Abstract!IsBounded
<1>3. UNCHANGED <<homeBar, batchBar>>
  BY <1>1, SameBatches
<1>4. openBar' = openBar /\ releasedBar' = releasedBar
  BY <1>1 DEF openBar, releasedBar, OpenBatch, IsOpen
<1>5. PICK k \in Nat, m \in Nat, p \in Nat :
        k = Len(taken[b]) /\ m = Len(todo[b]) /\ p = pos[b]
  BY VisitEffect
<1>6. m > 0 /\ PositionsInv
  BY <1>5, VisitEffect DEF BInv, IInv
<1>7. PICK t \in Tasks : pos[t] = p + k /\ taken'[b] = Append(taken[b], t)
  BY <1>5, VisitEffect
<1>8. /\ Len(InOrder(b)) = k + m
      /\ \A i \in 1 .. (k + m) : InOrder(b)[i] \in Tasks /\ pos[InOrder(b)[i]] = p + i - 1
  <2>1. Span(b) = k + m
    BY <1>1, <1>5 DEF Span, OpenHandle, Extent
  <2>. QED
    BY <1>1, <1>5, <2>1, BInvOrdered DEF Ordered
<1>9. k < k + m /\ InOrder(b)[k + 1] = t
  <2>1. k < k + m /\ k + 1 \in 1 .. (k + m) /\ p + (k + 1) - 1 = p + k /\ p + k # -1
    BY <1>6
  <2>. QED
    BY <1>6, <1>7, <1>8, <2>1, SamePosition
<1>10. batchBar[b] = InOrder(b)
  BY <1>1, HandleBars
<1>11. Len(taken[b]) < Len(batchBar[b])
  BY <1>5, <1>8, <1>9, <1>10
<1>12. taken' = [taken EXCEPT ![b] = Append(@, batchBar[b][Len(@) + 1])]
  <2>1. PICK x : taken' = [taken EXCEPT ![b] = Append(@, x)]
    BY DEF VisitCell
  <2>2. \A c \in Tasks : c # b => taken'[c] = taken[c]
    BY VisitEffect
  <2>3. taken'[b] = Append(taken[b], batchBar[b][Len(taken[b]) + 1])
    BY <1>5, <1>7, <1>9, <1>10
  <2>4. DOMAIN taken = Tasks
    BY DEF BInv, IInv, TypeOK
  <2>. QED
    BY <2>1, <2>2, <2>3, <2>4
<1>. QED
  BY <1>2, <1>3, <1>4, <1>11, <1>12 DEF Abstract!Deliver

LEMMA ReleaseRefines ==
  ASSUME BInv, NEW b \in Tasks, DeoccupyRegion(b)
  PROVE  Abstract!Release(b)
<1>1. /\ handle[b] = "bounded" /\ handle'[b] \in {"waking", "released"}
      /\ todo[b] = << >> /\ pos' = pos /\ taken' = taken
      /\ \A c \in Tasks : c # b => handle'[c] = handle[c]
  BY DEF DeoccupyRegion, BInv, IInv, TypeOK, historyVars
<1>2. Abstract!IsBounded(b)
  BY <1>1, HandleBars DEF OpenHandle, releasedBar, Abstract!IsBounded
<1>3. UNCHANGED <<homeBar, batchBar>>
  BY <1>1, SameBatches
<1>4. releasedBar' = releasedBar \cup {b}
  BY <1>1 DEF releasedBar
<1>5. openBar' = openBar
  <2>1. \A c \in Tasks : IsOpen(c)' <=> IsOpen(c)
    BY <1>1 DEF IsOpen
  <2>2. (CHOOSE c \in Tasks : IsOpen(c))' = CHOOSE c \in Tasks : IsOpen(c)
    BY <2>1
  <2>. QED
    BY <2>1, <2>2 DEF openBar, OpenBatch
<1>6. taken[b] = batchBar[b]
  <2>1. taken[b] \o [i \in DOMAIN todo[b] |-> buffer[todo[b][i]]] = InOrder(b)
    BY <1>1, BInvIntact DEF BatchesIntact
  <2>2. [i \in DOMAIN todo[b] |-> buffer[todo[b][i]]] = << >>
    BY <1>1
  <2>3. taken[b] \in Seq(Tasks \cup {NONE})
    BY DEF BInv, IInv, TypeOK
  <2>4. taken[b] \o << >> = taken[b]
    BY <2>3
  <2>. QED
    BY <1>1, <2>1, <2>2, <2>4, HandleBars
<1>. QED
  BY <1>1, <1>2, <1>3, <1>4, <1>5, <1>6 DEF Abstract!Release

-----------------------------------------------------------------------------
(* The theorem                                                             *)

LEMMA RefinementStep ==
  ASSUME RegionFits, ViewsAreSafe, BInv, [Next]_vars
  PROVE  [Abstract!Next]_(Abstract!queueVars)
<1>1. [StaleNext]_vars
  BY DEF StaleNext
<1>2. BInv'
  BY <1>1, BInvStep
<1>3. CASE Quiet \/ PushWrite
  <2>1. pos' = pos /\ taken' = taken /\ handle' = handle
    BY <1>3 DEF Quiet, PushWrite, handleVars, historyVars
  <2>. QED
    BY <2>1, Stutter DEF OpenHandle
<1>4. CASE PushClaim
  <2>1. current \in Tasks
    BY <1>4, ClaimEffect DEF BInv
  <2>. QED
    BY <1>2, <1>4, <2>1, OpenRefines, JoinRefines DEF Abstract!Next
<1>5. CASE OccupyRegion
  <2>1. /\ current \in Tasks /\ handle[current] = "claimed" /\ handle'[current] = "unbounded"
        /\ \A b \in Tasks : b # current => handle'[b] = handle[b]
        /\ pos' = pos /\ taken' = taken
    BY <1>5 DEF OccupyRegion, BInv, IInv, TypeOK, OwnerInv, historyVars
  <2>. QED
    BY <2>1, Stutter DEF OpenHandle
<1>6. ASSUME NEW b \in Tasks, WakeDone(b) PROVE UNCHANGED Abstract!queueVars
  <2>1. /\ handle[b] = "waking" /\ handle'[b] = "released" /\ pos' = pos /\ taken' = taken
        /\ \A c \in Tasks : c # b => handle'[c] = handle[c]
    BY <1>6 DEF WakeDone, BInv, IInv, TypeOK, historyVars
  <2>. QED
    BY <2>1, Stutter DEF OpenHandle
<1>7. ASSUME NEW b \in Tasks, NEW view \in Views, SetBounds(b, view) PROVE Abstract!Next
  BY <1>7, BoundRefines DEF Abstract!Next
<1>8. ASSUME NEW b \in Tasks, VisitCell(b) PROVE Abstract!Next
  BY <1>8, DeliverRefines DEF Abstract!Next
<1>9. ASSUME NEW b \in Tasks, DeoccupyRegion(b) PROVE Abstract!Next
  BY <1>9, ReleaseRefines DEF Abstract!Next
<1>10. TypeOK
  BY DEF BInv, IInv
<1>. QED
  BY <1>1, <1>3, <1>4, <1>5, <1>6, <1>7, <1>8, <1>9, <1>10, Effects

(***************************************************************************)
(* StackQueue implements BatchQueue for every buffer size whose regions    *)
(* their counters can count: with as_slices for any number of tasks, with  *)
(* the iterators until the index wraps.  A claim is Open or Join, bounding *)
(* a batch is Bound, a visit Deliver, the fetch_sub Release, and all other *)
(* steps are invisible.                                                    *)
(***************************************************************************)
THEOREM QueueImplementsBatches ==
  ASSUME RegionFits, ViewsAreSafe
  PROVE  Spec => ImplementsBatchQueue
<1>1. Spec => []BInv
  BY BatchInvariance
<1>2. Init => Abstract!Init
  BY RefinementInit
<1>3. BInv /\ [Next]_vars => [Abstract!Next]_(Abstract!queueVars)
  BY RefinementStep
<1>. QED
  BY <1>1, <1>2, <1>3, PTL DEF Spec, ImplementsBatchQueue, Abstract!Spec

=============================================================================
