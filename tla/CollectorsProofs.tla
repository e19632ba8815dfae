-------------------------- MODULE CollectorsProofs --------------------------
(***************************************************************************)
(* Proofs about Collectors, for any number of tasks and queues, any        *)
(* capacity and any division of the tasks among reducers, background tasks *)
(* and batch_collect: waiters are registered, batches have a collector,    *)
(* and every task is counted once.                                         *)
(***************************************************************************)
EXTENDS Collectors, TLAPS, FiniteSetTheorems, SequenceTheorems

-----------------------------------------------------------------------------
(* The inductive invariant                                                 *)

AtWork == {"consuming", "draining", "discarding"}

\* The state of a future says whether it holds a batch, and in which state.
HolderInv ==
  \A t \in Tasks :
    /\ future[t] \in {"called", "unbatched", "joined"} => home[t] = NONE
    /\ future[t] = "called" => t \in scheduled
    /\ future[t] = "collecting" =>
         home[t] \in Queues /\ open[home[t]] = t /\ t \in scheduled
    /\ future[t] \in AtWork => home[t] \in Queues /\ open[home[t]] # t
    /\ future[t] = "collected" => home[t] \in Queues
    /\ t \in released => home[t] \in Queues
    /\ home[t] \in Queues =>
         (t \in released <=> future[t] \in {"collected", "dropped"})

\* An open batch waits for the second poll of the future that opened it.
OpenInv ==
  \A q \in Queues : open[q] # NONE => home[open[q]] = q /\ future[open[q]] = "collecting"

\* A task is in at most one batch, once, and only after its future was told so.
BatchInv ==
  /\ \A a, b \in Tasks : \A i \in DOMAIN batch[a], j \in DOMAIN batch[b] :
       batch[a][i] = batch[b][j] => a = b /\ i = j
  /\ \A t \in Tasks :
       /\ future[t] \in {"called", "unbatched"} => ~ Queue!Batched(t)
       /\ future[t] \in {"joined", "collecting", "collected"} \cup AtWork => Queue!Batched(t)
       /\ home[t] = NONE => batch[t] = << >>

\* What was handed out is a prefix of the batch, and what the collector received
\* is a prefix of that; the rest was dropped in its cells.
DeliveryInv ==
  \A b \in Tasks :
    /\ Len(given[b]) <= Len(delivered[b]) /\ Len(delivered[b]) <= Len(batch[b])
    /\ \A i \in 1 .. Len(delivered[b]) : delivered[b][i] = batch[b][i]
    /\ \A i \in 1 .. Len(given[b]) : given[b][i] = batch[b][i]
    /\ \A i \in 1 .. Len(delivered[b]) : i > Len(given[b]) => batch[b][i] \in wasted
    /\ Len(given[b]) < Len(delivered[b]) =>
         future[b] \in {"discarding", "dropped"} \/ StopsEarly(b)
    /\ future[b] = "draining" => StopsEarly(b)
    /\ future[b] \in {"called", "unbatched", "joined", "collecting", "consuming"} =>
         Len(given[b]) = Len(delivered[b])
    /\ b \in released => Len(delivered[b]) = Len(batch[b])

IInv == TypeOK /\ HolderInv /\ OpenInv /\ WaitersAreRegistered /\ BatchInv /\ DeliveryInv


-----------------------------------------------------------------------------
(* Wakers and types                                                        *)

\* Park appends: what was parked stays parked.
LEMMA AppendContains ==
  ASSUME NEW S, NEW s \in Seq(S), NEW e \in S
  PROVE  Contains(Append(s, e), e) /\ \A x : Contains(s, x) => Contains(Append(s, e), x)
PROOF
<1>1. /\ Append(s, e)[Len(s) + 1] = e /\ Len(Append(s, e)) = Len(s) + 1 /\ Len(s) \in Nat
      /\ \A i \in 1 .. Len(s) : Append(s, e)[i] = s[i]
  OBVIOUS
<1>2. Len(s) + 1 \in 1 .. Len(Append(s, e)) /\ 1 .. Len(s) \subseteq 1 .. Len(Append(s, e))
  BY <1>1
<1>3. Contains(Append(s, e), e)
  BY <1>1, <1>2, Zenon DEF Contains
<1>4. ASSUME NEW x, Contains(s, x) PROVE Contains(Append(s, e), x)
  BY <1>1, <1>2, <1>4, Zenon DEF Contains
<1> QED BY <1>3, <1>4, Zenon

\* An element of a sequence is in the prefix that is taken or in the rest.
LEMMA SplitContains ==
  ASSUME NEW S, NEW s \in Seq(S), NEW w \in Seq(S), NEW rest \in Seq(S), NEW x,
         Len(w) <= Len(s), \A i \in 1 .. Len(w) : w[i] = s[i],
         Len(rest) = Len(s) - Len(w), \A i \in 1 .. Len(rest) : rest[i] = s[i + Len(w)],
         Contains(s, x)
  PROVE  x \in Range(w) \/ Contains(rest, x)
PROOF
<1>1. PICK i \in 1 .. Len(s) : s[i] = x
  BY DEF Contains
<1>2. CASE i <= Len(w)
  <2>1. i \in DOMAIN w /\ w[i] = x
    BY <1>1, <1>2
  <2> QED BY <2>1, Zenon DEF Range
<1>3. CASE i > Len(w)
  <2>1. i - Len(w) \in 1 .. Len(rest) /\ (i - Len(w)) + Len(w) = i
    BY <1>1, <1>3
  <2>2. rest[i - Len(w)] = x
    BY <1>1, <2>1
  <2> QED BY <2>1, <2>2, Zenon DEF Contains
<1> QED BY <1>1, <1>2, <1>3

\* What Finish takes is a prefix of the parked wakers, and the rest stays.
LEMMA WokenPrefix ==
  ASSUME TypeOK, NEW q \in Queues, NEW woken \in {<< >>, TakenWakers(q)}
  PROVE  LET rest == SubSeq(pending[q], Len(woken) + 1, Len(pending[q])) IN
         /\ woken \in Seq(Tasks) /\ Len(woken) <= Len(pending[q])
         /\ \A i \in 1 .. Len(woken) : woken[i] = pending[q][i]
         /\ rest \in Seq(Tasks) /\ Len(rest) = Len(pending[q]) - Len(woken)
         /\ \A i \in 1 .. Len(rest) : rest[i] = pending[q][i + Len(woken)]
PROOF
<1> DEFINE p == pending[q]
           m == Min({Len(p), RegionSize})
<1>1. p \in Seq(Tasks) /\ Len(p) \in Nat /\ RegionSize \in Nat
  BY CollectorsAssumption DEF TypeOK
<1>2. m \in Nat /\ m <= Len(p)
  <2>1. \E x \in {Len(p), RegionSize} : \A y \in {Len(p), RegionSize} : x <= y
    BY <1>1
  <2> QED BY <1>1, <2>1 DEF Min
<1>3. /\ woken \in Seq(Tasks) /\ Len(woken) <= Len(p)
      /\ \A i \in 1 .. Len(woken) : woken[i] = p[i]
  <2>1. CASE woken = << >>
    BY <1>1, <2>1
  <2>2. CASE woken = SubSeq(p, 1, m)
    <3> HIDE DEF m, p
    <3> QED BY <1>1, <1>2, <2>2
  <2> QED BY <2>1, <2>2 DEF TakenWakers
<1>4. Len(woken) \in Nat
  BY <1>3
<1> HIDE DEF p
<1>5. /\ SubSeq(p, Len(woken) + 1, Len(p)) \in Seq(Tasks)
      /\ Len(SubSeq(p, Len(woken) + 1, Len(p))) = Len(p) - Len(woken)
      /\ \A i \in 1 .. Len(p) - Len(woken) :
           SubSeq(p, Len(woken) + 1, Len(p))[i] = p[i + Len(woken)]
  BY <1>1, <1>3, <1>4
<1> QED BY <1>3, <1>5 DEF p

LEMMA InitTypeOK == Init => TypeOK
PROOF BY DEF Init, Queue!Init, TypeOK

\* Every action keeps the types.
LEMMA TypeStep == TypeOK /\ [Next]_vars => TypeOK'
PROOF
<1> SUFFICES ASSUME TypeOK, [Next]_vars PROVE TypeOK'
  OBVIOUS
<1> USE DEF TypeOK, queueVars
<1>1. ASSUME NEW q \in Queues, NEW t \in Tasks, PushOpens(q, t) PROVE TypeOK'
  BY <1>1 DEF PushOpens, Queue!Open
<1>2. ASSUME NEW q \in Queues, NEW t \in Tasks, PushJoins(q, t) PROVE TypeOK'
  <2>1. batch' \in [Tasks -> Seq(Tasks)]
    BY <1>2 DEF PushJoins, Queue!Join
  <2> QED BY <1>2, <2>1 DEF PushJoins, Queue!Join
<1>3. ASSUME NEW q \in Queues, NEW t \in Tasks, PushRefused(q, t) PROVE TypeOK'
  BY <1>3 DEF PushRefused
<1>4. ASSUME NEW q \in Queues, NEW t \in Tasks, CallRefused(q, t) PROVE TypeOK'
  BY <1>4 DEF CallRefused
<1>5. ASSUME NEW q \in Queues, Park(q) PROVE TypeOK'
  <2>1. pending' \in [Queues -> Seq(Tasks)]
    BY <1>5 DEF Park
  <2> QED BY <1>5, <2>1 DEF Park
<1>6. ASSUME NEW b \in Tasks, Collect(b) PROVE TypeOK'
  BY <1>6 DEF Collect, Queue!Bound
<1>7. ASSUME NEW b \in Tasks, Queue!Deliver(b)
      PROVE  /\ delivered' \in [Tasks -> Seq(Tasks)]
             /\ Last(delivered'[b]) \in Tasks
  BY <1>7 DEF Queue!Deliver, Last
<1>8. ASSUME NEW b \in Tasks, Consume(b) PROVE TypeOK'
  <2>1. given' \in [Tasks -> Seq(Tasks)]
    BY <1>7, <1>8 DEF Consume
  <2> QED BY <1>7, <1>8, <2>1 DEF Consume, Queue!Deliver
<1>9. ASSUME NEW b \in Tasks, Drain(b) PROVE TypeOK'
  <2>1. wasted' \subseteq Tasks /\ delivered' \in [Tasks -> Seq(Tasks)]
    BY <1>7, <1>9 DEF Drain
  <2> QED BY <1>9, <2>1 DEF Drain, Queue!Deliver
<1>10. ASSUME NEW b \in Tasks, Finish(b) PROVE TypeOK'
  <2>1. home[b] \in Queues
    BY <1>10 DEF Finish, Queue!Release, Queue!IsBounded
  <2>2. PICK woken \in {<< >>, TakenWakers(home[b])} :
          /\ pending' = [pending EXCEPT ![home[b]] = SubSeq(@, Len(woken) + 1, Len(@))]
          /\ scheduled' = scheduled \cup {t \in Range(woken) : future[t] = "unbatched"}
    BY <1>10 DEF Finish
  <2>3. /\ woken \in Seq(Tasks)
        /\ SubSeq(pending[home[b]], Len(woken) + 1, Len(pending[home[b]])) \in Seq(Tasks)
    <3> HIDE DEF TypeOK
    <3> QED BY <2>1, WokenPrefix, Zenon
  <2>4. pending' \in [Queues -> Seq(Tasks)] /\ scheduled' \subseteq Tasks
    BY <2>1, <2>2, <2>3 DEF Range
  <2> QED BY <1>10, <2>4 DEF Finish, Queue!Release
<1>11. ASSUME NEW b \in Tasks, DropIterator(b) PROVE TypeOK'
  BY <1>11 DEF DropIterator
<1>12. ASSUME NEW t \in Tasks, DropUnbatched(t) PROVE TypeOK'
  BY <1>12 DEF DropUnbatched
<1>13. ASSUME NEW b \in Tasks, DropCollecting(b) PROVE TypeOK'
  BY <1>13 DEF DropCollecting, Queue!Bound
<1>14. CASE UNCHANGED vars
  BY <1>14 DEF vars
<1> QED
  BY <1>1, <1>2, <1>3, <1>4, <1>5, <1>6, <1>8, <1>9, <1>10, <1>11, <1>12, <1>13, <1>14
     DEF Next, WorkerStep, CollectorStep

\* A future that holds a batch is in a state that will release it.
LEMMA HolderStep == IInv /\ [Next]_vars => HolderInv'
PROOF
<1> SUFFICES ASSUME IInv, [Next]_vars PROVE HolderInv'
  OBVIOUS
<1>0. TypeOK /\ TypeOK' /\ HolderInv /\ OpenInv
  BY TypeStep DEF IInv
<1> USE CollectorsAssumption, <1>0 DEF TypeOK, queueVars, HolderInv, OpenInv, AtWork
<1>1. ASSUME NEW q \in Queues, NEW t \in Tasks, PushOpens(q, t) PROVE HolderInv'
  BY <1>1 DEF PushOpens, Polls, Queue!Open
<1>2. ASSUME NEW q \in Queues, NEW t \in Tasks, PushJoins(q, t) PROVE HolderInv'
  BY <1>2 DEF PushJoins, Polls, Queue!Join
<1>3. ASSUME NEW q \in Queues, NEW t \in Tasks, PushRefused(q, t) PROVE HolderInv'
  BY <1>3 DEF PushRefused, Polls
<1>4. ASSUME NEW q \in Queues, NEW t \in Tasks, CallRefused(q, t) PROVE HolderInv'
  BY <1>4 DEF CallRefused, Polls
<1>5. ASSUME NEW q \in Queues, Park(q) PROVE HolderInv'
  BY <1>5 DEF Park
<1>6. ASSUME NEW b \in Tasks, Collect(b) PROVE HolderInv'
  BY <1>6 DEF Collect, Queue!Bound
<1>7. ASSUME NEW b \in Tasks, Consume(b) PROVE HolderInv'
  BY <1>7 DEF Consume, Queue!Deliver
<1>8. ASSUME NEW b \in Tasks, Drain(b) PROVE HolderInv'
  BY <1>8 DEF Drain, Queue!Deliver
<1>9. ASSUME NEW b \in Tasks, Finish(b) PROVE HolderInv'
  BY <1>9 DEF Finish, Queue!Release, Queue!IsBounded
<1>10. ASSUME NEW b \in Tasks, DropIterator(b) PROVE HolderInv'
  BY <1>10 DEF DropIterator
<1>11. ASSUME NEW t \in Tasks, DropUnbatched(t) PROVE HolderInv'
  BY <1>11 DEF DropUnbatched
<1>12. ASSUME NEW b \in Tasks, DropCollecting(b) PROVE HolderInv'
  BY <1>12 DEF DropCollecting, Queue!Bound
<1>13. CASE UNCHANGED vars
  BY <1>13 DEF vars
<1> QED
  BY <1>1, <1>2, <1>3, <1>4, <1>5, <1>6, <1>7, <1>8, <1>9, <1>10, <1>11, <1>12, <1>13
     DEF Next, WorkerStep, CollectorStep

\* The open batch of a queue is held by a future that will bound it.
LEMMA OpenStep == IInv /\ [Next]_vars => OpenInv'
PROOF
<1> SUFFICES ASSUME IInv, [Next]_vars PROVE OpenInv'
  OBVIOUS
<1>0. TypeOK /\ TypeOK' /\ HolderInv /\ OpenInv
  BY TypeStep DEF IInv
<1> USE CollectorsAssumption, <1>0 DEF TypeOK, queueVars, HolderInv, OpenInv, AtWork
<1>1. ASSUME NEW q \in Queues, NEW t \in Tasks, PushOpens(q, t) PROVE OpenInv'
  BY <1>1 DEF PushOpens, Polls, Queue!Open
<1>2. ASSUME NEW q \in Queues, NEW t \in Tasks, PushJoins(q, t) PROVE OpenInv'
  BY <1>2 DEF PushJoins, Polls, Queue!Join
<1>3. ASSUME NEW q \in Queues, NEW t \in Tasks, PushRefused(q, t) PROVE OpenInv'
  BY <1>3 DEF PushRefused, Polls
<1>4. ASSUME NEW q \in Queues, NEW t \in Tasks, CallRefused(q, t) PROVE OpenInv'
  BY <1>4 DEF CallRefused, Polls
<1>5. ASSUME NEW q \in Queues, Park(q) PROVE OpenInv'
  BY <1>5 DEF Park
<1>6. ASSUME NEW b \in Tasks, Collect(b) PROVE OpenInv'
  BY <1>6 DEF Collect, Queue!Bound
<1>7. ASSUME NEW b \in Tasks, Consume(b) PROVE OpenInv'
  BY <1>7 DEF Consume, Queue!Deliver
<1>8. ASSUME NEW b \in Tasks, Drain(b) PROVE OpenInv'
  BY <1>8 DEF Drain, Queue!Deliver
<1>9. ASSUME NEW b \in Tasks, Finish(b) PROVE OpenInv'
  BY <1>9 DEF Finish, Queue!Release, Queue!IsBounded
<1>10. ASSUME NEW b \in Tasks, DropIterator(b) PROVE OpenInv'
  BY <1>10 DEF DropIterator
<1>11. ASSUME NEW t \in Tasks, DropUnbatched(t) PROVE OpenInv'
  BY <1>11 DEF DropUnbatched
<1>12. ASSUME NEW b \in Tasks, DropCollecting(b) PROVE OpenInv'
  BY <1>12 DEF DropCollecting, Queue!Bound
<1>13. CASE UNCHANGED vars
  BY <1>13 DEF vars
<1> QED
  BY <1>1, <1>2, <1>3, <1>4, <1>5, <1>6, <1>7, <1>8, <1>9, <1>10, <1>11, <1>12, <1>13
     DEF Next, WorkerStep, CollectorStep

-----------------------------------------------------------------------------
(* Waiting futures are registered                                          *)

\* A future stays within reach of a waker while it waits: Park keeps the wakers
\* that were parked, and Finish schedules those that it takes.
LEMMA RegisteredStep == IInv /\ [Next]_vars => WaitersAreRegistered'
PROOF
<1> SUFFICES ASSUME IInv, [Next]_vars PROVE WaitersAreRegistered'
  OBVIOUS
<1>0. TypeOK /\ TypeOK' /\ HolderInv /\ WaitersAreRegistered
  BY TypeStep DEF IInv
<1> DEFINE Reach(x) == \/ x \in scheduled
                       \/ \E q \in Queues : refused[q] = x \/ Contains(pending[q], x)
<1> USE CollectorsAssumption, <1>0 DEF queueVars
<1>a. ASSUME NEW x \in Tasks, UNCHANGED <<pending, refused>>, Reach(x),
             x \in scheduled => x \in scheduled'
      PROVE  Reach(x)'
  BY <1>a
<1>b. ASSUME \A x \in Tasks : future'[x] \in {"called", "unbatched"} => Reach(x)'
      PROVE  WaitersAreRegistered'
  BY <1>b DEF WaitersAreRegistered
<1>c. \A x \in Tasks : future[x] \in {"called", "unbatched"} => Reach(x)
  BY DEF WaitersAreRegistered
<1> USE DEF TypeOK
<1>1. ASSUME NEW q \in Queues, NEW t \in Tasks, PushOpens(q, t) PROVE WaitersAreRegistered'
  <2> HIDE DEF Reach
  <2>1. UNCHANGED <<pending, refused, scheduled>>
    BY <1>1 DEF PushOpens
  <2>2. \A x \in Tasks : future'[x] \in {"called", "unbatched"} => Reach(x)
    BY <1>1, <1>c DEF PushOpens
  <2> QED BY <2>1, <2>2, <1>a, <1>b
<1>2. ASSUME NEW q \in Queues, NEW t \in Tasks, PushJoins(q, t) PROVE WaitersAreRegistered'
  <2> HIDE DEF Reach
  <2>1. UNCHANGED <<pending, refused>> /\ scheduled' = scheduled \ {t}
    BY <1>2 DEF PushJoins
  <2>2. \A x \in Tasks : future'[x] \in {"called", "unbatched"} => Reach(x) /\ x # t
    BY <1>2, <1>c DEF PushJoins
  <2> QED BY <2>1, <2>2, <1>a, <1>b
<1>3. ASSUME NEW q \in Queues, NEW t \in Tasks, PushRefused(q, t) PROVE WaitersAreRegistered'
  <2>1. ASSUME NEW x \in Tasks, future'[x] \in {"called", "unbatched"} PROVE Reach(x)'
    <3>1. Reach(x)
      BY <1>3, <1>c, <2>1 DEF PushRefused
    <3>2. CASE x = t
      BY <1>3, <3>2 DEF PushRefused
    <3>3. CASE x # t
      BY <1>3, <3>1, <3>3 DEF PushRefused, Polls
    <3> QED BY <3>2, <3>3
  <2> QED BY <2>1, <1>b
<1>4. ASSUME NEW q \in Queues, NEW t \in Tasks, CallRefused(q, t) PROVE WaitersAreRegistered'
  <2>1. UNCHANGED <<pending, refused, scheduled>> /\ t \in scheduled
    BY <1>4 DEF CallRefused, Polls
  <2>2. \A x \in Tasks : future'[x] \in {"called", "unbatched"} => Reach(x)
    BY <1>4, <2>1, <1>c DEF CallRefused
  <2> HIDE DEF Reach
  <2> QED BY <2>1, <2>2, <1>a, <1>b
<1>5. ASSUME NEW q \in Queues, Park(q) PROVE WaitersAreRegistered'
  <2>1. ASSUME NEW x \in Tasks, future'[x] \in {"called", "unbatched"} PROVE Reach(x)'
    <3>1. Reach(x)
      BY <1>5, <1>c, <2>1 DEF Park
    <3>2. pending'[q] = Append(pending[q], refused[q]) /\ pending[q] \in Seq(Tasks)
      BY <1>5 DEF Park
    <3>3. CASE x \in scheduled
      BY <1>5, <3>3 DEF Park
    <3>4. ASSUME NEW p \in Queues, refused[p] = x PROVE Reach(x)'
      <4>1. CASE p = q
        <5>1. Contains(pending'[q], x)
          BY <3>2, <3>4, <4>1, AppendContains
        <5> QED BY <5>1
      <4>2. CASE p # q
        BY <1>5, <3>4, <4>2 DEF Park
      <4> QED BY <4>1, <4>2
    <3>5. ASSUME NEW p \in Queues, Contains(pending[p], x) PROVE Reach(x)'
      <4>1. /\ pending[p] \in Seq(Tasks) /\ refused[q] \in Tasks
            /\ pending'[p] \in {pending[p], Append(pending[p], refused[q])}
        BY <1>5, <3>2 DEF Park
      <4>2. Contains(Append(pending[p], refused[q]), x)
        BY <3>5, <4>1, AppendContains, Zenon
      <4>3. Contains(pending'[p], x)
        BY <3>5, <4>1, <4>2
      <4> QED BY <4>3
    <3> QED BY <3>1, <3>3, <3>4, <3>5
  <2> QED BY <2>1, <1>b
<1>6. ASSUME NEW b \in Tasks, Collect(b) \/ DropCollecting(b) PROVE WaitersAreRegistered'
  <2> HIDE DEF Reach
  <2>1. UNCHANGED <<pending, refused>> /\ scheduled' = scheduled \ {b}
    BY <1>6 DEF Collect, DropCollecting
  <2>2. \A x \in Tasks : future'[x] \in {"called", "unbatched"} => Reach(x) /\ x # b
    BY <1>6, <1>c DEF Collect, DropCollecting
  <2> QED BY <2>1, <2>2, <1>a, <1>b
<1>7. ASSUME NEW b \in Tasks, Consume(b) \/ Drain(b) \/ DropIterator(b)
      PROVE  WaitersAreRegistered'
  <2> HIDE DEF Reach
  <2>1. UNCHANGED <<pending, refused, scheduled>>
    BY <1>7 DEF Consume, Drain, DropIterator
  <2>2. \A x \in Tasks : future'[x] \in {"called", "unbatched"} => Reach(x)
    BY <1>7, <1>c DEF Consume, Drain, DropIterator
  <2> QED BY <2>1, <2>2, <1>a, <1>b
<1>8. ASSUME NEW b \in Tasks, Finish(b) PROVE WaitersAreRegistered'
  <2> DEFINE q == home[b]
  <2>1. q \in Queues
    BY <1>8 DEF Finish, Queue!Release, Queue!IsBounded
  <2>2. PICK woken \in {<< >>, TakenWakers(q)} :
          /\ pending' = [pending EXCEPT ![q] = SubSeq(@, Len(woken) + 1, Len(@))]
          /\ scheduled' = scheduled \cup {t \in Range(woken) : future[t] = "unbatched"}
    BY <1>8 DEF Finish
  <2> DEFINE rest == SubSeq(pending[q], Len(woken) + 1, Len(pending[q]))
  <2>3. /\ woken \in Seq(Tasks) /\ Len(woken) <= Len(pending[q])
        /\ \A i \in 1 .. Len(woken) : woken[i] = pending[q][i]
        /\ rest \in Seq(Tasks) /\ Len(rest) = Len(pending[q]) - Len(woken)
        /\ \A i \in 1 .. Len(rest) : rest[i] = pending[q][i + Len(woken)]
    <3> HIDE DEF TypeOK
    <3> QED BY <2>1, WokenPrefix, Zenon
  <2> HIDE DEF rest, q
  <2>n. pending[q] \in Seq(Tasks)
    BY <2>1
  <2>4. pending'[q] = rest /\ \A p \in Queues : p # q => pending'[p] = pending[p]
    BY <2>1, <2>2 DEF rest
  <2>5. ASSUME NEW x \in Tasks, future'[x] \in {"called", "unbatched"} PROVE Reach(x)'
    <3>1. Reach(x) /\ future[x] = future'[x] /\ UNCHANGED refused
      BY <1>8, <1>c, <2>5 DEF Finish
    <3>2. CASE x \in scheduled
      BY <3>2, <2>2
    <3>3. ASSUME NEW p \in Queues, refused[p] = x PROVE Reach(x)'
      BY <3>1, <3>3
    <3>4. ASSUME NEW p \in Queues, Contains(pending[p], x), p # q PROVE Reach(x)'
      BY <2>4, <3>4
    <3>5. ASSUME Contains(pending[q], x), x \notin scheduled PROVE Reach(x)'
      <4>1. x \in Range(woken) \/ Contains(rest, x)
        BY <2>3, <2>n, <3>5, SplitContains
      <4>2. CASE x \in Range(woken)
        <5>1. future[x] = "unbatched"
          BY <2>5, <3>1, <3>5 DEF HolderInv
        <5> QED BY <2>2, <4>2, <5>1
      <4>3. CASE Contains(rest, x)
        BY <2>1, <2>4, <4>3
      <4> QED BY <4>1, <4>2, <4>3
    <3> QED BY <3>1, <3>2, <3>3, <3>4, <3>5
  <2> QED BY <2>5, <1>b
<1>9. ASSUME NEW t \in Tasks, DropUnbatched(t) PROVE WaitersAreRegistered'
  <2> HIDE DEF Reach
  <2>1. UNCHANGED <<pending, refused>> /\ scheduled' = scheduled \ {t}
    BY <1>9 DEF DropUnbatched
  <2>2. \A x \in Tasks : future'[x] \in {"called", "unbatched"} => Reach(x) /\ x # t
    BY <1>9, <1>c DEF DropUnbatched
  <2> QED BY <2>1, <2>2, <1>a, <1>b
<1>10. CASE UNCHANGED vars
  BY <1>10 DEF vars, WaitersAreRegistered
<1> QED
  BY <1>1, <1>2, <1>3, <1>4, <1>5, <1>6, <1>7, <1>8, <1>9, <1>10
     DEF Next, WorkerStep, CollectorStep

-----------------------------------------------------------------------------
(* Batches and what becomes of them                                        *)

\* Only an accepted push puts a task in a batch, and a task is accepted once.
LEMMA BatchStep == IInv /\ [Next]_vars => BatchInv'
PROOF
<1> SUFFICES ASSUME IInv, [Next]_vars PROVE BatchInv'
  OBVIOUS
<1>0. TypeOK /\ TypeOK' /\ HolderInv /\ OpenInv /\ BatchInv
  BY TypeStep DEF IInv
<1>a. ASSUME UNCHANGED <<batch, home>>,
             \A t \in Tasks :
               \/ future'[t] = future[t] \/ future'[t] = "dropped"
               \/ /\ future[t] \in {"collecting"} \cup AtWork
                  /\ future'[t] \in {"collected", "dropped"} \cup AtWork
               \/ future[t] = "called" /\ future'[t] = "unbatched"
      PROVE  BatchInv'
  <2>1. \A x \in Tasks : Queue!Batched(x)' <=> Queue!Batched(x)
    BY <1>a DEF Queue!Batched
  <2>2. \A x \in Tasks :
          /\ future'[x] \in {"called", "unbatched"} => ~ Queue!Batched(x)'
          /\ future'[x] \in {"joined", "collecting", "collected"} \cup AtWork => Queue!Batched(x)'
    BY <1>0, <1>a, <2>1 DEF BatchInv, AtWork
  <2> QED BY <1>0, <1>a, <2>2 DEF BatchInv
<1>1. ASSUME NEW q \in Queues, NEW t \in Tasks, PushOpens(q, t) PROVE BatchInv'
  <2>1. /\ batch' = [batch EXCEPT ![t] = <<t>>] /\ home' = [home EXCEPT ![t] = q]
        /\ future' = [future EXCEPT ![t] = "collecting"]
        /\ future[t] \in {"called", "unbatched"} /\ ~ Queue!Batched(t) /\ batch[t] = << >>
    BY <1>0, <1>1 DEF PushOpens, Polls, Queue!Open, HolderInv, BatchInv
  <2>2. /\ batch'[t] = <<t>> /\ DOMAIN batch'[t] = {1}
        /\ \A b \in Tasks \ {t} : batch'[b] = batch[b]
    BY <1>0, <2>1 DEF TypeOK
  <2>3. \A a, b \in Tasks : \A i \in DOMAIN batch'[a], j \in DOMAIN batch'[b] :
          batch'[a][i] = batch'[b][j] => a = b /\ i = j
    BY <1>0, <2>1, <2>2 DEF BatchInv, Queue!Batched
  <2>4. \A x \in Tasks : Queue!Batched(x)' <=> Queue!Batched(x) \/ x = t
    BY <2>1, <2>2 DEF Queue!Batched
  <2>5. \A x \in Tasks :
          /\ future'[x] \in {"called", "unbatched"} => ~ Queue!Batched(x)'
          /\ future'[x] \in {"joined", "collecting", "collected"} \cup AtWork => Queue!Batched(x)'
    BY <1>0, <2>1, <2>4 DEF BatchInv, TypeOK
  <2>6. \A x \in Tasks : home'[x] = NONE => batch'[x] = << >>
    BY <1>0, <2>1, <2>2, CollectorsAssumption DEF BatchInv, TypeOK
  <2> QED BY <2>3, <2>5, <2>6 DEF BatchInv
<1>2. ASSUME NEW q \in Queues, NEW t \in Tasks, PushJoins(q, t) PROVE BatchInv'
  <2> DEFINE o == open[q]
  <2>1. o \in Tasks /\ home[o] = q
    BY <1>0, <1>2, CollectorsAssumption DEF PushJoins, Queue!Join, OpenInv, TypeOK
  <2>2. /\ batch' = [batch EXCEPT ![o] = Append(@, t)] /\ home' = home
        /\ future' = [future EXCEPT ![t] = "joined"]
        /\ future[t] \in {"called", "unbatched"} /\ ~ Queue!Batched(t)
    BY <1>0, <1>2 DEF PushJoins, Polls, Queue!Join
  <2> HIDE DEF o
  <2> DEFINE n == Len(batch[o]) + 1
  <2>a. batch[o] \in Seq(Tasks) /\ batch'[o] = Append(batch[o], t)
    BY <1>0, <2>1, <2>2 DEF TypeOK
  <2>3. /\ DOMAIN batch'[o] = DOMAIN batch[o] \cup {n} /\ n \notin DOMAIN batch[o]
        /\ batch'[o][n] = t /\ \A i \in DOMAIN batch[o] : batch'[o][i] = batch[o][i]
    BY <2>a
  <2>4. \A b \in Tasks \ {o} : batch'[b] = batch[b]
    BY <1>0, <2>1, <2>2 DEF TypeOK
  <2> HIDE DEF n
  <2>5. \A a, b \in Tasks : \A i \in DOMAIN batch'[a], j \in DOMAIN batch'[b] :
          batch'[a][i] = batch'[b][j] => a = b /\ i = j
    BY <1>0, <2>1, <2>2, <2>3, <2>4 DEF BatchInv, Queue!Batched
  <2>6. \A x \in Tasks : Queue!Batched(x)' <=> Queue!Batched(x) \/ x = t
    BY <2>1, <2>3, <2>4 DEF Queue!Batched
  <2>7. home[o] # NONE
    BY <2>1, CollectorsAssumption
  <2>9. \A x \in Tasks :
          /\ future'[x] \in {"called", "unbatched"} => ~ Queue!Batched(x)'
          /\ future'[x] \in {"joined", "collecting", "collected"} \cup AtWork => Queue!Batched(x)'
    BY <1>0, <2>2, <2>6 DEF BatchInv, TypeOK
  <2>10. \A x \in Tasks : home'[x] = NONE => batch'[x] = << >>
    BY <1>0, <2>2, <2>4, <2>7 DEF BatchInv
  <2> QED BY <2>5, <2>9, <2>10 DEF BatchInv
<1>3. ASSUME NEW q \in Queues, NEW t \in Tasks, PushRefused(q, t) \/ CallRefused(q, t)
      PROVE  BatchInv'
  BY <1>0, <1>3, <1>a DEF PushRefused, CallRefused, Polls, queueVars, TypeOK
<1>4. ASSUME NEW q \in Queues, Park(q) PROVE BatchInv'
  BY <1>0, <1>4, <1>a DEF Park, queueVars
<1>5. ASSUME NEW b \in Tasks, CollectorStep(b) \/ DropIterator(b) \/ DropCollecting(b)
      PROVE  BatchInv'
  <2>1. UNCHANGED <<batch, home>>
    BY <1>5 DEF CollectorStep, Collect, Consume, Drain, Finish, DropIterator, DropCollecting,
                queueVars, Queue!Bound, Queue!Deliver, Queue!Release
  <2>2. \A t \in Tasks : \/ future'[t] = future[t]
                         \/ /\ future[t] \in {"collecting"} \cup AtWork
                            /\ future'[t] \in {"collected", "dropped"} \cup AtWork
    BY <1>0, <1>5 DEF CollectorStep, Collect, Consume, Drain, Finish, DropIterator,
                      DropCollecting, AtWork, TypeOK
  <2> QED BY <2>1, <2>2, <1>a
<1>6. ASSUME NEW t \in Tasks, DropUnbatched(t) PROVE BatchInv'
  BY <1>0, <1>6, <1>a DEF DropUnbatched, queueVars, TypeOK
<1>7. CASE UNCHANGED vars
  BY <1>7, <1>a DEF vars, queueVars
<1> QED BY <1>1, <1>2, <1>3, <1>4, <1>5, <1>6, <1>7 DEF Next, WorkerStep

\* The pair of steps that hand out the next task of a batch, to the collector or,
\* when the rest is dropped, to nobody.
LEMMA DeliveryStep == IInv /\ [Next]_vars => DeliveryInv'
PROOF
<1> SUFFICES ASSUME IInv, [Next]_vars PROVE DeliveryInv'
  OBVIOUS
<1>0. TypeOK /\ TypeOK' /\ HolderInv /\ OpenInv /\ BatchInv /\ DeliveryInv
  BY TypeStep DEF IInv
<1> DEFINE P(b) ==
      /\ Len(given[b]) <= Len(delivered[b]) /\ Len(delivered[b]) <= Len(batch[b])
      /\ \A i \in 1 .. Len(delivered[b]) : delivered[b][i] = batch[b][i]
      /\ \A i \in 1 .. Len(given[b]) : given[b][i] = batch[b][i]
      /\ \A i \in 1 .. Len(delivered[b]) : i > Len(given[b]) => batch[b][i] \in wasted
    H(b) ==
      /\ Len(given[b]) < Len(delivered[b]) =>
           future[b] \in {"discarding", "dropped"} \/ StopsEarly(b)
      /\ future[b] = "draining" => StopsEarly(b)
      /\ future[b] \in {"called", "unbatched", "joined", "collecting", "consuming"} =>
           Len(given[b]) = Len(delivered[b])
      /\ b \in released => Len(delivered[b]) = Len(batch[b])
<1>a. \A b \in Tasks : P(b) /\ H(b)
  BY <1>0 DEF DeliveryInv
<1>b. ASSUME \A b \in Tasks : P(b)' /\ H(b)' PROVE DeliveryInv'
  BY <1>b DEF DeliveryInv, StopsEarly
<1>c. \A b \in Tasks : /\ batch[b] \in Seq(Tasks) /\ delivered[b] \in Seq(Tasks) /\ given[b] \in Seq(Tasks)
                       /\ Len(batch[b]) \in Nat /\ Len(delivered[b]) \in Nat /\ Len(given[b]) \in Nat
  BY <1>0 DEF TypeOK
<1>d. ASSUME UNCHANGED <<batch, delivered, given, wasted, released>>,
             \A x \in Tasks :
               \/ future'[x] = future[x]
               \/ future[x] = "consuming" /\ future'[x] = "draining" /\ StopsEarly(x)
               \/ future[x] = "called" /\ future'[x] = "unbatched"
               \/ future[x] = "collecting" /\ future'[x] \in {"consuming", "discarding"}
               \/ future[x] = "unbatched" /\ future'[x] = "dropped"
      PROVE  DeliveryInv'
  <2>1. ASSUME NEW x \in Tasks PROVE P(x)' /\ H(x)'
    <3>1. P(x)'
      BY <1>a, <1>d
    <3>2. H(x)'
      BY <1>a, <1>c, <1>d DEF StopsEarly
    <3> QED BY <3>1, <3>2
  <2> HIDE DEF P, H
  <2> QED BY <1>b, <2>1
<1>1. ASSUME NEW q \in Queues, NEW t \in Tasks, PushOpens(q, t) PROVE DeliveryInv'
  <2>1. /\ batch' = [batch EXCEPT ![t] = <<t>>] /\ batch[t] = << >>
        /\ future' = [future EXCEPT ![t] = "collecting"] /\ t \notin released
        /\ UNCHANGED <<delivered, given, wasted, released>>
        /\ future[t] \in {"called", "unbatched"}
    BY <1>0, <1>1 DEF PushOpens, Polls, Queue!Open, HolderInv, BatchInv, AtWork
  <2>2. ASSUME NEW x \in Tasks, x # t PROVE P(x)' /\ H(x)'
    <3>1. UNCHANGED <<batch[x], delivered[x], given[x], wasted, released, future[x]>>
      BY <1>0, <2>1, <2>2 DEF TypeOK
    <3>2. P(x) /\ H(x)
      BY <1>a
    <3> QED BY <3>1, <3>2 DEF StopsEarly
  <2>3. P(t)' /\ H(t)'
    <3>1. /\ delivered[t] = << >> /\ given[t] = << >> /\ batch'[t] = <<t>>
          /\ future'[t] = "collecting" /\ t \notin released
      BY <1>0, <1>a, <1>c, <2>1 DEF TypeOK
    <3> QED BY <2>1, <3>1
  <2> HIDE DEF P, H
  <2> QED BY <1>b, <2>2, <2>3
<1>2. ASSUME NEW q \in Queues, NEW t \in Tasks, PushJoins(q, t) PROVE DeliveryInv'
  <2> DEFINE o == open[q]
  <2>1. o \in Tasks /\ future[o] = "collecting" /\ o \notin released
    <3>1. o \in Tasks /\ home[o] = q /\ future[o] = "collecting"
      BY <1>0, <1>2 DEF PushJoins, Queue!Join, OpenInv, TypeOK
    <3> QED BY <1>0, <3>1 DEF HolderInv
  <2>2. /\ batch' = [batch EXCEPT ![o] = Append(@, t)]
        /\ future' = [future EXCEPT ![t] = "joined"] /\ future[t] \in {"called", "unbatched"}
        /\ UNCHANGED <<delivered, given, wasted, released>>
    BY <1>0, <1>2 DEF PushJoins, Polls, Queue!Join
  <2> HIDE DEF o
  <2>3. /\ batch[o] \in Seq(Tasks) /\ batch'[o] = Append(batch[o], t)
        /\ \A x \in Tasks : x # o => batch'[x] = batch[x]
    BY <1>0, <2>1, <2>2 DEF TypeOK
  <2>4. Len(batch'[o]) = Len(batch[o]) + 1 /\ \A i \in 1 .. Len(batch[o]) : batch'[o][i] = batch[o][i]
    BY <2>3
  <2>5. ASSUME NEW x \in Tasks PROVE P(x)' /\ H(x)'
    <3>1. P(x) /\ H(x)
      BY <1>a
    <3>2. /\ Len(batch[x]) <= Len(batch'[x])
          /\ \A i \in 1 .. Len(batch[x]) : batch'[x][i] = batch[x][i]
          /\ x \in released => batch'[x] = batch[x]
      <4>1. CASE x = o
        BY <1>c, <2>1, <2>4, <4>1
      <4>2. CASE x # o
        BY <1>c, <2>3, <4>2
      <4> QED BY <4>1, <4>2
    <3>3. Len(batch'[x]) \in Nat
      BY <1>0 DEF TypeOK
    <3>4. P(x)'
      BY <1>c, <2>2, <3>1, <3>2, <3>3
    <3>5. \/ future'[x] = future[x]
          \/ future[x] \in {"called", "unbatched"} /\ future'[x] = "joined"
      BY <1>0, <2>2 DEF TypeOK
    <3>6. H(x)'
      BY <1>c, <2>2, <3>1, <3>2, <3>5 DEF StopsEarly
    <3> QED BY <3>4, <3>6
  <2> HIDE DEF P, H
  <2> QED BY <1>b, <2>5
<1>3. ASSUME NEW q \in Queues, NEW t \in Tasks, PushRefused(q, t) \/ CallRefused(q, t)
      PROVE  DeliveryInv'
  BY <1>0, <1>3, <1>d DEF PushRefused, CallRefused, queueVars, TypeOK
<1>4. ASSUME NEW q \in Queues, Park(q) PROVE DeliveryInv'
  BY <1>4, <1>d DEF Park, queueVars
<1>5. ASSUME NEW b \in Tasks, Collect(b) \/ DropCollecting(b) PROVE DeliveryInv'
  BY <1>0, <1>5, <1>d DEF Collect, DropCollecting, Queue!Bound, TypeOK
<1>6. ASSUME NEW b \in Tasks, DropIterator(b) PROVE DeliveryInv'
  BY <1>0, <1>6, <1>d DEF DropIterator, queueVars, TypeOK
<1>7. ASSUME NEW b \in Tasks, Queue!Deliver(b), UNCHANGED future,
             \/ /\ future[b] = "consuming"
                /\ given' = [given EXCEPT ![b] = Append(@, Last(delivered'[b]))]
                /\ UNCHANGED wasted
             \/ /\ future[b] \in {"draining", "discarding"}
                /\ wasted' = wasted \cup {Last(delivered'[b])}
                /\ UNCHANGED given
      PROVE  DeliveryInv'
  <2> DEFINE n == Len(delivered[b]) + 1
  <2>1. /\ delivered' = [delivered EXCEPT ![b] = Append(@, batch[b][n])]
        /\ n \in Nat /\ n <= Len(batch[b]) /\ batch[b][n] \in Tasks
        /\ b \notin released /\ UNCHANGED <<batch, released>>
    BY <1>7, <1>c DEF Queue!Deliver, Queue!IsBounded
  <2>2. delivered'[b] = Append(delivered[b], batch[b][n])
    BY <1>0, <2>1 DEF TypeOK
  <2>3. /\ Len(delivered'[b]) = n /\ delivered'[b][n] = batch[b][n]
        /\ \A i \in 1 .. Len(delivered[b]) : delivered'[b][i] = delivered[b][i]
        /\ Last(delivered'[b]) = batch[b][n]
    BY <1>c, <2>1, <2>2 DEF Last
  <2>4. P(b) /\ H(b)
    BY <1>a
  <2>5. ASSUME NEW x \in Tasks, x # b PROVE P(x)' /\ H(x)'
    <3>1. UNCHANGED <<batch[x], delivered[x], given[x], released, future[x]>>
      BY <1>0, <1>7, <2>1, <2>5 DEF TypeOK
    <3>2. P(x) /\ H(x) /\ wasted \subseteq wasted'
      BY <1>7, <1>a
    <3> QED BY <3>1, <3>2 DEF StopsEarly
  <2>6. ASSUME future[b] = "consuming" PROVE P(b)' /\ H(b)'
    <3>1. given'[b] = Append(given[b], batch[b][n]) /\ UNCHANGED wasted
      BY <1>0, <1>7, <2>3, <2>6 DEF TypeOK
    <3>2. Len(given[b]) = Len(delivered[b])
      BY <2>4, <2>6
    <3> HIDE DEF n
    <3>3. /\ Len(given'[b]) = n /\ given'[b][n] = batch[b][n] /\ n = Len(delivered[b]) + 1
          /\ \A i \in 1 .. Len(delivered[b]) : given'[b][i] = given[b][i]
      BY <1>c, <2>1, <3>1, <3>2 DEF n
    <3>4. P(b)'
      BY <1>c, <2>1, <2>3, <2>4, <3>2, <3>3
    <3>5. H(b)'
      BY <1>7, <2>1, <2>3, <2>6, <3>3
    <3> QED BY <3>4, <3>5
  <2>7. ASSUME future[b] \in {"draining", "discarding"} PROVE P(b)' /\ H(b)'
    <3>1. UNCHANGED given /\ wasted' = wasted \cup {batch[b][n]}
      BY <1>7, <2>3, <2>7
    <3>2. n = Len(delivered[b]) + 1
      OBVIOUS
    <3> HIDE DEF n
    <3>4. P(b)'
      BY <1>c, <2>1, <2>3, <2>4, <3>1, <3>2
    <3>5. H(b)'
      BY <1>7, <2>1, <2>3, <2>4, <2>7 DEF StopsEarly
    <3> QED BY <3>4, <3>5
  <2> HIDE DEF P, H
  <2> QED BY <1>7, <1>b, <2>5, <2>6, <2>7
<1>8. ASSUME NEW b \in Tasks, Consume(b) \/ Drain(b) PROVE DeliveryInv'
  BY <1>7, <1>8 DEF Consume, Drain
<1>9. ASSUME NEW b \in Tasks, Finish(b) PROVE DeliveryInv'
  <2>1. /\ UNCHANGED <<batch, delivered, given, wasted>> /\ released' = released \cup {b}
        /\ Len(delivered[b]) = Len(batch[b])
        /\ future[b] \in AtWork
        /\ future' = [future EXCEPT ![b] = IF @ = "discarding" THEN "dropped" ELSE "collected"]
    BY <1>9 DEF Finish, Queue!Release, AtWork
  <2>2. ASSUME NEW x \in Tasks PROVE P(x)' /\ H(x)'
    <3>1. P(x) /\ H(x)
      BY <1>a
    <3>2. P(x)'
      BY <2>1, <3>1
    <3>3. /\ x # b => future'[x] = future[x]
          /\ x = b => future'[b] = IF future[b] = "discarding" THEN "dropped" ELSE "collected"
      BY <1>0, <2>1 DEF TypeOK
    <3>4. H(x)'
      <4>1. CASE x # b
        BY <2>1, <3>1, <3>3, <4>1 DEF StopsEarly
      <4>2. CASE x = b
        BY <1>c, <2>1, <3>1, <3>3, <4>2 DEF AtWork, StopsEarly
      <4> QED BY <4>1, <4>2
    <3> QED BY <3>2, <3>4
  <2> HIDE DEF P, H
  <2> QED BY <1>b, <2>2
<1>10. ASSUME NEW t \in Tasks, DropUnbatched(t) PROVE DeliveryInv'
  BY <1>0, <1>10, <1>d DEF DropUnbatched, queueVars, TypeOK
<1>11. CASE UNCHANGED vars
  BY <1>11, <1>d DEF vars, queueVars
<1> QED
  BY <1>1, <1>2, <1>3, <1>4, <1>5, <1>6, <1>8, <1>9, <1>10, <1>11
     DEF Next, WorkerStep, CollectorStep

-----------------------------------------------------------------------------
(* Theorems                                                                *)

LEMMA InitIInv == Init => IInv
PROOF
<1> SUFFICES ASSUME Init PROVE IInv
  OBVIOUS
<1>1. TypeOK
  BY InitTypeOK
<1>2. HolderInv /\ OpenInv
  BY CollectorsAssumption DEF Init, Queue!Init, HolderInv, OpenInv, AtWork
<1>3. WaitersAreRegistered
  BY DEF Init, WaitersAreRegistered
<1>4. BatchInv
  BY DEF Init, Queue!Init, BatchInv, Queue!Batched, AtWork
<1>5. DeliveryInv
  BY DEF Init, Queue!Init, DeliveryInv
<1> QED BY <1>1, <1>2, <1>3, <1>4, <1>5 DEF IInv

(***************************************************************************)
(* The inductive invariant: what a future's state says about the batch it  *)
(* holds (HolderInv, OpenInv), where its waker is, which tasks are in      *)
(* which batch (BatchInv) and what became of them (DeliveryInv).           *)
(***************************************************************************)
THEOREM Invariance == Spec => []IInv
PROOF
<1>1. IInv /\ [Next]_vars => IInv'
  BY TypeStep, HolderStep, OpenStep, RegisteredStep, BatchStep, DeliveryStep, Zenon DEF IInv
<1> QED BY <1>1, InitIInv, PTL DEF Spec

(***************************************************************************)
(* The states of futures, batches and wakers keep their types in every     *)
(* behaviour of the workers and the collectors.                            *)
(***************************************************************************)
THEOREM TypeCorrect == Spec => []TypeOK
PROOF BY Invariance, PTL DEF IInv

(***************************************************************************)
(* However many workers share the load, and however few wakers a release   *)
(* takes from pending, a future that waits stays registered until it is    *)
(* batched or dropped: scheduled, about to park, or parked in some queue.  *)
(* That the queue will release a batch again is not part of the claim.     *)
(***************************************************************************)
THEOREM WaitersStayRegistered == Spec => []WaitersAreRegistered
PROOF BY Invariance, PTL DEF IInv

LEMMA IInvCollector == IInv => BatchHasCollector
PROOF
<1> SUFFICES ASSUME IInv, NEW q \in Queues, NEW b \in Queue!LiveIn(q)
             PROVE  \/ future[b] = "collecting" /\ b \in scheduled
                    \/ future[b] \in {"consuming", "draining", "discarding"}
  BY DEF BatchHasCollector
<1>1. b \in Tasks /\ home[b] = q /\ b \notin released /\ home[b] # NONE
  BY CollectorsAssumption DEF Queue!LiveIn
<1>2. future[b] \notin {"called", "unbatched", "joined", "collected", "dropped"}
  BY <1>1 DEF IInv, HolderInv
<1>3. future[b] = "collecting" => b \in scheduled
  BY <1>1 DEF IInv, HolderInv
<1> QED BY <1>1, <1>2, <1>3 DEF IInv, TypeOK

(***************************************************************************)
(* Every batch that is not released is held by a future that is scheduled  *)
(* to bound it, or at work on it, so those who joined it and those who     *)
(* wait for its region do not wait for nobody.                             *)
(***************************************************************************)
THEOREM BatchesHaveCollectors == Spec => []BatchHasCollector
PROOF BY Invariance, IInvCollector, PTL

\* Where a task was received: at its own place of the one batch that it is in.
LEMMA ReceivedInPlace ==
  ASSUME IInv, NEW t, NEW e
  PROVE  e \in Received(t) <=>
           \E b \in Tasks : \E i \in 1 .. Len(given[b]) : e = <<b, i>> /\ batch[b][i] = t
PROOF
<1>1. ASSUME NEW b \in Tasks
      PROVE  {i \in DOMAIN given[b] : given[b][i] = t} =
               {i \in 1 .. Len(given[b]) : batch[b][i] = t}
  <2>1. DOMAIN given[b] = 1 .. Len(given[b])
    BY DEF IInv, TypeOK
  <2> QED BY <2>1 DEF IInv, DeliveryInv
<1> QED BY <1>1 DEF Received

LEMMA IInvCountsOnce == IInv => EachTaskCountsOnce
PROOF
<1> SUFFICES ASSUME IInv PROVE EachTaskCountsOnce
  OBVIOUS
<1> USE DEF IInv
<1>1. ASSUME NEW b \in Tasks
      PROVE  /\ DOMAIN batch[b] = 1 .. Len(batch[b]) /\ 1 .. Len(given[b]) \subseteq DOMAIN batch[b]
             /\ Len(batch[b]) \in Nat /\ Len(given[b]) \in Nat
  <2>1. /\ DOMAIN batch[b] = 1 .. Len(batch[b]) /\ Len(batch[b]) \in Nat
        /\ Len(given[b]) \in Nat /\ Len(delivered[b]) \in Nat
    BY DEF TypeOK
  <2> QED BY <2>1 DEF DeliveryInv
<1>2. ASSUME NEW t \in Tasks, NEW e \in Received(t) PROVE Received(t) = {e}
  <2>1. ASSUME NEW f \in Received(t) PROVE f = e
    <3>1. PICK a \in Tasks : \E i \in 1 .. Len(given[a]) : e = <<a, i>> /\ batch[a][i] = t
      BY <1>2, ReceivedInPlace
    <3>2. PICK b \in Tasks : \E j \in 1 .. Len(given[b]) : f = <<b, j>> /\ batch[b][j] = t
      BY <2>1, ReceivedInPlace
    <3>3. PICK i \in DOMAIN batch[a] : e = <<a, i>> /\ batch[a][i] = t
      BY <1>1, <3>1
    <3>4. PICK j \in DOMAIN batch[b] : f = <<b, j>> /\ batch[b][j] = t
      BY <1>1, <3>2
    <3> QED BY <3>3, <3>4 DEF BatchInv
  <2> QED BY <1>2, <2>1
<1>3. ASSUME NEW t \in Tasks
      PROVE  /\ Received(t) = {} => Cardinality(Received(t)) = 0
             /\ Received(t) # {} => Cardinality(Received(t)) = 1
  BY <1>2, FS_EmptySet, FS_Singleton
<1>4. \A t \in Tasks : Cardinality(Received(t)) <= 1
  BY <1>3
<1>5. ASSUME \A t \in Tasks : future[t] \in {"joined", "collected"}, NEW t \in Tasks
      PROVE  \/ Cardinality(Received(t)) = 1
             \/ \E b \in Reducers \cup Background : t \in wasted /\ Contains(batch[b], t)
  <2>a. PICK b \in Tasks : \E i \in DOMAIN batch[b] : batch[b][i] = t
    BY <1>5 DEF BatchInv, Queue!Batched
  <2>1. PICK i \in DOMAIN batch[b] : batch[b][i] = t
    BY <2>a
  <2>2. home[b] \in Queues
    BY <2>1 DEF BatchInv, TypeOK
  <2>3. future[b] = "collected" /\ b \in released
    BY <1>5, <2>2, CollectorsAssumption DEF HolderInv
  <2>4. i \in 1 .. Len(delivered[b])
    BY <1>1, <2>1, <2>3 DEF DeliveryInv
  <2>5. CASE i \in 1 .. Len(given[b])
    <3>1. Received(t) # {}
      BY <2>1, <2>5, ReceivedInPlace
    <3> QED BY <3>1, <1>3
  <2>6. CASE i \notin 1 .. Len(given[b])
    <3>1. i > Len(given[b]) /\ Len(given[b]) < Len(delivered[b])
      <4>1. Len(delivered[b]) \in Nat
        BY DEF TypeOK
      <4> QED BY <1>1, <2>4, <2>6, <4>1
    <3>2. t \in wasted /\ StopsEarly(b)
      BY <2>1, <2>3, <2>4, <3>1 DEF DeliveryInv
    <3>3. Contains(batch[b], t)
      BY <1>1, <2>1 DEF Contains
    <3> QED BY <3>2, <3>3 DEF StopsEarly
  <2> QED BY <2>5, <2>6
<1> QED BY <1>4, <1>5 DEF EachTaskCountsOnce

(***************************************************************************)
(* No task is received twice, and once every future has its answer every   *)
(* task was received, but for those that a reducer or a background process *)
(* left in its iterator: the totals the tests of batch_reduce and of       *)
(* batch_collect compare are right for any number of futures and workers.  *)
(***************************************************************************)
THEOREM TasksCountOnce == Spec => []EachTaskCountsOnce
PROOF BY Invariance, IInvCountsOnce, PTL

=============================================================================
