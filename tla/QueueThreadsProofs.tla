------------------------- MODULE QueueThreadsProofs -------------------------
(***************************************************************************)
(* Proofs about QueueThreads, for every set of values, bound on the sizes, *)
(* and element size.                                                       *)
(***************************************************************************)
EXTENDS QueueThreads, QueueProofs

\* The inductive invariant.  A thread past its test relies on what the test
\* found, which only that thread's own store can change.
Inv ==
  /\ TypeOK
  /\ epc \in {"write", "publish"} => ~IsFull(q)
  /\ epc = "publish" => q.data[q.tail] = item
  /\ dpc \in {"copy", "advance"} => ~IsEmpty(q)
  /\ dpc = "advance" => out = GetFront(q)

\* Sizes are positive.
LEMMA SizesPositive == \A n \in Sizes : n \in Nat \ {0}
BY QueueAssumption DEF Sizes

\* The invariant holds initially.
LEMMA InitInv == Init => Inv
<1> SUFFICES ASSUME Init PROVE Inv
  OBVIOUS
<1>1. PICK n \in Sizes : q = NewQueue(n, None)
  BY DEF Init
<1>2. q \in Queues(n, MaybeValues)
  BY <1>1, SizesPositive DEF NewQueue, Queues, MaybeValues
<1> QED
  BY <1>2 DEF Init, Inv, TypeOK, MaybeValues

\* Every step preserves the invariant.
LEMMA NextInv == Inv /\ [Next]_qvars => Inv'
<1> SUFFICES ASSUME Inv, [Next]_qvars PROVE Inv'
  OBVIOUS
<1>0. PICK n \in Sizes : q \in Queues(n, MaybeValues)
  BY DEF Inv, TypeOK
<1>n. n \in Nat \ {0} /\ n \in Sizes
  BY SizesPositive
<1>q. q.size = n /\ q.head \in 0 .. n - 1 /\ q.tail \in 0 .. n - 1 /\ q.data \in [0 .. n - 1 -> MaybeValues]
  BY <1>0 DEF Queues
<1>s. /\ NextSlot(q.tail, n) = IF q.tail = n - 1 THEN 0 ELSE q.tail + 1
      /\ NextSlot(q.head, n) = IF q.head = n - 1 THEN 0 ELSE q.head + 1
  BY <1>n, <1>q, NextSlotIs
<1> USE DEF Inv, TypeOK, enqueuer, dequeuer
<1>1. ASSUME NEW x \in Values, EnQueueTest(x) PROVE Inv'
  BY <1>1 DEF EnQueueTest, EnQueueOk, MaybeValues
<1>2. CASE EnQueueWrite
  <2>1. q' \in Queues(n, MaybeValues) /\ q'.tail = q.tail /\ q'.head = q.head /\ q'.size = q.size
    BY <1>0, <1>2 DEF EnQueueWrite, Queues
  <2>0. q'.data = [q.data EXCEPT ![q.tail] = item]
    BY <1>0, <1>2 DEF EnQueueWrite, Queues
  <2>2. q'.data[q.tail] = item
    BY <1>q, <2>0
  <2>3. dpc \in {"copy", "advance"} => q.tail # q.head
    BY DEF IsEmpty
  <2>4. dpc = "advance" => GetFront(q') = GetFront(q)
    BY <1>q, <1>2, <2>3 DEF EnQueueWrite, GetFront
  <2> QED
    BY <1>n, <1>2, <2>1, <2>2, <2>4 DEF EnQueueWrite, IsFull, IsEmpty
<1>3. CASE EnQueuePublish
  <2>1. q' = [q EXCEPT !.tail = NextSlot(q.tail, n)]
    BY <1>q, <1>3 DEF EnQueuePublish
  <2>a. NextSlot(q.tail, n) \in 0 .. n - 1
    BY <1>n, <1>q, <1>s
  <2>2. q' \in Queues(n, MaybeValues)
    BY <1>0, <2>1, <2>a DEF Queues
  <2>3. dpc \in {"copy", "advance"} => ~IsEmpty(q') /\ GetFront(q') = GetFront(q)
    BY <1>3, <1>q, <1>s, <2>1 DEF EnQueuePublish, IsFull, IsEmpty, GetFront
  <2> QED
    BY <1>n, <1>3, <2>2, <2>3 DEF EnQueuePublish, MaybeValues
<1>4. CASE DeQueueTest
  BY <1>4 DEF DeQueueTest, DeQueueOk, MaybeValues
<1>5. CASE DeQueueCopy
  <2>1. GetFront(q) \in MaybeValues
    BY <1>q DEF GetFront
  <2> QED
    BY <1>5, <2>1 DEF DeQueueCopy
<1>6. CASE DeQueueAdvance
  <2>1. q' = [q EXCEPT !.head = NextSlot(q.head, n)]
    BY <1>q, <1>6 DEF DeQueueAdvance
  <2>a. NextSlot(q.head, n) \in 0 .. n - 1
    BY <1>n, <1>q, <1>s
  <2>b. q' \in Queues(n, MaybeValues)
    BY <1>0, <2>1, <2>a DEF Queues
  <2>2. q' \in Queues(n, MaybeValues) /\ q'.tail = q.tail /\ q'.data = q.data
    BY <1>0, <2>1, <2>b DEF Queues
  <2>3. epc \in {"write", "publish"} => ~IsFull(q')
    BY <1>6, <1>q, <1>s, <2>1 DEF DeQueueAdvance, IsFull, IsEmpty
  <2> QED
    BY <1>n, <1>6, <2>2, <2>3 DEF DeQueueAdvance, MaybeValues
<1>7. CASE ClearCall
  <2>1. q' \in Queues(n, MaybeValues)
    BY <1>0, <1>7 DEF ClearCall, Clear, Queues
  <2> QED
    BY <1>n, <1>7, <2>1 DEF ClearCall, Alone
<1>8. ASSUME NEW m \in Sizes, ResizeCall(m) PROVE Inv'
  <2>1. q' \in Queues(m, MaybeValues)
    BY <1>0, <1>n, <1>8, SizesPositive, QueueAssumption, ResizeType DEF ResizeCall, MaybeValues
  <2> QED
    BY <1>8, <2>1 DEF ResizeCall, Alone
<1>9. CASE UNCHANGED qvars
  BY <1>9 DEF qvars, IsFull, IsEmpty, GetFront
<1> QED
  BY <1>1, <1>2, <1>3, <1>4, <1>5, <1>6, <1>7, <1>8, <1>9 DEF Next

\* The invariant holds.
LEMMA InvHolds == Spec => []Inv
BY InitInv, NextInv, PTL DEF Spec

\* Type correctness: neither thread moves an index out of the array.
THEOREM TypeCorrect == Spec => []TypeOK
<1>1. Inv => TypeOK
  BY DEF Inv
<1> QED
  BY <1>1, InvHolds, PTL

\* One thread in EnQueue and one in DeQueue never use the same slot at once
\* (Queue.hpp:4).
THEOREM SlotsDoNotConflict == Spec => []NoSlotConflict
<1>1. Inv => NoSlotConflict
  BY DEF Inv, NoSlotConflict, IsEmpty
<1> QED
  BY <1>1, InvHolds, PTL

\* Every step of the two threads is a step of the bounded sequence, a Resize
\* that cuts, or leaves the sequence alone.
LEMMA StepIsAFifoStep ==
  Inv /\ [Next]_qvars => [Promise!Next \/ ResizeCuts]_(Promise!fvars)
<1> SUFFICES ASSUME Inv, Inv', [Next]_qvars
             PROVE  [Promise!Next \/ ResizeCuts]_(Promise!fvars)
  BY NextInv
<1>0. PICK n \in Sizes : q \in Queues(n, MaybeValues)
  BY DEF Inv, TypeOK
<1>n. n \in Nat \ {0} /\ q.size = n
  BY <1>0, SizesPositive DEF Queues
<1>c. /\ Len(Contents(q)) = Count(q) /\ Count(q) \in 0 .. n - 1 /\ Contents(q) \in Seq(MaybeValues)
      /\ IsEmpty(q) <=> Count(q) = 0
      /\ IsFull(q) <=> Count(q) = n - 1
  BY <1>0, <1>n, ContentsIsASeq, CountRange
<1> USE DEF Promise!Next, Promise!fvars, enqueuer, dequeuer
<1>1. ASSUME NEW x \in Values, EnQueueTest(x) PROVE [Promise!Next \/ ResizeCuts]_(Promise!fvars)
  <2>1. CASE EnQueueOk(q)
    BY <1>1, <2>1 DEF EnQueueTest
  <2>2. CASE ~EnQueueOk(q)
    BY <1>1, <1>n, <1>c, <2>2 DEF EnQueueTest, EnQueueOk, Promise!PutRefused
  <2> QED
    BY <2>1, <2>2
<1>2. CASE EnQueueWrite
  <2>1. /\ UNCHANGED <<put, got>> /\ q'.size = n /\ q'.head = q.head /\ q'.tail = q.tail
        /\ q' \in Queues(n, MaybeValues)
        /\ \A i \in LiveSlots(q) : q'.data[i] = q.data[i]
    <3>1. q.tail \notin LiveSlots(q)
      BY <1>0 DEF LiveSlots, Queues
    <3> QED
      BY <1>0, <1>n, <1>2, <3>1 DEF EnQueueWrite, Queues, Inv, TypeOK, MaybeValues, LiveSlots, Slots
  <2>2. Count(q') = Count(q) /\ \A k \in 1 .. Count(q) : SlotOf(q', k) = SlotOf(q, k)
    BY <1>n, <2>1 DEF Count, SlotOf
  <2>3. \A k \in 1 .. Count(q) : SlotOf(q, k) \in LiveSlots(q)
    BY <1>0, <1>n, CountRange
  <2>4. Contents(q') = Contents(q)
    BY <1>0, <1>n, <2>1, <2>2, <2>3, SameContents
  <2> QED
    BY <1>n, <2>1, <2>4
<1>3. CASE EnQueuePublish
  <2>1. q' = [q EXCEPT !.tail = NextSlot(q.tail, n)] /\ ~IsFull(q) /\ q.data[q.tail] = item /\ item \in Values
    BY <1>n, <1>3 DEF EnQueuePublish, Inv, TypeOK
  <2>2. q'.size = n
    BY <1>0, <1>n, <2>1 DEF Queues
  <2>3. q' \in Queues(n, MaybeValues)
    BY <1>0, <1>n, <2>1, NextSlotIs DEF Queues
  <2>a. q'.head = q.head /\ q'.data = q.data /\ q'.tail = NextSlot(q.tail, n)
    BY <1>0, <2>1 DEF Queues
  <2>4. Contents(q') = Append(Contents(q), item)
    BY <1>0, <1>n, <2>1, <2>3, <2>a, TailAdvanced
  <2>5. Len(Contents(q)) < q.size - 1 /\ put' = TRUE /\ got' = got
    BY <1>3, <1>n, <1>c, <2>1 DEF EnQueuePublish
  <2>6. Promise!Put(item)
    BY <1>n, <2>2, <2>4, <2>5 DEF Promise!Put
  <2> QED
    BY <2>1, <2>6
<1>4. CASE DeQueueTest
  <2>1. CASE DeQueueOk(q)
    BY <1>4, <2>1 DEF DeQueueTest
  <2>2. CASE ~DeQueueOk(q)
    <3>1. Contents(q) = <<>>
      BY <1>c, <2>2 DEF DeQueueOk
    <3> QED
      BY <1>4, <2>2, <3>1 DEF DeQueueTest, Promise!TakeRefused
  <2> QED
    BY <2>1, <2>2
<1>5. CASE DeQueueCopy
  BY <1>5 DEF DeQueueCopy
<1>6. CASE DeQueueAdvance
  <2>1. q' = [q EXCEPT !.head = NextSlot(q.head, n)] /\ ~IsEmpty(q) /\ got' = GetFront(q) /\ put' = put
    BY <1>n, <1>6 DEF DeQueueAdvance, Inv
  <2>2. q'.size = n /\ q' \in Queues(n, MaybeValues)
    BY <1>0, <1>n, <2>1, NextSlotIs DEF Queues
  <2>3. /\ Contents(q) # <<>> /\ Head(Contents(q)) = GetFront(q)
        /\ Contents(q') = Tail(Contents(q))
    <3>1. q'.tail = q.tail /\ q'.data = q.data /\ q'.head = NextSlot(q.head, n)
      BY <1>0, <2>1 DEF Queues
    <3> QED
      BY <1>0, <1>n, <2>1, <2>2, <3>1, HeadAdvanced
  <2>4. Promise!Take
    BY <1>n, <2>1, <2>2, <2>3 DEF Promise!Take
  <2> QED
    BY <2>4
<1>7. CASE ClearCall
  <2>1. q' \in Queues(n, MaybeValues) /\ q'.size = n /\ q'.head = q'.tail /\ UNCHANGED <<put, got>>
    BY <1>0, <1>7 DEF ClearCall, Clear, Queues
  <2>2. Contents(q') \in Seq(MaybeValues) /\ Len(Contents(q')) = 0
    BY <1>n, <2>1, ContentsIsASeq, CountRange DEF IsEmpty
  <2>3. Promise!Clear
    BY <1>n, <2>1, <2>2 DEF Promise!Clear
  <2> QED
    BY <2>3
<1>8. ASSUME NEW m \in Sizes, ResizeCall(m) PROVE [Promise!Next \/ ResizeCuts]_(Promise!fvars)
  <2>1. /\ ResizeOk(q, m) /\ q' = Resize(q, m, ElemSize, None) /\ UNCHANGED <<put, got>>
        /\ None \in MaybeValues /\ ElemSize \in Nat \ {0}
    BY <1>8, QueueAssumption DEF ResizeCall, MaybeValues
  <2>2. CASE ElemSize > 1 /\ q.tail \in 1 .. q.head - 1
    BY <1>8, <2>2 DEF ResizeCuts
  <2>3. CASE ~(ElemSize > 1 /\ q.tail \in 1 .. q.head - 1)
    <3>1. Contents(q') = Contents(q)
      <4>1. ElemSize = 1 \/ q.tail \notin 1 .. q.head - 1
        BY <2>1, <2>3
      <4> QED
        BY <1>0, <1>n, <1>8, <2>1, <4>1, SizesPositive, ResizeContents
    <3>2. q'.size = m /\ m \in Nat \ {0}
      BY <1>8, <2>1, SizesPositive DEF Resize
    <3>3. Promise!Resize
      BY <1>c, <2>1, <3>1, <3>2 DEF Promise!Resize, ResizeOk
    <3> QED
      BY <3>3
  <2> QED
    BY <2>2, <2>3
<1>9. CASE UNCHANGED qvars
  BY <1>9 DEF qvars
<1> QED
  BY <1>1, <1>2, <1>3, <1>4, <1>5, <1>6, <1>7, <1>8, <1>9 DEF Next

\* The ring implements the bounded sequence that Queue.h promises, for elements of
\* any size: its elements come out once and in order, EnQueue and DeQueue fail only
\* when it is full or empty, and Resize keeps the elements unless they wrap around
\* and are longer than a byte.
THEOREM QueueIsAFifo == Spec => IsAFifo
<1>1. Init => Promise!Init
  <2> SUFFICES ASSUME Init PROVE Promise!Init
    OBVIOUS
  <2>1. PICK n \in Sizes : q = NewQueue(n, None)
    BY DEF Init
  <2>2. n \in Nat \ {0} /\ q.size = n /\ q.head = q.tail
    BY <2>1, SizesPositive DEF NewQueue
  <2>3. q \in Queues(n, MaybeValues)
    BY <2>1, <2>2 DEF NewQueue, Queues, MaybeValues
  <2>4. Contents(q) \in Seq(MaybeValues) /\ Len(Contents(q)) = 0
    BY <2>2, <2>3, ContentsIsASeq, CountRange DEF IsEmpty
  <2> QED
    BY <2>2, <2>4 DEF Init, Promise!Init
<1>2. Inv /\ [Next]_qvars => [Promise!Next \/ ResizeCuts]_(Promise!fvars)
  BY StepIsAFifoStep
<1> QED
  BY <1>1, <1>2, InvHolds, PTL DEF Spec, IsAFifo
=============================================================================
