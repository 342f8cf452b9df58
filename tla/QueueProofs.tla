---------------------------- MODULE QueueProofs ----------------------------
(***************************************************************************)
(* Facts about the ring of module Queue, for every size, element set and   *)
(* value of a queue: which slots hold elements before and after EnQueue    *)
(* and DeQueue, what the sequence of elements becomes, and that a full     *)
(* queue without duplicates over a set as large as its capacity holds the  *)
(* whole set.  The % of the code is removed once, in NextSlotIs.           *)
(***************************************************************************)
EXTENDS Queue, Sequences, TLAPS, FiniteSetTheorems

\* The slot after the last one is slot 0 (the % of EnQueue and DeQueue).
LEMMA NextSlotIs ==
  ASSUME NEW n \in Nat \ {0}, NEW i \in 0 .. n - 1
  PROVE  NextSlot(i, n) = IF i = n - 1 THEN 0 ELSE i + 1
BY DEF NextSlot

\* An EnQueue that succeeds writes the slot at tail and moves tail on.
LEMMA EnQueueFields ==
  ASSUME NEW n \in Nat \ {0}, NEW V, NEW q \in Queues(n, V), NEW x \in V, EnQueueOk(q)
  PROVE  /\ EnQueue(q, x) \in Queues(n, V)
         /\ EnQueue(q, x).size = n /\ EnQueue(q, x).head = q.head
         /\ EnQueue(q, x).tail = NextSlot(q.tail, n)
         /\ EnQueue(q, x).data = [q.data EXCEPT ![q.tail] = x]
<1>1. NextSlot(q.tail, n) \in 0 .. n - 1
  BY NextSlotIs DEF Queues
<1>2. EnQueue(q, x) = [q EXCEPT !.data = [@ EXCEPT ![q.tail] = x], !.tail = NextSlot(q.tail, n)]
  BY DEF EnQueue, Queues
<1>3. /\ q.size = n /\ q.head \in 0 .. n - 1 /\ q.tail \in 0 .. n - 1
      /\ q.data \in [0 .. n - 1 -> V]
      /\ q = [size |-> q.size, head |-> q.head, tail |-> q.tail, data |-> q.data]
  BY DEF Queues
<1>4. [q.data EXCEPT ![q.tail] = x] \in [0 .. n - 1 -> V]
  BY <1>3
<1>5. EnQueue(q, x) = [size |-> n, head |-> q.head, tail |-> NextSlot(q.tail, n),
                       data |-> [q.data EXCEPT ![q.tail] = x]]
  BY <1>2, <1>3
<1> QED
  BY <1>1, <1>3, <1>4, <1>5 DEF Queues

\* ... so that the slot at tail, which held no element, now does.
LEMMA EnQueueSlots ==
  ASSUME NEW n \in Nat \ {0}, NEW V, NEW q \in Queues(n, V), NEW x \in V, EnQueueOk(q)
  PROVE  /\ q.tail \notin LiveSlots(q)
         /\ LiveSlots(EnQueue(q, x)) = LiveSlots(q) \union {q.tail}
<1> DEFINE e == EnQueue(q, x)
<1>0.  /\ EnQueue(q, x).size = n /\ EnQueue(q, x).head = q.head
      /\ EnQueue(q, x).tail = NextSlot(q.tail, n)
      /\ EnQueue(q, x).data = [q.data EXCEPT ![q.tail] = x]
  BY NextSlotIs DEF EnQueue, Queues
<1>3. q.size = n /\ q.head \in 0 .. n - 1 /\ q.tail \in 0 .. n - 1
  BY DEF Queues
<1>4. NextSlot(q.tail, n) = IF q.tail = n - 1 THEN 0 ELSE q.tail + 1
  BY <1>3, NextSlotIs
<1>1. /\ e.size = n /\ e.head = q.head
      /\ e.tail = IF q.tail = n - 1 THEN 0 ELSE q.tail + 1
  BY <1>4, <1>0
<1>2. e.tail # q.head
  BY <1>1, <1>3, <1>4 DEF EnQueueOk, IsFull
<1> HIDE DEF e
<1> SUFFICES q.tail \notin LiveSlots(q) /\ LiveSlots(e) = LiveSlots(q) \union {q.tail}
  BY DEF e
<1>6. q.tail \notin LiveSlots(q)
  BY <1>3 DEF LiveSlots, Slots
<1>5. \A i : i \in LiveSlots(e) <=> i \in LiveSlots(q) \/ i = q.tail
  BY <1>1, <1>2, <1>3 DEF LiveSlots, Slots
<1> QED
  BY <1>6, <1>5

\* ... and the queue holds one element more, once if it was not there.
LEMMA EnQueueElements ==
  ASSUME NEW n \in Nat \ {0}, NEW V, NEW q \in Queues(n, V), NEW x \in V, EnQueueOk(q)
  PROVE  /\ Elements(EnQueue(q, x)) = Elements(q) \union {x}
         /\ Distinct(q) /\ x \notin Elements(q) => Distinct(EnQueue(q, x))
<1> DEFINE e == EnQueue(q, x)
<1>0.  /\ EnQueue(q, x).size = n /\ EnQueue(q, x).head = q.head
      /\ EnQueue(q, x).tail = NextSlot(q.tail, n)
      /\ EnQueue(q, x).data = [q.data EXCEPT ![q.tail] = x]
  BY NextSlotIs DEF EnQueue, Queues
<1>1. e.data = [q.data EXCEPT ![q.tail] = x] /\ q.data \in [0 .. n - 1 -> V] /\ q.tail \in 0 .. n - 1
  BY <1>0 DEF Queues
<1>2. q.tail \notin LiveSlots(q) /\ LiveSlots(e) = LiveSlots(q) \union {q.tail}
  BY EnQueueSlots
<1>3. LiveSlots(q) \subseteq 0 .. n - 1
  BY DEF LiveSlots, Slots, Queues
<1> HIDE DEF e
<1> QED
  BY <1>1, <1>2, <1>3 DEF e, Elements, Distinct

\* A DeQueue that succeeds moves head on.
LEMMA DeQueueFields ==
  ASSUME NEW n \in Nat \ {0}, NEW V, NEW q \in Queues(n, V), DeQueueOk(q)
  PROVE  /\ GetFront(q) \in V
         /\ DeQueue(q) \in Queues(n, V)
         /\ DeQueue(q).size = n /\ DeQueue(q).head = NextSlot(q.head, n)
         /\ DeQueue(q).tail = q.tail /\ DeQueue(q).data = q.data
<1>1. NextSlot(q.head, n) \in 0 .. n - 1
  BY NextSlotIs DEF Queues
<1>2. DeQueue(q) = [q EXCEPT !.head = NextSlot(q.head, n)]
  BY DEF DeQueue, Queues
<1> QED
  BY <1>1, <1>2 DEF Queues, GetFront

\* ... and takes the front element, and only it, out of a queue without
\* duplicates.
LEMMA DeQueueElements ==
  ASSUME NEW n \in Nat \ {0}, NEW V, NEW q \in Queues(n, V), DeQueueOk(q), Distinct(q)
  PROVE  /\ GetFront(q) \in Elements(q)
         /\ Elements(DeQueue(q)) = Elements(q) \ {GetFront(q)}
         /\ Distinct(DeQueue(q))
<1> DEFINE d == DeQueue(q)
<1>2. q.size = n /\ q.head \in 0 .. n - 1 /\ q.tail \in 0 .. n - 1 /\ q.head # q.tail
  BY DEF Queues, DeQueueOk, IsEmpty
<1>5. NextSlot(q.head, n) = IF q.head = n - 1 THEN 0 ELSE q.head + 1
  BY <1>2, NextSlotIs
<1>1. /\ d.size = n /\ d.tail = q.tail /\ d.data = q.data
      /\ d.head = IF q.head = n - 1 THEN 0 ELSE q.head + 1
  BY <1>5, DeQueueFields
<1> HIDE DEF d
<1>3. \A i : i \in LiveSlots(d) <=> i \in LiveSlots(q) /\ i # q.head
  BY <1>1, <1>2 DEF LiveSlots, Slots
<1>4. q.head \in LiveSlots(q)
  BY <1>2 DEF LiveSlots, Slots
<1> SUFFICES /\ q.data[q.head] \in Elements(q)
             /\ Elements(d) = Elements(q) \ {q.data[q.head]}
             /\ Distinct(d)
  BY DEF d, GetFront
<1> QED
  BY <1>1, <1>3, <1>4 DEF Elements, Distinct

\* A full queue without duplicates holds every element there is, if there are
\* as many as it has room for: n - 1 distinct elements fill n slots.
LEMMA FullHoldsAll ==
  ASSUME NEW n \in Nat \ {0}, NEW V, IsFiniteSet(V), Cardinality(V) = n - 1,
         NEW q \in Queues(n, V), IsFull(q), Distinct(q)
  PROVE  Elements(q) = V
<1> DEFINE f == [i \in LiveSlots(q) |-> q.data[i]]
<1>1. q.size = n /\ q.head \in 0 .. n - 1 /\ q.tail \in 0 .. n - 1 /\ q.data \in [0 .. n - 1 -> V]
  BY DEF Queues
<1>2. q.head = IF q.tail = n - 1 THEN 0 ELSE q.tail + 1
  BY <1>1, NextSlotIs DEF IsFull
<1>3. LiveSlots(q) = (0 .. n - 1) \ {q.tail}
  <2>1. \A i : i \in LiveSlots(q) <=> i \in (0 .. n - 1) /\ i # q.tail
    BY <1>1, <1>2 DEF LiveSlots, Slots
  <2> QED
    BY <2>1
<1>4. IsFiniteSet(0 .. n - 1) /\ Cardinality(0 .. n - 1) = n
  BY FS_Interval
<1>5. Cardinality(LiveSlots(q)) = n - 1
  <2>1. Cardinality((0 .. n - 1) \ {q.tail})
          = IF q.tail \in 0 .. n - 1 THEN Cardinality(0 .. n - 1) - 1 ELSE Cardinality(0 .. n - 1)
    BY <1>4, FS_RemoveElement
  <2> QED
    BY <1>1, <1>3, <1>4, <2>1
<1>6. f \in Injection(LiveSlots(q), V)
  BY <1>1, <1>3 DEF Injection, IsInjective, Distinct
<1>7. f \in Surjection(LiveSlots(q), V)
  BY <1>5, <1>6, FS_Injection
<1>8. \A v \in V : \E i \in LiveSlots(q) : q.data[i] = v
  BY <1>7 DEF Surjection
<1>9. \A i \in LiveSlots(q) : q.data[i] \in V
  BY <1>1, <1>3
<1> QED
  BY <1>8, <1>9 DEF Elements

\* Count() tells an empty queue and a full one, and the elements it counts are
\* in live slots.
LEMMA CountRange ==
  ASSUME NEW n \in Nat \ {0}, NEW V, NEW q \in Queues(n, V)
  PROVE  /\ Count(q) \in 0 .. n - 1
         /\ IsEmpty(q) <=> Count(q) = 0
         /\ IsFull(q) <=> Count(q) = n - 1
         /\ \A k \in 1 .. Count(q) : SlotOf(q, k) \in LiveSlots(q)
<1>1. q.size = n /\ q.head \in 0 .. n - 1 /\ q.tail \in 0 .. n - 1
  BY DEF Queues
<1>2. NextSlot(q.tail, n) = IF q.tail = n - 1 THEN 0 ELSE q.tail + 1
  BY <1>1, NextSlotIs
<1> QED
  BY <1>1, <1>2 DEF Count, IsEmpty, IsFull, SlotOf, LiveSlots, Slots

\* The contents are a sequence of elements, one per counted element.
LEMMA ContentsIsASeq ==
  ASSUME NEW n \in Nat \ {0}, NEW V, NEW q \in Queues(n, V)
  PROVE  /\ Contents(q) \in Seq(V)
         /\ Len(Contents(q)) = Count(q)
         /\ \A k \in 1 .. Count(q) : Contents(q)[k] = q.data[SlotOf(q, k)]
<1>1. /\ Count(q) \in Nat
      /\ \A k \in 1 .. Count(q) : SlotOf(q, k) \in LiveSlots(q)
  BY CountRange
<1>2. \A i \in LiveSlots(q) : q.data[i] \in V
  BY DEF LiveSlots, Slots, Queues
<1>3. \A k \in 1 .. Count(q) : q.data[SlotOf(q, k)] \in V
  BY <1>1, <1>2
<1> QED
  BY <1>1, <1>3 DEF Contents

\* Two queues that agree slot by slot have the same contents.
LEMMA SameContents ==
  ASSUME NEW n \in Nat \ {0}, NEW m \in Nat \ {0}, NEW V,
         NEW q \in Queues(n, V), NEW r \in Queues(m, V),
         Count(r) = Count(q),
         \A k \in 1 .. Count(q) : r.data[SlotOf(r, k)] = q.data[SlotOf(q, k)]
  PROVE  Contents(r) = Contents(q)
BY DEF Contents

\* Sequences with equal elements are equal.
LEMMA SeqEqual ==
  ASSUME NEW V, NEW s \in Seq(V), NEW t \in Seq(V), Len(s) = Len(t),
         \A k \in 1 .. Len(s) : s[k] = t[k]
  PROVE  s = t
OBVIOUS

\* Moving tail on appends what the slot at tail holds.
LEMMA TailAdvanced ==
  ASSUME NEW n \in Nat \ {0}, NEW V, NEW q \in Queues(n, V), ~IsFull(q),
         NEW r \in Queues(n, V), r.head = q.head, r.data = q.data,
         r.tail = NextSlot(q.tail, n)
  PROVE  Contents(r) = Append(Contents(q), q.data[q.tail])
<1>1. /\ q.size = n /\ q.head \in 0 .. n - 1 /\ q.tail \in 0 .. n - 1
      /\ r.size = n /\ r.head = q.head /\ r.data = q.data
      /\ r.tail = NextSlot(q.tail, n)
  BY DEF Queues
<1>2. NextSlot(q.tail, n) = IF q.tail = n - 1 THEN 0 ELSE q.tail + 1
  BY <1>1, NextSlotIs
<1>3. Count(r) = Count(q) + 1
  BY <1>1, <1>2 DEF Count, IsFull
<1>4. SlotOf(r, Count(q) + 1) = q.tail /\ \A k \in 1 .. Count(q) : SlotOf(r, k) = SlotOf(q, k)
  BY <1>1 DEF Count, SlotOf
<1>5. /\ Contents(q) \in Seq(V) /\ Len(Contents(q)) = Count(q) /\ Count(q) \in Nat
      /\ \A k \in 1 .. Count(q) : Contents(q)[k] = q.data[SlotOf(q, k)]
  BY ContentsIsASeq, CountRange
<1>6. /\ Contents(r) \in Seq(V) /\ Len(Contents(r)) = Count(q) + 1
      /\ \A k \in 1 .. Count(q) + 1 : Contents(r)[k] = q.data[SlotOf(r, k)]
  <2>1. /\ Contents(r) \in Seq(V) /\ Len(Contents(r)) = Count(r)
        /\ \A k \in 1 .. Count(r) : Contents(r)[k] = r.data[SlotOf(r, k)]
    BY ContentsIsASeq
  <2> QED
    BY <1>1, <1>3, <2>1
<1>7. q.data[q.tail] \in V
  BY <1>1 DEF Queues
<1> DEFINE longer == Append(Contents(q), q.data[q.tail])
<1>8. /\ longer \in Seq(V) /\ Len(longer) = Count(q) + 1
      /\ longer[Count(q) + 1] = q.data[q.tail]
      /\ \A k \in 1 .. Count(q) : longer[k] = Contents(q)[k]
  BY <1>5, <1>7
<1> HIDE DEF longer
<1>9. \A k \in 1 .. Count(q) + 1 : Contents(r)[k] = longer[k]
  <2> TAKE k \in 1 .. Count(q) + 1
  <2>0. Contents(r)[k] = q.data[SlotOf(r, k)]
    BY <1>6
  <2>1. CASE k \in 1 .. Count(q)
    <3>1. SlotOf(r, k) = SlotOf(q, k)
      BY <1>4, <2>1
    <3>2. longer[k] = q.data[SlotOf(q, k)]
      BY <1>5, <1>8, <2>1
    <3> QED BY <2>0, <3>1, <3>2
  <2>2. CASE k = Count(q) + 1
    BY <1>4, <1>8, <2>0, <2>2
  <2>3. k \in 1 .. Count(q) \/ k = Count(q) + 1
    BY <1>5
  <2> QED
    BY <2>1, <2>2, <2>3
<1>10. Contents(r) = longer
  BY <1>6, <1>8, <1>9, SeqEqual
<1> QED
  BY <1>10 DEF longer

\* Moving head on takes the front element away.
LEMMA HeadAdvanced ==
  ASSUME NEW n \in Nat \ {0}, NEW V, NEW q \in Queues(n, V), ~IsEmpty(q),
         NEW r \in Queues(n, V), r.tail = q.tail, r.data = q.data,
         r.head = NextSlot(q.head, n)
  PROVE  /\ Contents(q) # <<>>
         /\ Head(Contents(q)) = GetFront(q)
         /\ Contents(r) = Tail(Contents(q))
<1>1. /\ q.size = n /\ q.head \in 0 .. n - 1 /\ q.tail \in 0 .. n - 1
      /\ r.size = n /\ r.tail = q.tail /\ r.data = q.data
      /\ r.head = NextSlot(q.head, n)
  BY DEF Queues
<1>2. NextSlot(q.head, n) = IF q.head = n - 1 THEN 0 ELSE q.head + 1
  BY <1>1, NextSlotIs
<1>3. Count(r) = Count(q) - 1 /\ Count(q) \in Nat \ {0}
  BY <1>1, <1>2 DEF Count, IsEmpty
<1>4. SlotOf(q, 1) = q.head /\ \A k \in 1 .. Count(q) - 1 : SlotOf(r, k) = SlotOf(q, k + 1)
  BY <1>1, <1>2, <1>3 DEF Count, SlotOf
<1>5. /\ Contents(q) \in Seq(V) /\ Len(Contents(q)) = Count(q)
      /\ \A k \in 1 .. Count(q) : Contents(q)[k] = q.data[SlotOf(q, k)]
  BY ContentsIsASeq
<1>6. /\ Contents(r) \in Seq(V) /\ Len(Contents(r)) = Count(q) - 1
      /\ \A k \in 1 .. Count(q) - 1 : Contents(r)[k] = q.data[SlotOf(r, k)]
  <2>1. /\ Contents(r) \in Seq(V) /\ Len(Contents(r)) = Count(r)
        /\ \A k \in 1 .. Count(r) : Contents(r)[k] = r.data[SlotOf(r, k)]
    BY ContentsIsASeq
  <2> QED
    BY <1>1, <1>3, <2>1
<1>7. Contents(q) # <<>> /\ Head(Contents(q)) = Contents(q)[1]
  BY <1>3, <1>5
<1>8. /\ Tail(Contents(q)) \in Seq(V) /\ Len(Tail(Contents(q))) = Count(q) - 1
      /\ \A k \in 1 .. Count(q) - 1 : Tail(Contents(q))[k] = Contents(q)[k + 1]
  BY <1>3, <1>5, <1>7
<1>9. \A k \in 1 .. Count(q) - 1 : Contents(r)[k] = Tail(Contents(q))[k]
  <2> TAKE k \in 1 .. Count(q) - 1
  <2>1. k + 1 \in 1 .. Count(q)
    BY <1>3
  <2>2. Contents(q)[k + 1] = q.data[SlotOf(q, k + 1)]
    BY <1>5, <2>1
  <2> QED
    BY <1>4, <1>6, <1>8, <2>2
<1>10. Contents(r) = Tail(Contents(q))
  BY <1>6, <1>8, <1>9, SeqEqual
<1>11. Contents(q)[1] = q.data[q.head]
  BY <1>3, <1>4, <1>5
<1> QED
  BY <1>7, <1>10, <1>11 DEF GetFront

\* An accepted Resize yields a queue of the new size, whatever the elements' size.
LEMMA ResizeType ==
  ASSUME NEW n \in Nat \ {0}, NEW V, NEW q \in Queues(n, V), NEW m \in Nat, ResizeOk(q, m),
         NEW e \in Nat \ {0}, NEW unset \in V
  PROVE  Resize(q, m, e, unset) \in Queues(m, V) /\ m \in Nat \ {0}
<1> DEFINE d == Resize(q, m, e, unset).data
<1>1. q.size = n /\ q.head \in 0 .. n - 1 /\ q.tail \in 0 .. n - 1 /\ q.data \in [0 .. n - 1 -> V]
  BY DEF Queues
<1>2. Count(q) \in 0 .. n - 1 /\ Count(q) < m
  BY CountRange DEF ResizeOk
<1>3. \A i \in 0 .. m - 1 : i < FirstPart(q) => q.head + i \in 0 .. n - 1
  BY <1>1 DEF FirstPart, Count
<1>4. \A i \in 0 .. m - 1 : ~(i < FirstPart(q)) /\ i < Count(q) => i - FirstPart(q) \in 0 .. n - 1
  BY <1>1 DEF FirstPart, Count
<1>5. \A i \in 0 .. m - 1 : d[i] \in V
  BY <1>1, <1>3, <1>4 DEF Resize
<1>6. d \in [0 .. m - 1 -> V]
  BY <1>5 DEF Resize
<1>7. 0 \in 0 .. m - 1 /\ Count(q) \in 0 .. m - 1
  BY <1>2
<1> QED
  BY <1>2, <1>6, <1>7 DEF Resize, Queues

\* An accepted Resize keeps the contents when an element is one byte, or none is
\* at the beginning of the array with others behind it.
LEMMA ResizeContents ==
  ASSUME NEW n \in Nat \ {0}, NEW V, NEW q \in Queues(n, V), NEW m \in Nat, ResizeOk(q, m),
         NEW e \in Nat \ {0}, NEW unset \in V, e = 1 \/ q.tail \notin 1 .. q.head - 1
  PROVE  Contents(Resize(q, m, e, unset)) = Contents(q)
<1> DEFINE r == Resize(q, m, e, unset)
<1>1. q.size = n /\ q.head \in 0 .. n - 1 /\ q.tail \in 0 .. n - 1
  BY DEF Queues
<1>2. r \in Queues(m, V) /\ m \in Nat \ {0}
  BY ResizeType
<1>3. Count(q) \in 0 .. n - 1 /\ Count(q) < m
  BY CountRange DEF ResizeOk
<1>4. r.size = m /\ r.head = 0 /\ r.tail = Count(q)
  BY DEF Resize
<1>5. Count(r) = Count(q)
  BY <1>3, <1>4 DEF Count
<1>6. \A k \in 1 .. Count(q) : SlotOf(r, k) = k - 1 /\ k - 1 \in 0 .. m - 1
  BY <1>3, <1>4 DEF SlotOf
<1>7. \A i \in 0 .. m - 1 : i < FirstPart(q) => r.data[i] = q.data[q.head + i]
  BY DEF Resize
<1>8. \A i \in 0 .. m - 1 : ~(i < FirstPart(q)) /\ i < Count(q) /\ i - FirstPart(q) + 1 <= q.tail
         => r.data[i] = q.data[i - FirstPart(q)]
  <2>1. CASE e = 1
    BY <1>1, <2>1 DEF Resize, FirstPart, Count
  <2>2. CASE q.tail \notin 1 .. q.head - 1
    BY <1>1, <2>2 DEF FirstPart, Count
  <2> QED
    BY <2>1, <2>2
<1> HIDE DEF r
<1>9. \A k \in 1 .. Count(q) : r.data[k - 1] = q.data[SlotOf(q, k)]
  <2> TAKE k \in 1 .. Count(q)
  <2>1. CASE k - 1 < FirstPart(q)
    <3>1. SlotOf(q, k) = q.head + (k - 1)
      BY <1>1, <2>1 DEF SlotOf, FirstPart, Count
    <3> QED
      BY <1>6, <1>7, <2>1, <3>1
  <2>2. CASE ~(k - 1 < FirstPart(q))
    <3>1. SlotOf(q, k) = k - 1 - FirstPart(q) /\ k - 1 - FirstPart(q) + 1 <= q.tail /\ k - 1 < Count(q)
      BY <1>1, <2>2 DEF SlotOf, FirstPart, Count
    <3> QED
      BY <1>6, <1>8, <2>2, <3>1
  <2> QED
    BY <2>1, <2>2
<1>10. \A k \in 1 .. Count(q) : r.data[SlotOf(r, k)] = q.data[SlotOf(q, k)]
  BY <1>6, <1>9
<1> QED
  BY <1>2, <1>5, <1>10, SameContents DEF r
=============================================================================
