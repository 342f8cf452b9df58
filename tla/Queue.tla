------------------------------- MODULE Queue -------------------------------
(***************************************************************************)
(* The ring buffer of src/src/Queue.hpp, as operators on the value of a    *)
(* queue.  A queue is a record of the class's four fields:                 *)
(*   size   QUEUE_SIZE, the number of slots;                               *)
(*   head   m_Head, the slot DeQueue reads next;                           *)
(*   tail   m_Tail, the slot EnQueue writes next;                          *)
(*   data   m_Data, a function on 0 .. size - 1.                           *)
(* One slot always stays unused, so a queue of size n holds n - 1 elements *)
(* and head = tail means empty.  Modules that let two threads run inside   *)
(* an operation take the operation apart and use NextSlot and the tests    *)
(* below; the others apply a whole operation in one step.                  *)
(***************************************************************************)
EXTENDS Integers

Slots(q) == 0 .. q.size - 1

\* The values a queue of n slots over elements of V can have.
Queues(n, V) ==
  [size : {n}, head : 0 .. n - 1, tail : 0 .. n - 1, data : [0 .. n - 1 -> V]]

\* The slot after slot i, for a queue of n slots; the mutant runs off the end.
NextSlot_OffTheEnd(i, n) == i + 1
NextSlot(i, n) == (i + 1) % n

\* The constructor.  new DataType[n] leaves the slots unset: `unset` stands
\* for whatever they hold, no operation reads a slot before EnQueue wrote it.
NewQueue(n, unset) ==
  [size |-> n, head |-> 0, tail |-> 0, data |-> [i \in 0 .. n - 1 |-> unset]]

IsEmpty(q) == q.head = q.tail
IsFull(q)  == q.head = NextSlot(q.tail, q.size)

Count(q) ==
  IF q.head > q.tail THEN q.size - (q.head - q.tail) ELSE q.tail - q.head

\* EnQueue leaves a full queue alone and returns false.
EnQueueOk(q)  == ~IsFull(q)
EnQueue(q, x) ==
  IF EnQueueOk(q)
  THEN [q EXCEPT !.data = [@ EXCEPT ![q.tail] = x],
                 !.tail = NextSlot(@, q.size)]
  ELSE q

\* The mutant is the bug a comment of GetFront says was corrected.
GetFront_Second(q) == q.data[NextSlot(q.head, q.size)]

\* DeQueue returns false on an empty queue; otherwise Out is GetFront's value.
DeQueueOk(q) == ~IsEmpty(q)
GetFront(q)  == q.data[q.head]
DeQueue(q)   == IF DeQueueOk(q) THEN [q EXCEPT !.head = NextSlot(@, q.size)] ELSE q

Clear(q) == [q EXCEPT !.head = q.tail]

\* Resize to n slots of elements of elemSize bytes, of which `unset` is an
\* indeterminate one.  A size that does not exceed the count is refused.
\* Otherwise the first part of the elements, up to the end of the old array,
\* is copied whole; of the part that wraps around, m_Tail BYTES are copied.
ResizeOk(q, n) == n > Count(q)

FirstPart(q) == IF q.tail < q.head THEN q.size - q.head ELSE Count(q)

Resize(q, n, elemSize, unset) ==
  [size |-> n, head |-> 0, tail |-> Count(q),
   data |-> [i \in 0 .. n - 1 |->
     IF i < FirstPart(q) THEN q.data[q.head + i]
     ELSE IF i < Count(q) /\ (i - FirstPart(q) + 1) * elemSize <= q.tail
          THEN q.data[i - FirstPart(q)]
          ELSE unset]]

-----------------------------------------------------------------------------
(* What a queue holds, for the properties. *)

\* The slots between head and tail, which hold the queue's elements.
LiveSlots(q) ==
  {i \in Slots(q) : IF q.head <= q.tail THEN q.head <= i /\ i < q.tail
                                        ELSE q.head <= i \/ i < q.tail}

Elements(q) == {q.data[i] : i \in LiveSlots(q)}

\* No element is in the queue twice.
Distinct(q) ==
  \A i, j \in LiveSlots(q) : q.data[i] = q.data[j] => i = j

\* The slot of the k-th element from the front, and the elements in the order
\* DeQueue will return them.
SlotOf(q, k) == IF q.head + k - 1 < q.size THEN q.head + k - 1
                                           ELSE q.head + k - 1 - q.size
Contents(q)  == [k \in 1 .. Count(q) |-> q.data[SlotOf(q, k)]]
=============================================================================
