---------------------------- MODULE QueueThreads ----------------------------
(***************************************************************************)
(* The queue of src/src/Queue.hpp used as its remark says it may be: one   *)
(* thread calls EnQueue, another DeQueue, with no lock.  Each thread's     *)
(* accesses to the shared fields are steps of their own: EnQueue loads     *)
(* m_Head, writes a slot, stores m_Tail; DeQueue loads m_Tail, reads a     *)
(* slot, stores m_Head.  (Each also loads the field only it writes, which  *)
(* needs no step.)  The accesses take effect in program order: the build   *)
(* does not optimise, and the processor is an x86.                         *)
(*                                                                         *)
(* Clear and Resize are for one thread alone: they run between calls.      *)
(***************************************************************************)
EXTENDS Queue, Sequences

CONSTANTS
  Values,    \* the elements
  None,      \* no element: an indeterminate slot, a result of false
  MaxSize,   \* bound: the largest queue size tried
  ElemSize   \* sizeof(DataType)

ASSUME QueueAssumption ==
  /\ None \notin Values
  /\ MaxSize \in Nat \ {0}
  /\ ElemSize \in Nat \ {0}

VARIABLES
  q,     \* the queue
  epc,   \* where the thread in EnQueue is,
  item,  \*   the element it puts (None between calls),
  put,   \*   and what its last EnQueue returned
  dpc,   \* where the thread in DeQueue is,
  out,   \*   the element it has copied (None when it has none),
  got    \*   and what its last DeQueue delivered

enqueuer == <<epc, item, put>>
dequeuer == <<dpc, out, got>>
qvars == <<q, enqueuer, dequeuer>>

Sizes   == 1 .. MaxSize
MaybeValues == Values \union {None}

TypeOK ==
  /\ \E n \in Sizes : q \in Queues(n, MaybeValues)
  /\ epc \in {"idle", "write", "publish"} /\ item \in MaybeValues
  /\ epc # "idle" => item \in Values
  /\ dpc \in {"idle", "copy", "advance"} /\ out \in MaybeValues
  /\ put \in BOOLEAN /\ got \in MaybeValues

Init ==
  /\ \E n \in Sizes : q = NewQueue(n, None)
  /\ epc = "idle" /\ item = None /\ put = TRUE
  /\ dpc = "idle" /\ out = None /\ got = None

-----------------------------------------------------------------------------
(* EnQueue(x) *)

\* The mutant does not test for a full queue.
EnQueueTest_Unguarded(x) ==
  /\ epc = "idle"
  /\ epc' = "write" /\ item' = x
  /\ UNCHANGED <<q, put, dequeuer>>

\* nNext == m_Head: the queue is full, and EnQueue returns false.
EnQueueTest(x) ==
  /\ epc = "idle"
  /\ IF EnQueueOk(q)
     THEN epc' = "write" /\ item' = x /\ UNCHANGED put
     ELSE put' = FALSE /\ UNCHANGED <<epc, item>>
  /\ UNCHANGED <<q, dequeuer>>

EnQueueWrite ==
  /\ epc = "write"
  /\ q' = [q EXCEPT !.data = [@ EXCEPT ![q.tail] = item]]
  /\ epc' = "publish"
  /\ UNCHANGED <<item, put, dequeuer>>

EnQueuePublish ==
  /\ epc = "publish"
  /\ q' = [q EXCEPT !.tail = NextSlot(@, q.size)]
  /\ epc' = "idle" /\ item' = None /\ put' = TRUE
  /\ UNCHANGED dequeuer

(* DeQueue *)

\* m_Head == m_Tail: the queue is empty, and DeQueue returns false.
DeQueueTest ==
  /\ dpc = "idle"
  /\ IF DeQueueOk(q) THEN dpc' = "copy" /\ UNCHANGED got
                     ELSE got' = None /\ UNCHANGED dpc
  /\ UNCHANGED <<q, out, enqueuer>>

DeQueueCopy ==
  /\ dpc = "copy"
  /\ out' = GetFront(q) /\ dpc' = "advance"
  /\ UNCHANGED <<q, got, enqueuer>>

DeQueueAdvance ==
  /\ dpc = "advance"
  /\ q' = [q EXCEPT !.head = NextSlot(@, q.size)]
  /\ dpc' = "idle" /\ got' = out /\ out' = None
  /\ UNCHANGED enqueuer

(* The calls of a thread alone *)

Alone == epc = "idle" /\ dpc = "idle"

ClearCall == Alone /\ q' = Clear(q) /\ UNCHANGED <<enqueuer, dequeuer>>

ResizeCall(n) ==
  /\ Alone /\ ResizeOk(q, n)
  /\ q' = Resize(q, n, ElemSize, None)
  /\ UNCHANGED <<enqueuer, dequeuer>>

Next ==
  \/ \E x \in Values : EnQueueTest(x)
  \/ EnQueueWrite \/ EnQueuePublish
  \/ DeQueueTest \/ DeQueueCopy \/ DeQueueAdvance
  \/ ClearCall
  \/ \E n \in Sizes : ResizeCall(n)

Spec == Init /\ [][Next]_qvars
-----------------------------------------------------------------------------
\* The two threads never use the same slot at once: the one DeQueue is about
\* to copy is not the one EnQueue is about to write ("one thread calls
\* EnQueue, one calls DeQueue, no conflict will happen", Queue.hpp:4).
NoSlotConflict ==
  epc = "write" /\ dpc \in {"copy", "advance"} => q.tail # q.head

\* The ring is the bounded sequence that Queue.h promises: elements come out
\* once, whole and in order, EnQueue fails only at a moment the queue is
\* full, DeQueue only at a moment it is empty, and Clear and Resize do what
\* they say, but for a Resize that cuts (Queue.hpp:34-159).  An element is in
\* the queue from the store of m_Tail to the store of m_Head.
Promise == INSTANCE Fifo WITH items <- Contents(q), capacity <- q.size - 1

\* A Resize of a queue that wraps around loses elements when they are longer
\* than a byte: Queue.hpp:146 copies m_Tail bytes of those at the old array's
\* beginning.
ResizeCuts ==
  /\ ElemSize > 1 /\ q.tail \in 1 .. q.head - 1
  /\ \E n \in Sizes : ResizeCall(n)

IsAFifo == Promise!Init /\ [][Promise!Next \/ ResizeCuts]_(Promise!fvars)
=============================================================================
