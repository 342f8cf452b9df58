--------------------------- MODULE FixedContainer ---------------------------
(***************************************************************************)
(* The memory pool of src/src/FixedContainer.hpp.  The class keeps MaxNodes *)
(* nodes in one array and a Queue of the indexes of the free ones; a node  *)
(* is its index here, and the pool is the value of that queue.  GetNode    *)
(* dequeues an index, FreeNode enqueues one.  Nothing in the class records *)
(* which nodes are in use: FreeNode trusts its caller, except that a full  *)
(* queue refuses the index.                                                *)
(***************************************************************************)
EXTENDS Queue

CONSTANT MaxNodes   \* MAX_NODES, poolsize in conf/sys.cfg

ASSUME MaxNodesAssumption == MaxNodes \in Nat \ {0}

Nodes == 0 .. MaxNodes - 1

\* The null pointer: an address below m_Data, hence not the address of a node.
NoNode == -1

\* One slot more than nodes, because a Queue leaves one slot unused.
PoolSlots == MaxNodes + 1
Pools     == Queues(PoolSlots, Nodes)

\* The constructor enqueues 0, 1, ..., MaxNodes - 1 into the new queue: slot
\* i holds node i and the last slot, still unset, is the unused one.
NewPool ==
  [size |-> PoolSlots, head |-> 0, tail |-> MaxNodes,
   data |-> [i \in 0 .. MaxNodes |-> i % MaxNodes]]

\* GetNode: the node it returns, and the pool it leaves.
GetNode(pool)   == IF DeQueueOk(pool) THEN GetFront(pool) ELSE NoNode
AfterGet(pool)  == DeQueue(pool)

\* FreeNode: a pointer outside the array is refused, and so is any node when
\* the queue is full; otherwise the node's index goes to the back.
FreeNodeOk(pool, n) == n \in Nodes /\ EnQueueOk(pool)
AfterFree(pool, n)  == IF n \in Nodes THEN EnQueue(pool, n) ELSE pool

UsedNodesCount(pool) == MaxNodes - Count(pool)

\* The nodes GetNode may still hand out.
FreeNodes(pool) == Elements(pool)
=============================================================================
