------------------------ MODULE FixedContainerProofs ------------------------
(***************************************************************************)
(* Facts about the pool of module FixedContainer, for every MaxNodes.      *)
(***************************************************************************)
EXTENDS FixedContainer, QueueProofs

\* The pool's queue has room for every node.
LEMMA PoolSlotsType == PoolSlots \in Nat \ {0} /\ MaxNodes \in Nat /\ PoolSlots - 1 = MaxNodes
BY MaxNodesAssumption DEF PoolSlots

\* There are as many nodes as the pool's queue has room for.
LEMMA NodesFinite == IsFiniteSet(Nodes) /\ Cardinality(Nodes) = PoolSlots - 1
BY MaxNodesAssumption, FS_Interval DEF Nodes, PoolSlots

\* A new pool holds every node, once (the assert at the end of the
\* constructor, FixedContainer.hpp:25).
LEMMA NewPoolFull ==
  NewPool \in Pools /\ Distinct(NewPool) /\ FreeNodes(NewPool) = Nodes
<1>1. /\ NewPool.size = PoolSlots /\ NewPool.head = 0 /\ NewPool.tail = MaxNodes
      /\ NewPool.data = [i \in 0 .. MaxNodes |-> i % MaxNodes]
  BY DEF NewPool
<1>2. \A i \in 0 .. MaxNodes : i % MaxNodes \in Nodes /\ (i < MaxNodes => i % MaxNodes = i)
  BY MaxNodesAssumption DEF Nodes
<1>4. NewPool \in Pools
  <2>1. (PoolSlots - 1) = MaxNodes /\ 0 \in 0 .. MaxNodes /\ MaxNodes \in 0 .. MaxNodes
    BY MaxNodesAssumption DEF PoolSlots
  <2>2. NewPool.data \in [0 .. MaxNodes -> Nodes]
    BY <1>1, <1>2
  <2> QED
    BY <1>2, <2>1, <2>2 DEF NewPool, Pools, Queues
<1>5. LiveSlots(NewPool) = Nodes
  BY <1>1, PoolSlotsType, MaxNodesAssumption DEF LiveSlots, Slots, Nodes
<1>6. \A i \in Nodes : NewPool.data[i] = i
  BY <1>1, <1>2, MaxNodesAssumption DEF Nodes
<1> QED
  BY <1>4, <1>5, <1>6 DEF Distinct, FreeNodes, Elements

\* GetNode returns a free node, which is then no longer free, or none.
LEMMA GetNodeTakesFree ==
  ASSUME NEW pool \in Pools
  PROVE  /\ GetNode(pool) \in Nodes \union {NoNode}
         /\ AfterGet(pool) \in Pools
         /\ GetNode(pool) = NoNode => AfterGet(pool) = pool
         /\ GetNode(pool) # NoNode /\ Distinct(pool) =>
              /\ GetNode(pool) \in FreeNodes(pool)
              /\ FreeNodes(AfterGet(pool)) = FreeNodes(pool) \ {GetNode(pool)}
              /\ Distinct(AfterGet(pool))
<1>1. pool \in Queues(PoolSlots, Nodes) /\ PoolSlots \in Nat \ {0}
  BY PoolSlotsType DEF Pools
<1>2. CASE DeQueueOk(pool)
  <2>1. GetFront(pool) \in Nodes /\ DeQueue(pool) \in Queues(PoolSlots, Nodes)
    BY <1>1, <1>2, DeQueueFields
  <2>2. Distinct(pool) => /\ GetFront(pool) \in Elements(pool)
                          /\ Elements(DeQueue(pool)) = Elements(pool) \ {GetFront(pool)}
                          /\ Distinct(DeQueue(pool))
    BY <1>1, <1>2, DeQueueElements
  <2>3. GetNode(pool) = GetFront(pool) /\ AfterGet(pool) = DeQueue(pool)
    BY <1>2 DEF GetNode, AfterGet
  <2>4. GetFront(pool) # NoNode
    BY <2>1 DEF Nodes, NoNode
  <2> QED
    BY <2>1, <2>2, <2>3, <2>4 DEF FreeNodes, Pools
<1>3. CASE ~DeQueueOk(pool)
  <2>1. GetNode(pool) = NoNode /\ AfterGet(pool) = pool
    BY <1>3 DEF GetNode, AfterGet, DeQueue
  <2> QED
    BY <2>1
<1> QED
  BY <1>2, <1>3

\* FreeNode leaves a pool, whatever it is given.
LEMMA FreeNodeType ==
  ASSUME NEW pool \in Pools, NEW n
  PROVE  AfterFree(pool, n) \in Pools
<1>1. pool \in Queues(PoolSlots, Nodes) /\ PoolSlots \in Nat \ {0}
  BY PoolSlotsType DEF Pools
<1>2. CASE n \in Nodes /\ EnQueueOk(pool)
  <2>1. EnQueue(pool, n) \in Queues(PoolSlots, Nodes)
    BY <1>1, <1>2, EnQueueFields
  <2> QED
    BY <1>2, <2>1 DEF AfterFree, Pools
<1>3. CASE ~(n \in Nodes /\ EnQueueOk(pool))
  BY <1>3 DEF AfterFree, EnQueue
<1> QED
  BY <1>2, <1>3

\* A node that FreeNode takes is one more in the queue.
LEMMA FreeNodeCount ==
  ASSUME NEW pool \in Pools, NEW n, FreeNodeOk(pool, n)
  PROVE  Count(AfterFree(pool, n)) = Count(pool) + 1
<1>1. /\ pool \in Queues(PoolSlots, Nodes) /\ PoolSlots \in Nat \ {0}
      /\ n \in Nodes /\ EnQueueOk(pool)
  BY PoolSlotsType DEF Pools, FreeNodeOk
<1>2. /\ EnQueue(pool, n).size = PoolSlots /\ EnQueue(pool, n).head = pool.head
      /\ EnQueue(pool, n).tail = NextSlot(pool.tail, PoolSlots)
  BY <1>1 DEF EnQueue, Queues
<1>3. /\ pool.size = PoolSlots /\ pool.head \in 0 .. PoolSlots - 1
      /\ pool.tail \in 0 .. PoolSlots - 1
  BY <1>1 DEF Queues
<1>4. /\ NextSlot(pool.tail, PoolSlots) = IF pool.tail = PoolSlots - 1 THEN 0 ELSE pool.tail + 1
      /\ pool.head # NextSlot(pool.tail, PoolSlots)
  BY <1>1, <1>3, NextSlotIs DEF EnQueueOk, IsFull
<1> QED
  BY <1>1, <1>2, <1>3, <1>4 DEF Count, AfterFree

\* FreeNode accepts a node that is not free: its queue cannot be full then.
LEMMA FreeNodeAddsOne ==
  ASSUME NEW pool \in Pools, Distinct(pool), NEW n \in Nodes, n \notin FreeNodes(pool)
  PROVE  /\ FreeNodeOk(pool, n)
         /\ FreeNodes(AfterFree(pool, n)) = FreeNodes(pool) \union {n}
         /\ Distinct(AfterFree(pool, n))
<1>1. pool \in Queues(PoolSlots, Nodes) /\ PoolSlots \in Nat \ {0}
  BY PoolSlotsType DEF Pools
<1>2. EnQueueOk(pool)
  <2> SUFFICES ASSUME IsFull(pool) PROVE FALSE
    BY DEF EnQueueOk
  <2>1. Elements(pool) = Nodes
    BY <1>1, NodesFinite, FullHoldsAll
  <2> QED
    BY <2>1 DEF FreeNodes
<1>3. /\ Elements(EnQueue(pool, n)) = Elements(pool) \union {n}
      /\ Distinct(EnQueue(pool, n))
  BY <1>1, <1>2, EnQueueElements DEF FreeNodes
<1> QED
  BY <1>2, <1>3 DEF FreeNodeOk, FreeNodes, AfterFree
=============================================================================
