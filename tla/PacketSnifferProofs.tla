------------------------ MODULE PacketSnifferProofs ------------------------
(***************************************************************************)
(* Proofs about PacketSniffer, for every set of keys and frames, size of   *)
(* the pool, width of the counters and bound on damage.                    *)
(*                                                                         *)
(* NodesAccountedFor is not inductive: Release frees the node of a lookup  *)
(* made earlier, and Insert inserts a key whose absence was established    *)
(* earlier.  CaptureViewHolds states what is still true of those           *)
(* conclusions; with it, and with types, the conjunction (Accounting) is   *)
(* inductive.                                                              *)
(***************************************************************************)
EXTENDS PacketSniffer, FixedContainerProofs, FlowListProofs

\* A uint16_t holds the number it is assigned modulo its width.
LEMMA Kept16Range ==
  ASSUME NEW n \in Int
  PROVE  Kept16(n) \in 0 .. U16 - 1
BY SnifferAssumption DEF Kept16

\* The fields of a frame.
LEMMA FrameFields ==
  ASSUME NEW f \in Frames
  PROVE  /\ f.key \in Keys /\ f.contentLen \in Int /\ f.body \in Int /\ f.length \in Int
         /\ f \in Frames \union {NoFrame}
BY SnifferAssumption DEF Frame

\* UsedNodesCount() is a number, even when Count() returned more than there is.
LEMMA UsedRange ==
  ASSUME NEW cnt \in Int
  PROVE  Used(cnt) \in Nat /\ Used(cnt) \div 2 \in Nat
<1>1. U32 \in Nat \ {0} /\ MaxNodes - cnt \in Int
  BY SnifferAssumption, MaxNodesAssumption
<1> QED
  BY <1>1 DEF Used

\* Types, initially.
LEMMA InitTypeOK == Init => TypeOK
<1> SUFFICES ASSUME Init PROVE TypeOK
  OBVIOUS
<1>1. pool \in Pools
  BY NewPoolFull DEF Init
<1>2. node \in [Nodes -> [cLen : 0 .. U16 - 1, usedCnt : 0 .. U16 - 1]]
  BY SnifferAssumption DEF Init
<1>3. Open = {} /\ flowtable \in [Open -> Nodes]
  BY DEF Init, Open
<1>4. lrukey \in Seq(Keys)
  BY DEF Init
<1>5. damage \in 0 .. MaxDamage
  BY SnifferAssumption DEF Init
<1> QED
  BY <1>1, <1>2, <1>3, <1>4, <1>5 DEF Init, TypeOK, CapturePC, LRUPC

\* Types, preserved by every step.
LEMMA NextTypeOK == TypeOK /\ [Next]_vars => TypeOK'
<1> SUFFICES ASSUME TypeOK, [Next]_vars PROVE TypeOK'
  OBVIOUS
<1>0. calm' \in BOOLEAN
  BY DEF Next, Noticed, vars, TypeOK
<1> USE <1>0 DEF TypeOK, Open, shared, capture, lru, count, CapturePC, LRUPC, CountPC
<1>1. ASSUME NEW f \in Frames, Find(f) PROVE TypeOK'
  BY <1>1, FrameFields DEF Find, NotFound
<1>2. ASSUME NEW f \in Frames, FindMissed(f) PROVE TypeOK'
  <2>1. damage' \in 0 .. MaxDamage
    BY <1>2, SnifferAssumption DEF FindMissed
  <2>2. /\ cpc' \in {"idle", "getnode"} /\ cache' = NoNode
        /\ frame' \in Frames \union {NoFrame} /\ (cpc' # "idle" => frame' \in Frames)
    BY <1>2 DEF FindMissed, NotFound
  <2> QED
    BY <1>2, <2>1, <2>2 DEF FindMissed
<1>3. CASE FindFaulted
  BY <1>3 DEF FindFaulted
<1>4. CASE TakeNode
  <2>1. pool' \in Pools /\ GetNode(pool) \in Nodes \union {NoNode}
    BY <1>4, GetNodeTakesFree DEF TakeNode
  <2> QED
    BY <1>4, <2>1 DEF TakeNode, EndFrame
<1>5. CASE Fill
  <2>1. Kept16(frame.contentLen) \in 0 .. U16 - 1 /\ Kept16(frame.body) \in 0 .. U16 - 1
    BY <1>5, FrameFields, Kept16Range DEF Fill
  <2> QED
    BY <1>5, <2>1 DEF Fill
<1>6. CASE Insert
  <2>1. frame.key \in Keys /\ cache \in Nodes
    BY <1>6, FrameFields DEF Insert
  <2>2. lrukey' \in Seq(Keys)
    BY <1>6, <2>1 DEF Insert
  <2>3. DOMAIN flowtable' \subseteq Keys /\ flowtable' \in [DOMAIN flowtable' -> Nodes]
    BY <1>6, <2>1 DEF Insert, With
  <2> QED
    BY <1>6, <2>2, <2>3 DEF Insert, EndFrame
<1>7. CASE AppendData
  <2>1. cache \in Nodes /\ frame \in Frames
    BY <1>7 DEF AppendData
  <2>2. SliceCnt \in Int
    BY <2>1, FrameFields, SnifferAssumption DEF SliceCnt
  <2>3. Kept16(node[cache].usedCnt + SliceCnt) \in 0 .. U16 - 1
    BY <2>1, <2>2, Kept16Range
  <2>4. node' \in [Nodes -> [cLen : 0 .. U16 - 1, usedCnt : 0 .. U16 - 1]]
    BY <1>7, <2>1, <2>3, SnifferAssumption DEF AppendData
  <2>5. \/ cpc' = "release" /\ frame' = frame /\ cache' = cache
        \/ cpc' = "idle" /\ frame' = NoFrame /\ cache' = NoNode
    BY <1>7 DEF AppendData, EndFrame
  <2> QED
    BY <1>7, <2>1, <2>4, <2>5 DEF AppendData
<1>8. CASE Release
  <2>1. pool' \in Pools
    BY <1>8, FreeNodeType DEF Release
  <2>2. lrukey' \in Seq(Keys)
    BY <1>8, ListRemoveElements DEF Release
  <2>3. DOMAIN flowtable' \subseteq Keys /\ flowtable' \in [DOMAIN flowtable' -> Nodes]
    BY <1>8 DEF Release, Without
  <2> QED
    BY <1>8, <2>1, <2>2, <2>3 DEF Release, EndFrame
<1>9. CASE ReleaseStale
  <2>1. pool' \in Pools
    BY <1>9, FreeNodeType DEF ReleaseStale
  <2>2. ListRemove(lrukey, frame.key) \in Seq(Keys)
    BY ListRemoveElements
  <2>3. lrukey' \in Seq(Keys)
    BY <1>9, <2>2 DEF ReleaseStale
  <2>5. aborted' \in BOOLEAN
    BY <1>9 DEF ReleaseStale
  <2>6. damage' \in 0 .. MaxDamage
    BY <1>9, SnifferAssumption DEF ReleaseStale
  <2>4. \/ UNCHANGED capture
        \/ cpc' = "idle" /\ frame' = NoFrame /\ cache' = NoNode
    BY <1>9 DEF ReleaseStale, EndFrame
  <2> QED
    BY <1>9, <2>1, <2>3, <2>4, <2>5, <2>6 DEF ReleaseStale
<1>10. CASE StartLRUClear
  BY <1>10 DEF StartLRUClear
<1>11. CASE LoadHead
  <2>1. pool.head \in Nat
    BY PoolSlotsType DEF Pools, Queues
  <2> QED
    BY <1>11, <2>1 DEF LoadHead
<1>12. CASE LoadTail
  <2>1. pool.tail \in Nat
    BY PoolSlotsType DEF Pools, Queues
  <2> QED
    BY <1>12, <2>1 DEF LoadTail
<1>13. CASE Evaluate
  <2>1. hReg \in Nat /\ tReg \in Nat
    BY <1>13 DEF Evaluate
  <2>2. U32 \in Nat \ {0} /\ PoolSlots \in Nat
    BY SnifferAssumption, MaxNodesAssumption, PoolSlotsType
  <2>3. /\ 0 \in Int
        /\ (PoolSlots - (hReg - tReg)) % U32 \in Int
        /\ (tReg - hReg) % U32 \in Int
    BY <2>1, <2>2
  <2>4. ASSUME NEW cnt \in Int, CountReturns(cnt)
        PROVE  /\ lpc' \in {"idle", "isEmpty", "lock"}
               /\ query' \in {"threshold", "clear"} /\ clearCnt' \in Nat
    BY <2>4, UsedRange DEF CountReturns
  <2>5. /\ lpc' \in LRUPC \ {"evict"}
        /\ query' \in {"threshold", "clear"} /\ clearCnt' \in Nat
    BY <1>13, <2>3, <2>4 DEF Evaluate
  <2> QED
    BY <1>13, <2>5 DEF Evaluate
<1>14. CASE Lock
  BY <1>14 DEF Lock
<1>15. CASE EvictOldest
  <2>1. pool' \in Pools
    BY <1>15, FreeNodeType DEF EvictOldest
  <2>2. lrukey' \in Seq(Keys) /\ i' \in Nat
    BY <1>15 DEF EvictOldest, MoreToEvict
  <2>3. DOMAIN flowtable' \subseteq Keys /\ flowtable' \in [DOMAIN flowtable' -> Nodes]
    BY <1>15 DEF EvictOldest, Without
  <2> QED
    BY <1>15, <2>1, <2>2, <2>3 DEF EvictOldest
<1>16. CASE Unlock
  BY <1>16 DEF Unlock
<1>17. CASE UNCHANGED process
  BY <1>17 DEF process
<1>18. CASE ReadNode
  BY <1>18 DEF ReadNode
<1>19. CASE ReadNodeStale
  <2>1. aborted' \in BOOLEAN
    BY <1>19 DEF ReadNodeStale
  <2>2. damage' \in 0 .. MaxDamage
    BY <1>19, SnifferAssumption DEF ReadNodeStale
  <2>3. UNCHANGED capture \/ (cpc' = "append" /\ cache' \in Nodes /\ frame' = frame)
    BY <1>19 DEF ReadNodeStale
  <2>4. cpc = "found"
    BY <1>19 DEF ReadNodeStale
  <2> QED
    BY <1>19, <2>1, <2>2, <2>3, <2>4 DEF ReadNodeStale
<1> QED
  BY <1>1, <1>2, <1>3, <1>4, <1>5, <1>6, <1>7, <1>8, <1>9, <1>10, <1>11, <1>12,
     <1>13, <1>14, <1>15, <1>16, <1>17, <1>18, <1>19
     DEF Next, Running, Dead, vars, Lookup, CaptureStep, LRUStep

\* Type correctness of the sniffer: the pool hands out and takes back only its
\* own nodes, and the counters of a node stay in 16 bits.
THEOREM TypeCorrect == Spec => []TypeOK
BY InitTypeOK, NextTypeOK, PTL DEF Spec

-----------------------------------------------------------------------------
(* No flow is out of LRUClear's reach *)

\* No step leaves a flow in the table that is not in lrukey.
LEMMA NextEvictable ==
  TypeOK /\ EveryFlowEvictable /\ [Next]_vars => EveryFlowEvictable'
<1> SUFFICES ASSUME TypeOK, EveryFlowEvictable, [Next]_vars PROVE EveryFlowEvictable'
  OBVIOUS
<1> USE DEF EveryFlowEvictable, Open
<1>1. CASE UNCHANGED <<flowtable, lrukey>>
  BY <1>1 DEF ListElements
<1>2. CASE Insert
  <2>1. frame.key \in Keys /\ lrukey \in Seq(Keys)
    BY <1>2, FrameFields DEF Insert, TypeOK
  <2>2. ListElements(lrukey') = ListElements(lrukey) \union {frame.key}
    BY <1>2, <2>1, AppendElements DEF Insert
  <2>3. DOMAIN flowtable' = Open \union {frame.key}
    BY <1>2 DEF Insert, With
  <2> QED
    BY <2>2, <2>3
<1>3. CASE Release
  <2>1. ListElements(lrukey') = ListElements(lrukey) \ {frame.key}
    BY <1>3, ListRemoveElements DEF Release, TypeOK
  <2>2. DOMAIN flowtable' = Open \ {frame.key}
    BY <1>3 DEF Release, Without
  <2> QED
    BY <2>1, <2>2
<1>4. CASE ReleaseStale
  <2>1. ListElements(ListRemove(lrukey, frame.key)) = ListElements(lrukey) \ {frame.key}
    BY ListRemoveElements DEF TypeOK
  <2>2. frame.key \notin Open /\ flowtable' = flowtable
    BY <1>4 DEF ReleaseStale
  <2>3. lrukey' = lrukey \/ lrukey' = ListRemove(lrukey, frame.key)
    BY <1>4 DEF ReleaseStale
  <2> QED
    BY <2>1, <2>2, <2>3
<1>5. CASE EvictOldest
  <2>1. ListElements(lrukey) \ {Head(lrukey)} \subseteq ListElements(lrukey')
    BY <1>5, TailElements DEF EvictOldest, MoreToEvict, TypeOK
  <2>2. DOMAIN flowtable' = Open \ {Head(lrukey)}
    BY <1>5 DEF EvictOldest, Without
  <2> QED
    BY <2>1, <2>2
<1> QED
  BY <1>1, <1>2, <1>3, <1>4, <1>5
     DEF Next, Running, Dead, vars, process, shared, Lookup, Find, FindMissed, FindFaulted,
         CaptureStep, ReadNode, ReadNodeStale, TakeNode, Fill, AppendData, LRUStep,
         StartLRUClear, LoadHead, LoadTail, Evaluate, Lock, Unlock

\* Every flow of the table is in lrukey, where LRUClear can find it, whatever
\* the two threads do and even after undefined behaviour.
THEOREM FlowsStayEvictable == Spec => []EveryFlowEvictable
<1>1. Init => EveryFlowEvictable
  BY DEF Init, EveryFlowEvictable, Open
<1> QED
  BY <1>1, InitTypeOK, NextTypeOK, NextEvictable, PTL DEF Spec
-----------------------------------------------------------------------------
(* Every node is in one place *)

\* The pool and the table give no node twice.
NodesApart ==
  /\ Distinct(pool)
  /\ \A k, m \in Open : flowtable[k] = flowtable[m] => k = m
  /\ FreeNodes(pool) \intersect TableNodes = {}

\* Freeing an open flow's node and erasing the flow keeps nodes apart (the
\* three lines HandleFrame and LRUClear share).
LEMMA CloseFlow ==
  ASSUME TypeOK, NodesApart, NEW k \in Open
  PROVE  /\ FreeNodeOk(pool, flowtable[k])
         /\ Distinct(AfterFree(pool, flowtable[k]))
         /\ FreeNodes(AfterFree(pool, flowtable[k])) = FreeNodes(pool) \union {flowtable[k]}
         /\ DOMAIN Without(k) = Open \ {k}
         /\ \A x \in Open \ {k} : Without(k)[x] = flowtable[x]
         /\ {Without(k)[x] : x \in Open \ {k}} = TableNodes \ {flowtable[k]}
<1>1. flowtable[k] \in Nodes /\ flowtable[k] \notin FreeNodes(pool)
  BY DEF TypeOK, NodesApart, TableNodes, Open
<1>2. /\ FreeNodeOk(pool, flowtable[k])
      /\ Distinct(AfterFree(pool, flowtable[k]))
      /\ FreeNodes(AfterFree(pool, flowtable[k])) = FreeNodes(pool) \union {flowtable[k]}
  BY <1>1, FreeNodeAddsOne DEF TypeOK, NodesApart
<1>3. DOMAIN Without(k) = Open \ {k} /\ \A x \in Open \ {k} : Without(k)[x] = flowtable[x]
  BY DEF Without
<1>4. {Without(k)[x] : x \in Open \ {k}} = TableNodes \ {flowtable[k]}
  BY <1>3 DEF TableNodes, NodesApart
<1> QED
  BY <1>2, <1>3, <1>4

\* With TypeOK, the inductive invariant.
Accounting == NodesAccountedFor /\ CaptureViewHolds

\* Accounting, initially.
LEMMA InitAccounting == Init => Accounting
<1> SUFFICES ASSUME Init PROVE Accounting
  OBVIOUS
<1>1. Open = {} /\ TableNodes = {} /\ Reserved = {} /\ ~HoldsFlow /\ ListElements(lrukey) = {}
      /\ NoDuplicates(lrukey)
  BY DEF Init, Open, TableNodes, Reserved, HoldsFlow, ListElements, NoDuplicates
<1>2. Distinct(pool) /\ FreeNodes(pool) = Nodes
  BY NewPoolFull DEF Init
<1>3. cpc = "idle"
  BY DEF Init
<1> QED
  BY <1>1, <1>2, <1>3 DEF Accounting, NodesAccountedFor, CaptureViewHolds

\* Damage is not undone.
LEMMA DamageStays ==
  ASSUME TypeOK, [Next]_vars, Intact'
  PROVE  Intact
<1>1. damage \in Nat /\ aborted \in BOOLEAN
  BY SnifferAssumption DEF TypeOK
<1>2. CASE UNCHANGED <<damage, aborted>>
  BY <1>2 DEF Intact
<1>3. ASSUME NEW f \in Frames, FindMissed(f) PROVE Intact
  BY <1>1, <1>3 DEF FindMissed, Intact
<1>4. CASE FindFaulted
  BY <1>4 DEF FindFaulted, Intact
<1>5. CASE ReleaseStale
  BY <1>1, <1>5 DEF ReleaseStale, Intact
<1>6. CASE ReadNodeStale
  BY <1>1, <1>6 DEF ReadNodeStale, Intact
<1> QED
  BY <1>2, <1>3, <1>4, <1>5, <1>6
     DEF Next, Running, Dead, vars, process, Lookup, Find, CaptureStep, ReadNode, TakeNode, Fill,
         Insert, AppendData, Release, LRUStep, StartLRUClear, LoadHead, LoadTail, Evaluate,
         Lock, EvictOldest, Unlock

\* Every step preserves Accounting.
LEMMA NextAccounting == TypeOK /\ Accounting /\ [Next]_vars => Accounting'
<1> SUFFICES ASSUME TypeOK, Accounting, [Next]_vars, Intact' PROVE Accounting'
  BY DEF Accounting, NodesAccountedFor, CaptureViewHolds
<1>0. Intact
  BY DamageStays
<1>a. /\ Distinct(pool)
      /\ \A k, m \in Open : flowtable[k] = flowtable[m] => k = m
      /\ FreeNodes(pool) \intersect TableNodes = {}
      /\ Reserved \intersect (FreeNodes(pool) \union TableNodes) = {}
      /\ Nodes = FreeNodes(pool) \union TableNodes \union Reserved
      /\ NoDuplicates(lrukey) /\ ListElements(lrukey) = Open
  BY <1>0 DEF Accounting, NodesAccountedFor
<1>b. /\ cpc \in {"getnode", "fill", "insert"} => frame.key \notin Open
      /\ HoldsFlow => IF frame.key \in Open THEN cache = flowtable[frame.key]
                                           ELSE cache \in FreeNodes(pool)
  BY <1>0 DEF Accounting, CaptureViewHolds
<1>c. NodesApart
  BY <1>a DEF NodesApart
<1> SUFFICES
      /\ Distinct(pool')
      /\ \A k, m \in Open' : flowtable'[k] = flowtable'[m] => k = m
      /\ FreeNodes(pool') \intersect TableNodes' = {}
      /\ Reserved' \intersect (FreeNodes(pool') \union TableNodes') = {}
      /\ Nodes = FreeNodes(pool') \union TableNodes' \union Reserved'
      /\ NoDuplicates(lrukey') /\ ListElements(lrukey') = Open'
      /\ cpc' \in {"getnode", "fill", "insert"} => frame'.key \notin Open'
      /\ HoldsFlow' => IF frame'.key \in Open' THEN cache' = flowtable'[frame'.key]
                                              ELSE cache' \in FreeNodes(pool')
  BY DEF Accounting, NodesAccountedFor, CaptureViewHolds
<1>1. CASE UNCHANGED <<pool, flowtable, lrukey, capture>>
  BY <1>1, <1>a, <1>b DEF capture, Open, TableNodes, Reserved, HoldsFlow
<1>2. ASSUME NEW f \in Frames, Find(f) \/ FindMissed(f)
      PROVE  /\ UNCHANGED <<pool, flowtable, lrukey>> /\ Reserved = {} /\ Reserved' = {}
             /\ cpc' \in {"getnode", "fill", "insert"} => frame'.key \notin Open
             /\ ~HoldsFlow'
  <2>1. CASE Find(f)
    BY <2>1 DEF Find, NotFound, shared, Reserved, HoldsFlow
  <2>2. CASE FindMissed(f)
    <3>1. cpc' = "idle"
      BY <2>2, <1>0 DEF FindMissed, NotFound, Intact
    <3> QED
      BY <2>2, <3>1 DEF FindMissed, shared, Reserved, HoldsFlow
  <2> QED
    BY <1>2, <2>1, <2>2
<1>3. CASE \E f \in Frames : Find(f) \/ FindMissed(f)
  BY <1>2, <1>3, <1>a DEF Open, TableNodes
<1>4. CASE TakeNode
  <2>1. UNCHANGED <<flowtable, lrukey>> /\ Open' = Open /\ TableNodes' = TableNodes
        /\ Reserved = {} /\ pool' = AfterGet(pool)
    BY <1>4 DEF TakeNode, Open, TableNodes, Reserved
  <2>2. CASE GetNode(pool) = NoNode
    <3>1. pool' = pool /\ cpc' = "idle"
      BY <1>4, <2>2, GetNodeTakesFree DEF TakeNode, EndFrame, TypeOK
    <3> QED
      BY <2>1, <3>1, <1>a DEF Reserved, HoldsFlow
  <2>3. CASE GetNode(pool) # NoNode
    <3>1. /\ GetNode(pool) \in FreeNodes(pool) /\ Distinct(pool')
          /\ FreeNodes(pool') = FreeNodes(pool) \ {GetNode(pool)}
      BY <2>1, <2>3, <1>a, GetNodeTakesFree DEF TypeOK
    <3>2. cpc = "getnode" /\ cpc' = "fill" /\ cache' = GetNode(pool) /\ frame' = frame
      BY <1>4, <2>3 DEF TakeNode
    <3>3. Reserved' = {GetNode(pool)} /\ ~HoldsFlow'
      BY <3>2 DEF Reserved, HoldsFlow
    <3> QED
      BY <2>1, <3>1, <3>2, <3>3, <1>a, <1>b
  <2> QED
    BY <2>2, <2>3
<1>5. CASE Fill
  BY <1>5, <1>a, <1>b DEF Fill, shared, Open, TableNodes, Reserved, HoldsFlow
<1>6. CASE Insert
  <2>1. /\ cpc = "insert" /\ cpc' = "idle" /\ pool' = pool
        /\ flowtable' = With(frame.key, cache) /\ lrukey' = Append(lrukey, frame.key)
    BY <1>6 DEF Insert, EndFrame
  <2>2. frame.key \notin Open /\ frame.key \in Keys
    BY <2>1, <1>b, FrameFields DEF TypeOK
  <2>3. /\ Open' = Open \union {frame.key} /\ flowtable'[frame.key] = cache
        /\ \A k \in Open : flowtable'[k] = flowtable[k]
    BY <2>1, <2>2 DEF With, Open
  <2>4. TableNodes' = TableNodes \union {cache}
    BY <2>2, <2>3 DEF TableNodes
  <2>5. Reserved = {cache} /\ Reserved' = {} /\ ~HoldsFlow'
    BY <2>1 DEF Reserved, HoldsFlow
  <2>6. NoDuplicates(lrukey') /\ ListElements(lrukey') = Open'
    BY <2>1, <2>2, <2>3, <1>a, AppendElements DEF TypeOK
  <2>7. \A k \in Open : flowtable[k] # cache
    BY <2>5, <1>a DEF TableNodes
  <2>8. \A k, m \in Open' : flowtable'[k] = flowtable'[m] => k = m
    BY <2>3, <2>7, <1>a
  <2> QED
    BY <2>1, <2>4, <2>5, <2>6, <2>8, <1>a
<1>7. CASE AppendData
  <2>1. /\ UNCHANGED <<pool, flowtable, lrukey>> /\ cpc = "append"
        /\ \/ cpc' = "release" /\ UNCHANGED <<frame, cache>>
           \/ cpc' = "idle"
    BY <1>7 DEF AppendData, shared, EndFrame
  <2>2. Open' = Open /\ TableNodes' = TableNodes /\ Reserved = {} /\ Reserved' = {} /\ HoldsFlow
    BY <2>1 DEF Open, TableNodes, Reserved, HoldsFlow
  <2>3. HoldsFlow' => UNCHANGED <<frame, cache>>
    BY <2>1 DEF HoldsFlow
  <2>4. cpc' \notin {"getnode", "fill", "insert"}
    BY <2>1
  <2> QED
    BY <2>1, <2>2, <2>3, <2>4, <1>a, <1>b
<1>8. CASE Release
  <2> DEFINE n == flowtable[frame.key]
  <2>1. /\ frame.key \in Open /\ cpc = "release" /\ cpc' = "idle" /\ cache = n
        /\ pool' = AfterFree(pool, n) /\ flowtable' = Without(frame.key)
        /\ lrukey' = ListRemove(lrukey, frame.key)
    BY <1>8, <1>b DEF Release, HoldsFlow, EndFrame
  <2>2. /\ Distinct(pool') /\ FreeNodes(pool') = FreeNodes(pool) \union {n}
        /\ Open' = Open \ {frame.key}
        /\ \A x \in Open' : flowtable'[x] = flowtable[x]
        /\ {flowtable'[x] : x \in Open'} = TableNodes \ {n}
    BY <2>1, <1>c, CloseFlow DEF Open
  <2>3. n \in TableNodes /\ TableNodes' = TableNodes \ {n}
    BY <2>1, <2>2 DEF TableNodes
  <2>4. NoDuplicates(lrukey') /\ ListElements(lrukey') = Open'
    BY <2>1, <2>2, <1>a, ListRemoveElements DEF TypeOK
  <2>5. Reserved = {} /\ Reserved' = {} /\ ~HoldsFlow'
    BY <2>1 DEF Reserved, HoldsFlow
  <2>6. \A k, m \in Open' : flowtable'[k] = flowtable'[m] => k = m
    BY <2>2, <1>a
  <2> HIDE DEF n
  <2> QED
    BY <2>1, <2>2, <2>3, <2>4, <2>5, <2>6, <1>a
<1>9. CASE EvictOldest
  <2> DEFINE h == Head(lrukey)
             n == flowtable[h]
  <2>1. /\ lrukey # <<>> /\ UNCHANGED capture
        /\ pool' = AfterFree(pool, NodeOf(h)) /\ flowtable' = Without(h)
        /\ lrukey' = Tail(lrukey)
    BY <1>9 DEF EvictOldest, MoreToEvict
  <2>2. /\ h \in ListElements(lrukey) /\ NoDuplicates(lrukey')
        /\ ListElements(lrukey') = ListElements(lrukey) \ {h}
    BY <2>1, <1>a, TailElements DEF TypeOK
  <2>3. h \in Open /\ NodeOf(h) = n
    BY <2>2, <1>a DEF NodeOf
  <2>4. /\ Distinct(pool') /\ FreeNodes(pool') = FreeNodes(pool) \union {n}
        /\ Open' = Open \ {h}
        /\ \A x \in Open' : flowtable'[x] = flowtable[x]
        /\ {flowtable'[x] : x \in Open'} = TableNodes \ {n}
    <3>1. pool' = AfterFree(pool, n) /\ flowtable' = Without(h)
      BY <2>1, <2>3
    <3>2. /\ Distinct(AfterFree(pool, n)) /\ FreeNodes(AfterFree(pool, n)) = FreeNodes(pool) \union {n}
          /\ DOMAIN Without(h) = Open \ {h}
          /\ \A x \in Open \ {h} : Without(h)[x] = flowtable[x]
          /\ {Without(h)[x] : x \in Open \ {h}} = TableNodes \ {n}
      BY <2>3, <1>c, CloseFlow
    <3> HIDE DEF h, n
    <3> QED
      BY <3>1, <3>2 DEF Open
  <2>5. n \in TableNodes /\ TableNodes' = TableNodes \ {n}
    BY <2>3, <2>4 DEF TableNodes
  <2>6. Reserved' = Reserved /\ (HoldsFlow' <=> HoldsFlow) /\ cpc' = cpc /\ frame' = frame
        /\ cache' = cache
    BY <2>1 DEF capture, Reserved, HoldsFlow
  <2>7. \A k, m \in Open' : flowtable'[k] = flowtable'[m] => k = m
    BY <2>4, <1>a
  <2>8. HoldsFlow => IF frame.key \in Open' THEN cache = flowtable'[frame.key]
                                           ELSE cache \in FreeNodes(pool')
    <3> SUFFICES ASSUME HoldsFlow
                 PROVE  IF frame.key \in Open' THEN cache = flowtable'[frame.key]
                                              ELSE cache \in FreeNodes(pool')
      OBVIOUS
    <3>1. CASE frame.key = h
      BY <3>1, <2>3, <2>4, <1>b
    <3>2. CASE frame.key # h
      BY <3>2, <2>4, <1>b
    <3> QED
      BY <3>1, <3>2
  <2> HIDE DEF n, h
  <2>9. FreeNodes(pool') \intersect TableNodes' = {}
    BY <2>4, <2>5, <1>a
  <2>10. Reserved' \intersect (FreeNodes(pool') \union TableNodes') = {}
    BY <2>4, <2>5, <2>6, <1>a
  <2>11. Nodes = FreeNodes(pool') \union TableNodes' \union Reserved'
    BY <2>4, <2>5, <2>6, <1>a
  <2>12. ListElements(lrukey') = Open'
    BY <2>2, <2>4, <1>a
  <2>13. cpc' \in {"getnode", "fill", "insert"} => frame'.key \notin Open'
    BY <2>4, <2>6, <1>b
  <2> QED
    BY <2>2, <2>4, <2>6, <2>7, <2>8, <2>9, <2>10, <2>11, <2>12, <2>13
<1>10. CASE ReleaseStale
  <2>1. damage \in Nat
    BY SnifferAssumption DEF TypeOK
  <2> QED
    BY <1>10, <1>0, <2>1 DEF ReleaseStale, Intact
<1>11. CASE FindFaulted
  BY <1>11 DEF FindFaulted, Intact
<1>12. CASE ReadNode
  <2>1. /\ UNCHANGED <<pool, flowtable, lrukey, frame>>
        /\ cpc = "found" /\ cpc' = "append"
        /\ frame.key \in Open /\ cache' = flowtable[frame.key]
    BY <1>12 DEF ReadNode, shared
  <2>2. Open' = Open /\ TableNodes' = TableNodes /\ Reserved = {} /\ Reserved' = {}
    BY <2>1 DEF Open, TableNodes, Reserved
  <2> QED
    BY <2>1, <2>2, <1>a
<1>13. CASE ReadNodeStale
  <2>1. damage \in Nat
    BY SnifferAssumption DEF TypeOK
  <2> QED
    BY <1>13, <1>0, <2>1 DEF ReadNodeStale, Intact
<1> QED
  BY <1>1, <1>3, <1>4, <1>5, <1>6, <1>7, <1>8, <1>9, <1>10, <1>11, <1>12, <1>13
     DEF Next, Running, Dead, vars, process, shared, Lookup, CaptureStep, LRUStep, StartLRUClear,
         LoadHead, LoadTail, Evaluate, Lock, Unlock

\* The inductive invariant holds.
LEMMA InvariantsHold == Spec => [](TypeOK /\ Accounting)
BY InitTypeOK, NextTypeOK, InitAccounting, NextAccounting, PTL DEF Spec

\* Until undefined behaviour strikes, every node is free, or of one flow, or
\* about to be: none leaks and none is shared.
THEOREM NodesStayAccountedFor == Spec => []NodesAccountedFor
<1>1. Accounting => NodesAccountedFor
  BY DEF Accounting
<1> QED
  BY <1>1, InvariantsHold, PTL

\* Until then, a flow the lookup (packet_sniffer.cpp:148) did not find is not opened
\* behind the capture thread's back, and the node it has read through the iterator
\* (196) is the flow's own, or free, until it is released (226).  An eviction
\* between the lookup and the read is such undefined behaviour.
THEOREM CaptureViewStaysValid == Spec => []CaptureViewHolds
<1>1. Accounting => CaptureViewHolds
  BY DEF Accounting
<1> QED
  BY <1>1, InvariantsHold, PTL

\* Until then, no frame's bytes go into another flow's node, although LRUClear may
\* evict between the read of the node (packet_sniffer.cpp:196) and the copy (205).
THEOREM FlowsKeepTheirNodes == Spec => []NoCrossFlowWrite
<1>1. Accounting => NoCrossFlowWrite
  <2> SUFFICES ASSUME Accounting, Intact, cpc \in {"fill", "append"}, NEW k \in Open \ {frame.key}
               PROVE  flowtable[k] # cache
    BY DEF NoCrossFlowWrite
  <2>1. flowtable[k] \in TableNodes
    BY DEF TableNodes
  <2>2. CASE cpc = "fill"
    BY <2>1, <2>2 DEF Accounting, NodesAccountedFor, Reserved
  <2>3. CASE cpc = "append"
    BY <2>1, <2>3 DEF Accounting, NodesAccountedFor, CaptureViewHolds, HoldsFlow
  <2> QED
    BY <2>2, <2>3
<1> QED
  BY <1>1, InvariantsHold, PTL

\* The oldest flow's node can be freed.
LEMMA EvictAccepted ==
  ASSUME TypeOK, Accounting, Intact, EvictOldest
  PROVE  FreeNodeOk(pool, NodeOf(Head(lrukey)))
<1>1. Head(lrukey) \in ListElements(lrukey)
  BY TailElements DEF EvictOldest, MoreToEvict, TypeOK
<1>2. Head(lrukey) \in Open /\ NodeOf(Head(lrukey)) = flowtable[Head(lrukey)]
  BY <1>1 DEF Accounting, NodesAccountedFor, NodeOf
<1>3. NodesApart
  BY DEF Accounting, NodesAccountedFor, NodesApart
<1> QED
  BY <1>2, <1>3, CloseFlow

\* Until then, FreeNode never refuses a node.
THEOREM FreesAreAccepted == Spec => FreesAccepted
<1> DEFINE Accepts == Intact' =>
             /\ Release     => FreeNodeOk(pool, cache)
             /\ EvictOldest => FreeNodeOk(pool, NodeOf(Head(lrukey)))
<1>1. TypeOK /\ Accounting /\ [Next]_vars => [Accepts]_vars
  <2> SUFFICES ASSUME TypeOK, Accounting, [Next]_vars, Intact'
               PROVE  /\ Release     => FreeNodeOk(pool, cache)
                      /\ EvictOldest => FreeNodeOk(pool, NodeOf(Head(lrukey)))
    OBVIOUS
  <2>1. Intact
    BY DamageStays
  <2>2. NodesApart
    BY <2>1 DEF Accounting, NodesAccountedFor, NodesApart
  <2>3. ASSUME Release PROVE FreeNodeOk(pool, cache)
    <3>1. frame.key \in Open /\ cache = flowtable[frame.key]
      BY <2>1, <2>3 DEF Release, Accounting, CaptureViewHolds, HoldsFlow
    <3> QED
      BY <2>2, <3>1, CloseFlow
  <2>4. ASSUME EvictOldest PROVE FreeNodeOk(pool, NodeOf(Head(lrukey)))
    BY <2>1, <2>4, EvictAccepted
  <2> QED
    BY <2>3, <2>4
<1> QED
  BY <1>1, InvariantsHold, PTL DEF Spec, FreesAccepted

-----------------------------------------------------------------------------
(* The flow table is a bounded cache *)

\* When the capture thread is about to insert a flow, its node is not among the
\* table's: there are fewer flows than nodes.
LEMMA RoomForAFlow ==
  ASSUME TypeOK, Accounting, Intact, cpc = "insert"
  PROVE  Len(lrukey) < MaxNodes
<1> DEFINE S == 1 .. Len(lrukey)
           T == Nodes \ {cache}
           f == [p \in S |-> flowtable[lrukey[p]]]
<1>1. /\ Len(lrukey) \in Nat /\ S = DOMAIN lrukey /\ cache \in Nodes /\ Reserved = {cache}
      /\ MaxNodes \in Nat \ {0}
  BY MaxNodesAssumption DEF TypeOK, Reserved
<1>2. /\ NoDuplicates(lrukey) /\ ListElements(lrukey) = Open
      /\ \A k, m \in Open : flowtable[k] = flowtable[m] => k = m
      /\ cache \notin TableNodes
  BY <1>1 DEF Accounting, NodesAccountedFor
<1>3. \A p \in S : lrukey[p] \in Open
  BY <1>1, <1>2 DEF ListElements
<1>4. \A p \in S : flowtable[lrukey[p]] \in T
  BY <1>2, <1>3 DEF TypeOK, TableNodes, Open
<1>5. \A p, q \in S : flowtable[lrukey[p]] = flowtable[lrukey[q]] => p = q
  BY <1>1, <1>2, <1>3 DEF NoDuplicates
<1>6. f \in Injection(S, T)
  BY <1>4, <1>5 DEF Injection, IsInjective
<1>7. IsFiniteSet(S) /\ Cardinality(S) = Len(lrukey)
  <2>1. IsFiniteSet(S) /\ Cardinality(S) = IF 1 > Len(lrukey) THEN 0 ELSE Len(lrukey) - 1 + 1
    <3> HIDE DEF T, f
    <3> QED BY <1>1, FS_Interval
  <2> QED BY <1>1, <2>1
<1>8. IsFiniteSet(T) /\ Cardinality(T) = MaxNodes - 1
  <2>1. IsFiniteSet(Nodes) /\ Cardinality(Nodes) = MaxNodes
    BY <1>1, FS_Interval DEF Nodes
  <2> QED BY <1>1, <2>1, FS_RemoveElement
<1>9. Cardinality(S) <= Cardinality(T)
  <2> HIDE DEF S, T, f
  <2> QED BY <1>6, <1>7, <1>8, FS_Injection
<1> QED BY <1>1, <1>7, <1>8, <1>9

\* Until then, the flow table is a cache of MaxNodes flows from which the oldest
\* is evicted.
THEOREM FlowTableIsACache == Spec => IsAFlowCache
<1>1. Init => Cache!Init
  BY DEF Init, Cache!Init
<1>2. TypeOK /\ Accounting /\ [Next]_vars => [Intact' => Cache!Next]_lrukey
  <2> SUFFICES ASSUME TypeOK, Accounting, [Next]_vars, Intact', lrukey' # lrukey
               PROVE  Cache!Next
    OBVIOUS
  <2>1. Intact
    BY DamageStays
  <2>2. CASE Insert
    <3>1. /\ cpc = "insert" /\ lrukey' = Append(lrukey, frame.key) /\ frame.key \in Keys
      BY <2>2, FrameFields DEF Insert, TypeOK
    <3>2. frame.key \notin ListElements(lrukey)
      BY <2>1, <3>1 DEF Accounting, NodesAccountedFor, CaptureViewHolds
    <3>3. Len(lrukey) < MaxNodes
      BY <2>1, <3>1, RoomForAFlow
    <3> QED BY <3>1, <3>2, <3>3 DEF Cache!Next, Cache!OpenFlow, Cache!ListElements, ListElements
  <2>3. CASE Release
    <3>1. /\ frame.key \in Open /\ lrukey' = ListRemove(lrukey, frame.key)
          /\ ListElements(lrukey) = Open /\ frame.key \in Keys
      BY <2>1, <2>3 DEF Release, Accounting, NodesAccountedFor, TypeOK
    <3>2. frame.key \in Cache!ListElements(lrukey)
      BY <3>1 DEF Cache!ListElements, ListElements
    <3>3. Cache!ListRemove(lrukey, frame.key) = ListRemove(lrukey, frame.key)
      BY DEF Cache!ListRemove, Cache!Kept, Cache!Rank, ListRemove, Kept, Rank, Cache!Cardinality, Cardinality
    <3> QED BY <3>1, <3>2, <3>3 DEF Cache!Next, Cache!CompleteFlow
  <2>4. CASE ReleaseStale
    <3>1. damage \in Nat
      BY SnifferAssumption DEF TypeOK
    <3> QED BY <2>1, <2>4, <3>1 DEF ReleaseStale, Intact
  <2>5. CASE EvictOldest
    BY <2>5 DEF EvictOldest, MoreToEvict, Cache!Next, Cache!EvictOldest
  <2> QED
    BY <2>2, <2>3, <2>4, <2>5
       DEF Next, Running, Dead, vars, process, shared, Lookup, Find, FindMissed, FindFaulted,
           CaptureStep, ReadNode, ReadNodeStale, TakeNode, Fill, AppendData, LRUStep,
           StartLRUClear, LoadHead, LoadTail, Evaluate, Lock, Unlock
<1> QED
  BY <1>1, <1>2, InvariantsHold, PTL DEF Spec, IsAFlowCache
-----------------------------------------------------------------------------
(* An LRUClear that is not disturbed clears half *)

\* The nodes in use when LRUClear began, if only LRUClear has freed any since.
InUse == UsedNodesCount(pool) + i

\* Where the main thread is in LRUClear, and, while the capture thread leaves
\* the pool alone, what it has read of it.
LRUClearView ==
  /\ lpc \notin CountPC => hReg = Unread /\ tReg = Unread
  /\ lpc # "evict" => i = 0
  /\ lpc \in {"lock", "evict"} => query = "clear"
  /\ Intact /\ calm =>
       /\ hReg \in {pool.head, Unread} /\ tReg \in {pool.tail, Unread}
       /\ lpc \in {"isWrapped", "wrapped", "straight"} => pool.head # pool.tail
       /\ lpc = "wrapped" => pool.head > pool.tail
       /\ lpc = "straight" => pool.head <= pool.tail
       /\ lpc # "idle" /\ query = "clear" => InUse >= (MaxNodes * 4) \div 5
       /\ lpc \in {"lock", "evict"} => clearCnt = InUse \div 2
       /\ lpc = "evict" => i <= clearCnt + 1

\* The pool's counters, and what UsedNodesCount() makes of Count().
LEMMA PoolCounters ==
  ASSUME TypeOK
  PROVE  /\ pool.head \in Nat /\ pool.tail \in Nat /\ pool.size = MaxNodes + 1
         /\ pool.head <= MaxNodes /\ pool.tail <= MaxNodes
         /\ Count(pool) \in 0 .. MaxNodes /\ Count(pool) % U32 = Count(pool)
         /\ UsedNodesCount(pool) \in 0 .. MaxNodes
         /\ Used(Count(pool)) = UsedNodesCount(pool)
         /\ MaxNodes \in Nat \ {0}
<1>1. pool \in Queues(PoolSlots, Nodes) /\ PoolSlots = MaxNodes + 1 /\ MaxNodes \in Nat \ {0}
  BY MaxNodesAssumption DEF TypeOK, Pools, PoolSlots
<1>2. Count(pool) \in 0 .. MaxNodes
  BY <1>1, CountRange
<1>3. /\ pool.head \in Nat /\ pool.tail \in Nat /\ pool.size = MaxNodes + 1
      /\ pool.head <= MaxNodes /\ pool.tail <= MaxNodes
  BY <1>1 DEF Queues
<1>4. U32 \in Nat /\ U32 > MaxNodes
  BY <1>1, SnifferAssumption
<1>5. \A n \in 0 .. MaxNodes : n % U32 = n
  BY <1>1, <1>4
<1>6. MaxNodes - Count(pool) \in 0 .. MaxNodes
  BY <1>1, <1>2
<1> QED
  BY <1>1, <1>2, <1>3, <1>5, <1>6 DEF Used, UsedNodesCount

\* What Count() returns of loads that are still true.
LEMMA CountAsLoaded ==
  ASSUME TypeOK, LRUClearView, Intact, calm, Evaluate
  PROVE  /\ hReg = pool.head /\ tReg = pool.tail
         /\ \/ lpc' = "isWrapped" /\ pool.head # pool.tail /\ UNCHANGED <<query, clearCnt>>
            \/ /\ lpc' = IF pool.head > pool.tail THEN "wrapped" ELSE "straight"
               /\ pool.head # pool.tail
               /\ UNCHANGED <<query, clearCnt>>
            \/ CountReturns(Count(pool))
<1>1. /\ hReg = pool.head /\ tReg = pool.tail
      /\ lpc \in {"isWrapped", "wrapped", "straight"} => pool.head # pool.tail
      /\ lpc = "wrapped" => pool.head > pool.tail
      /\ lpc = "straight" => pool.head <= pool.tail
  BY DEF LRUClearView, Evaluate
<1>2. /\ pool.head \in Nat /\ pool.tail \in Nat /\ pool.size = PoolSlots
      /\ Count(pool) % U32 = Count(pool)
  BY PoolCounters DEF PoolSlots
<1>3. /\ pool.head = pool.tail => Count(pool) = 0
      /\ pool.head > pool.tail => Count(pool) = PoolSlots - (pool.head - pool.tail)
      /\ pool.head <= pool.tail => Count(pool) = pool.tail - pool.head
  BY <1>2 DEF Count
<1>4. CASE lpc = "isEmpty"
  BY <1>1, <1>3, <1>4 DEF Evaluate
<1>5. CASE lpc = "isWrapped"
  BY <1>1, <1>5 DEF Evaluate
<1>6. CASE lpc = "wrapped"
  <2>1. CountReturns((PoolSlots - (pool.head - pool.tail)) % U32)
    BY <1>1, <1>6 DEF Evaluate
  <2> QED BY <1>1, <1>2, <1>3, <1>6, <2>1
<1>7. CASE lpc = "straight"
  <2>1. CountReturns((pool.tail - pool.head) % U32)
    BY <1>1, <1>7 DEF Evaluate
  <2> QED BY <1>1, <1>2, <1>3, <1>7, <2>1
<1> QED
  BY <1>4, <1>5, <1>6, <1>7 DEF Evaluate

\* The steps that leave the main thread where it is: the pool stays, or the
\* capture thread notices that it changes.
LEMMA CaptureKeepsView ==
  ASSUME TypeOK, LRUClearView, Intact' => Intact, UNCHANGED lru, Noticed,
         pool' = pool \/ mutex = "free"
  PROVE  LRUClearView'
<1>1. /\ lpc' = lpc /\ query' = query /\ hReg' = hReg /\ tReg' = tReg
      /\ clearCnt' = clearCnt /\ i' = i
  BY DEF lru
<1>2. CASE pool' = pool
  <2>1. InUse' = InUse
    BY <1>1, <1>2 DEF InUse
  <2>2. lpc # "idle" /\ calm' => calm
    BY <1>1 DEF Noticed
  <2>3. lpc = "idle" => hReg = Unread /\ tReg = Unread
    BY DEF LRUClearView, CountPC
  <2> QED
    BY <1>1, <1>2, <2>1, <2>2, <2>3 DEF LRUClearView
<1>3. CASE pool' # pool
  <2>1. calm' => lpc = "idle"
    BY <1>1, <1>3 DEF Noticed
  <2> QED
    BY <1>1, <2>1 DEF LRUClearView, CountPC
<1> QED
  BY <1>2, <1>3

\* Every step preserves the main thread's view.
LEMMA NextLRUClearView ==
  TypeOK /\ Accounting /\ LRUClearView /\ [Next]_vars => LRUClearView'
<1> SUFFICES ASSUME TypeOK, Accounting, LRUClearView, [Next]_vars PROVE LRUClearView'
  OBVIOUS
<1>1. Intact' => Intact
  BY DamageStays
<1>2. CASE UNCHANGED vars
  BY <1>2 DEF vars, process, shared, lru, LRUClearView, InUse, Intact
<1>3. CASE Next
  <2>1. Noticed
    BY <1>3 DEF Next
  <2>2. calm' => lpc' = "idle" \/ (calm /\ (pool' = pool \/ mutex = "lru"))
    BY <2>1 DEF Noticed
  <2>3. CASE Lookup \/ CaptureStep \/ Dead
    <3>1. UNCHANGED lru /\ (pool' = pool \/ mutex = "free")
      BY <2>3 DEF Lookup, FindFaulted, Find, FindMissed, CaptureStep, ReadNode,
                  ReadNodeStale, TakeNode, Fill, Insert, AppendData, Release, ReleaseStale, Dead, process, shared
    <3> QED BY <1>1, <2>1, <3>1, CaptureKeepsView
  <2>4. CASE StartLRUClear
    BY <1>1, <2>2, <2>4 DEF StartLRUClear, shared, LRUClearView, InUse, CountPC
  <2>5. CASE LoadHead
    <3>1. /\ UNCHANGED <<pool, lpc, query, tReg, clearCnt, i>> /\ lpc \in CountPC
          /\ hReg' = pool.head /\ InUse' = InUse
      BY <2>5 DEF LoadHead, shared, InUse
    <3> QED BY <1>1, <2>2, <3>1 DEF LRUClearView, CountPC
  <2>6. CASE LoadTail
    <3>1. /\ UNCHANGED <<pool, lpc, query, hReg, clearCnt, i>> /\ lpc \in CountPC
          /\ tReg' = pool.tail /\ InUse' = InUse
      BY <2>6 DEF LoadTail, shared, InUse
    <3> QED BY <1>1, <2>2, <3>1 DEF LRUClearView, CountPC
  <2>7. CASE Evaluate
    <3>1. /\ pool' = pool /\ i' = i /\ InUse' = InUse /\ lpc \in CountPC
          /\ hReg' = Unread /\ tReg' = Unread
      BY <2>7 DEF Evaluate, shared, InUse
    <3>2. i = 0
      BY <3>1 DEF LRUClearView, CountPC
    <3>3. lpc' # "evict" /\ (lpc' = "lock" => query' = "clear")
      BY <2>7, <3>1 DEF Evaluate, CountReturns, CountPC
    <3>4. ASSUME Intact', calm', lpc' # "idle"
          PROVE  /\ lpc' \in {"isWrapped", "wrapped", "straight"} => pool.head # pool.tail
                 /\ lpc' = "wrapped" => pool.head > pool.tail
                 /\ lpc' = "straight" => pool.head <= pool.tail
                 /\ query' = "clear" => InUse >= (MaxNodes * 4) \div 5
                 /\ lpc' = "lock" => clearCnt' = InUse \div 2
      <4>1. /\ Intact /\ calm
            /\ query = "clear" => InUse >= (MaxNodes * 4) \div 5
        BY <1>1, <2>2, <3>1, <3>4 DEF LRUClearView, CountPC
      <4>2. CASE CountReturns(Count(pool))
        <5>1. InUse = Used(Count(pool)) /\ InUse \in Nat /\ MaxNodes \in Nat
          BY <3>2, PoolCounters DEF InUse
        <5>2. (MaxNodes * 4) \div 5 \in Nat
          BY <5>1
        <5> QED BY <3>4, <4>1, <4>2, <5>1, <5>2 DEF CountReturns
      <4>3. CASE /\ lpc' = "isWrapped" /\ pool.head # pool.tail /\ UNCHANGED <<query, clearCnt>>
        BY <4>1, <4>3
      <4>4. CASE /\ lpc' = IF pool.head > pool.tail THEN "wrapped" ELSE "straight"
                 /\ pool.head # pool.tail /\ UNCHANGED <<query, clearCnt>>
        BY <4>1, <4>4, PoolCounters
      <4> QED BY <2>7, <4>1, <4>2, <4>3, <4>4, CountAsLoaded
    <3> QED BY <3>1, <3>2, <3>3, <3>4 DEF LRUClearView, CountPC
  <2>8. CASE Lock
    <3>1. /\ lpc = "lock" /\ lpc' = "evict" /\ i' = 0 /\ UNCHANGED <<pool, query, hReg, tReg, clearCnt>>
      BY <2>8 DEF Lock, count
    <3>2. i = 0
      BY <3>1 DEF LRUClearView
    <3>3. InUse' = InUse
      BY <3>1, <3>2 DEF InUse
    <3>4. clearCnt \in Nat
      BY DEF TypeOK
    <3> QED BY <1>1, <2>2, <3>1, <3>3, <3>4 DEF LRUClearView, CountPC
  <2>9. CASE EvictOldest
    <3>1. /\ lpc = "evict" /\ i <= clearCnt /\ i' = i + 1
          /\ UNCHANGED <<lpc, query, hReg, tReg, clearCnt>>
          /\ pool' = AfterFree(pool, NodeOf(Head(lrukey)))
      BY <2>9 DEF EvictOldest, MoreToEvict, count
    <3>2. clearCnt \in Nat /\ i \in Nat
      BY DEF TypeOK
    <3>3. hReg = Unread /\ tReg = Unread
      BY <3>1 DEF LRUClearView, CountPC
    <3>4. ASSUME Intact PROVE InUse' = InUse
      <4>1. Count(pool') = Count(pool) + 1
        BY <2>9, <3>1, <3>4, EvictAccepted, FreeNodeCount DEF TypeOK
      <4>2. Count(pool) \in Nat /\ MaxNodes \in Nat /\ i' = i + 1
        BY <3>1, PoolCounters
      <4> QED BY <3>2, <4>1, <4>2 DEF InUse, UsedNodesCount
    <3> QED BY <1>1, <2>2, <3>1, <3>2, <3>3, <3>4 DEF LRUClearView, CountPC
  <2>10. CASE Unlock
    BY <2>10 DEF Unlock, LRUClearView, CountPC
  <2> QED
    BY <1>3, <2>3, <2>4, <2>5, <2>6, <2>7, <2>8, <2>9, <2>10 DEF Next, Running, LRUStep
<1> QED
  BY <1>2, <1>3

\* Until undefined behaviour strikes, an LRUClear during which the capture thread
\* leaves the pool alone clears more than half of the nodes in use, if these are
\* 80% or more, or every flow: its four unlocked expressions, its unsigned
\* arithmetic and its loop's test agree.
THEOREM LRUClearClearsHalf == Spec => []ClearsHalf
<1>1. Init => LRUClearView
  BY DEF Init, LRUClearView, CountPC
<1>2. TypeOK /\ LRUClearView => ClearsHalf
  <2> SUFFICES ASSUME TypeOK, LRUClearView, Intact, calm, lpc = "evict"
               PROVE  /\ InUse >= (MaxNodes * 4) \div 5
                      /\ i <= InUse \div 2 + 1
                      /\ ~MoreToEvict => \/ 2 * UsedNodesCount(pool) < InUse
                                         \/ lrukey = <<>>
    BY DEF ClearsHalf, InUse
  <2>1. /\ InUse >= (MaxNodes * 4) \div 5
        /\ clearCnt = InUse \div 2 /\ i <= clearCnt + 1
    BY DEF LRUClearView
  <2>2. /\ UsedNodesCount(pool) \in Nat /\ i \in Nat /\ clearCnt \in Nat
        /\ InUse = UsedNodesCount(pool) + i
    BY PoolCounters DEF TypeOK, InUse
  <2>3. CASE i > clearCnt
    BY <2>1, <2>2, <2>3
  <2>4. CASE ~(i > clearCnt)
    BY <2>1, <2>2, <2>4 DEF MoreToEvict
  <2> QED BY <2>3, <2>4
<1> QED
  BY <1>1, <1>2, InvariantsHold, NextLRUClearView, PTL DEF Spec
=============================================================================
