--------------------------- MODULE PacketSniffer ---------------------------
(***************************************************************************)
(* One PacketSniffer (src/src/packet_sniffer.cpp) and the two threads that *)
(* run inside it: the capture thread, which calls HandleFrame for every    *)
(* frame, and the main thread, which calls LRUClear once a second.  They   *)
(* share the pool of nodes, the flow table and the list lrukey, and only   *)
(* part of what they do to them is under the mutex:                        *)
(*   - HandleFrame looks the flow up, and reads the node through the       *)
(*     iterator it found, without the mutex; it takes the mutex for        *)
(*     GetNode, for the insertion of a new flow, and for the release of a  *)
(*     finished one;                                                       *)
(*   - LRUClear reads the pool's two counters, one volatile load at a      *)
(*     time, without the mutex; it holds the mutex over its whole loop.    *)
(*                                                                         *)
(* A step is what one thread does between two points where the other can   *)
(* tell the difference.  The capture thread's critical sections are one    *)
(* step each: the only state of theirs the main thread reads without the   *)
(* mutex is the pool's head or tail, and each section writes one of them   *)
(* once.  The main thread's loop is one step per evicted flow, because the *)
(* capture thread's lookup does not wait for the mutex.                    *)
(*                                                                         *)
(* Undefined behaviour is a choice over what the build can do.  A lookup   *)
(* that runs while LRUClear erases may find the flow, miss it or fault;    *)
(* reading through an iterator that LRUClear has erased may fault or give  *)
(* any node, and erasing it may fault or do nothing.  A fault ends the     *)
(* process (aborted).                                                      *)
(*                                                                         *)
(* Frames reach this module after the checks that read nothing but the     *)
(* frame (protocol, port, length, GET, ParseHttp).  The bytes of a flow    *)
(* are counted, not kept: whether RecvFinished finds the message in them   *)
(* is a choice.  What goes to Kafka changes nothing here.                  *)
(***************************************************************************)
EXTENDS FixedContainer, FlowList

CONSTANTS
  Keys,         \* flow keys: source port and the two addresses
  Frames,       \* the frames the capture thread may be handed
  NoFrame,      \* the value of `frame` between two frames
  U16,          \* the number of values of a uint16_t: 2^16
  U32,          \* the number of values of an unsigned int: 2^32
  MAX_BUF_LEN,  \* bytes of data[] in a node
  MaxDamage,    \* bound: undefined behaviour damages the state so often at most
  Unread        \* a register of Count() that is not loaded yet

\* What HandleFrame takes from a frame: its flow key; whether ParseHttp found
\* a Content-Type that opens a flow; the Content-Length; how many bytes of
\* the body RecvStart takes from this frame; the TCP payload's length.
Frame == [key : Keys, opens : BOOLEAN, contentLen : Int, body : Nat, length : Nat]

ASSUME SnifferAssumption ==
  /\ Frames \subseteq Frame
  /\ NoFrame \notin Frames
  /\ U16 \in Nat \ {0}
  /\ U32 \in Nat /\ U32 > 4 * MaxNodes
  /\ MAX_BUF_LEN \in Nat /\ MaxDamage \in Nat
  /\ Unread \notin Nat

VARIABLES
  pool,       \* m_Mempool
  node,       \* the pool's nodes: cLen and usedCnt of each CReqCache
  flowtable,  \* from the keys of the open flows to their nodes
  lrukey,     \* the keys of the open flows, oldest first
  mutex,      \* "free", or "lru" while LRUClear is in its loop
  aborted,    \* the process has faulted
  damage,     \* history: how often undefined behaviour has damaged the shared state
  cpc,        \* the capture thread: where in HandleFrame it is,
  frame,      \*   the frame it handles (in "found", "append" and "release" its
              \*   iterator is that of the frame's key),
  cache,      \*   and the node it read or was given
  lpc,        \* the main thread: where in LRUClear it is,
  query,      \*   which of the two uses of UsedNodesCount it evaluates,
  hReg, tReg, \*   what Count() has loaded of m_Head and m_Tail,
  clearCnt,   \*   clearCnt,
  i,          \*   and the loop's counter
  calm        \* history: the capture thread has not changed the pool since
              \* LRUClear began

shared == <<pool, flowtable, lrukey, mutex>>
capture == <<cpc, frame, cache>>
count == <<query, hReg, tReg>>
lru == <<lpc, query, hReg, tReg, clearCnt, i>>
process == <<shared, node, aborted, damage, capture, lru>>
vars == <<process, calm>>

Open == DOMAIN flowtable

\* erase(k), insert({k, n}) and operator[] of the unordered_map: erase of an
\* absent key and insert of a present one do nothing, operator[] of an absent
\* key makes a null entry.
Without(k)   == [x \in Open \ {k} |-> flowtable[x]]
With(k, n)   == [x \in Open \union {k} |-> IF x \in Open THEN flowtable[x] ELSE n]
NodeOf(k)    == IF k \in Open THEN flowtable[k] ELSE NoNode

CapturePC == {"idle", "found", "getnode", "fill", "insert", "append", "release"}
CountPC   == {"isEmpty", "isWrapped", "wrapped", "straight"}
LRUPC     == {"idle", "lock", "evict"} \union CountPC

TypeOK ==
  /\ pool \in Pools
  /\ node \in [Nodes -> [cLen : 0 .. U16 - 1, usedCnt : 0 .. U16 - 1]]
  /\ Open \subseteq Keys /\ flowtable \in [Open -> Nodes]
  /\ lrukey \in Seq(Keys)
  /\ mutex = IF lpc = "evict" THEN "lru" ELSE "free"
  /\ aborted \in BOOLEAN /\ damage \in 0 .. MaxDamage
  /\ cpc \in CapturePC
  /\ frame \in Frames \union {NoFrame} /\ (cpc # "idle" => frame \in Frames)
  /\ cache \in Nodes \union {NoNode}
  /\ cpc \in {"fill", "insert", "append", "release"} => cache \in Nodes
  /\ lpc \in LRUPC
  /\ query \in {"threshold", "clear"}
  /\ hReg \in Nat \union {Unread} /\ tReg \in Nat \union {Unread}
  /\ clearCnt \in Nat /\ i \in Nat
  /\ calm \in BOOLEAN

Init ==
  /\ pool = NewPool
  /\ node = [n \in Nodes |-> [cLen |-> 0, usedCnt |-> 0]]
  /\ flowtable = [k \in {} |-> NoNode]
  /\ lrukey = <<>>
  /\ mutex = "free"
  /\ aborted = FALSE /\ damage = 0
  /\ cpc = "idle" /\ frame = NoFrame /\ cache = NoNode
  /\ lpc = "idle" /\ query = "threshold"
  /\ hReg = Unread /\ tReg = Unread
  /\ clearCnt = 0 /\ i = 0
  /\ calm = TRUE

-----------------------------------------------------------------------------
(* The capture thread. *)

EndFrame == cpc' = "idle" /\ frame' = NoFrame /\ cache' = NoNode

\* flowtable.find(key) == end(): a frame that opens no flow, or announces a
\* body larger than a node, is done with; any other gets a node.
NotFound(f) ==
  /\ cache' = NoNode
  /\ IF f.opens /\ f.contentLen < MAX_BUF_LEN
     THEN cpc' = "getnode" /\ frame' = f
     ELSE cpc' = "idle" /\ frame' = NoFrame

\* The lookup, with no mutex: it leaves an iterator.
Find(f) ==
  /\ cpc = "idle"
  /\ IF f.key \in Open
     THEN cpc' = "found" /\ frame' = f /\ UNCHANGED cache
     ELSE NotFound(f)
  /\ UNCHANGED <<shared, node, aborted, damage, lru>>

\* The lookup races with LRUClear's erasures and walks off the bucket: the
\* flow is in the table and goes unseen.  A frame that opens a flow now gets
\* a second node for it.
FindMissed(f) ==
  /\ cpc = "idle" /\ mutex = "lru"
  /\ f.key \in Open
  /\ NotFound(f)
  /\ damage' = IF cpc' = "getnode" THEN damage + 1 ELSE damage
  /\ damage' <= MaxDamage
  /\ UNCHANGED <<shared, node, aborted, lru>>

\* ... or it follows a freed pointer.
FindFaulted ==
  /\ cpc = "idle" /\ mutex = "lru" /\ Open # {}
  /\ aborted' = TRUE
  /\ UNCHANGED <<shared, node, damage, capture, lru>>

\* it->second, with no mutex.  The entry is still the one that was found: only
\* the capture thread inserts, so a key that is in the table was not erased
\* since.
ReadNode ==
  /\ cpc = "found" /\ frame.key \in Open
  /\ cpc' = "append" /\ cache' = flowtable[frame.key]
  /\ UNCHANGED <<shared, node, aborted, damage, frame, lru>>

\* The same when LRUClear has erased the entry since the lookup: the memory is
\* freed, and the read faults (or the use of what it gives), or gives one of the
\* pool's nodes, the flow's former one or any other.
ReadNodeStale ==
  /\ cpc = "found" /\ frame.key \notin Open
  /\ \/ aborted' = TRUE /\ UNCHANGED <<damage, capture>>
     \/ /\ damage < MaxDamage /\ damage' = damage + 1
        /\ cpc' = "append" /\ cache' \in Nodes
        /\ UNCHANGED <<aborted, frame>>
  /\ UNCHANGED <<shared, node, lru>>

\* m_Mempool.GetNode() under the mutex.  An empty pool drops the frame.
TakeNode ==
  /\ cpc = "getnode" /\ mutex = "free"
  /\ pool' = AfterGet(pool)
  /\ IF GetNode(pool) = NoNode
     THEN EndFrame
     ELSE cpc' = "fill" /\ cache' = GetNode(pool) /\ UNCHANGED frame
  /\ UNCHANGED <<node, flowtable, lrukey, mutex, aborted, damage, lru>>

\* The mutant keeps all the bits.
Kept16_Untruncated(n) == n

\* What cLen and usedCnt keep of a number: they are uint16_t.
Kept16(n) == n % U16

\* The new node takes the Content-Length and the body bytes of this frame.
Fill ==
  /\ cpc = "fill"
  /\ node' = [node EXCEPT ![cache] = [cLen    |-> Kept16(frame.contentLen),
                                      usedCnt |-> Kept16(frame.body)]]
  /\ cpc' = "insert"
  /\ UNCHANGED <<shared, aborted, damage, frame, cache, lru>>

\* The mutant forgets the list.
Insert_Unlisted ==
  /\ cpc = "insert" /\ mutex = "free"
  /\ flowtable' = With(frame.key, cache)
  /\ EndFrame
  /\ UNCHANGED <<pool, lrukey, node, mutex, aborted, damage, lru>>

\* This mutant puts the flow in front of the others in the list.
Insert_InFront ==
  /\ cpc = "insert" /\ mutex = "free"
  /\ flowtable' = With(frame.key, cache)
  /\ lrukey' = <<frame.key>> \o lrukey
  /\ EndFrame
  /\ UNCHANGED <<pool, node, mutex, aborted, damage, lru>>

\* The flow enters the table and the list, under the mutex.
Insert ==
  /\ cpc = "insert" /\ mutex = "free"
  /\ flowtable' = With(frame.key, cache)
  /\ lrukey' = Append(lrukey, frame.key)
  /\ EndFrame
  /\ UNCHANGED <<pool, node, mutex, aborted, damage, lru>>

\* The frame's bytes are added to the node that was read, whether or not the
\* flow is still in the table.  When the count then equals the
\* Content-Length, RecvFinished looks for the message; if it finds it, it
\* clears the node.  Otherwise the frame is done with.
SliceCnt ==
  IF node[cache].usedCnt + frame.length >= MAX_BUF_LEN
  THEN MAX_BUF_LEN - node[cache].usedCnt
  ELSE frame.length

AppendData ==
  /\ cpc = "append"
  /\ LET used     == Kept16(node[cache].usedCnt + SliceCnt)
         complete == node[cache].cLen = used
     IN  \E cleared \in IF complete THEN BOOLEAN ELSE {FALSE} :
           /\ node' = [node EXCEPT ![cache] =
                         IF cleared THEN [cLen |-> 0, usedCnt |-> 0]
                                    ELSE [@ EXCEPT !.usedCnt = used]]
           /\ IF complete THEN cpc' = "release" /\ UNCHANGED <<frame, cache>>
                          ELSE EndFrame
  /\ UNCHANGED <<shared, aborted, damage, lru>>

\* The mutants forget the list, or both containers.
Release_Listed ==
  /\ cpc = "release" /\ mutex = "free"
  /\ frame.key \in Open
  /\ pool' = AfterFree(pool, cache)
  /\ flowtable' = Without(frame.key)
  /\ EndFrame
  /\ UNCHANGED <<lrukey, node, mutex, aborted, damage, lru>>
Release_StillOpen ==
  /\ cpc = "release" /\ mutex = "free"
  /\ frame.key \in Open
  /\ pool' = AfterFree(pool, cache)
  /\ EndFrame
  /\ UNCHANGED <<flowtable, lrukey, node, mutex, aborted, damage, lru>>

\* The node goes back to the pool, and the flow leaves the table (by the
\* iterator of the lookup) and the list (by its key), under the mutex.
Release ==
  /\ cpc = "release" /\ mutex = "free"
  /\ frame.key \in Open
  /\ pool' = AfterFree(pool, cache)
  /\ flowtable' = Without(frame.key)
  /\ lrukey' = ListRemove(lrukey, frame.key)
  /\ EndFrame
  /\ UNCHANGED <<node, mutex, aborted, damage, lru>>

\* The same section when LRUClear evicted the flow after the lookup: the node
\* goes back to the pool a second time, and the iterator no longer points
\* into the table.
ReleaseStale ==
  /\ cpc = "release" /\ mutex = "free"
  /\ frame.key \notin Open
  /\ pool' = AfterFree(pool, cache)
  /\ \/ aborted' = TRUE /\ UNCHANGED <<lrukey, damage, capture>>
     \/ /\ damage < MaxDamage /\ damage' = damage + 1
        /\ lrukey' = ListRemove(lrukey, frame.key)
        /\ EndFrame
        /\ UNCHANGED aborted
  /\ UNCHANGED <<node, flowtable, mutex, lru>>

-----------------------------------------------------------------------------
(* The main thread. *)

\* main's loop enters LRUClear, which begins to evaluate UsedNodesCount().
StartLRUClear ==
  /\ lpc = "idle"
  /\ lpc' = "isEmpty" /\ query' = "threshold"
  /\ UNCHANGED <<shared, node, aborted, damage, capture, hReg, tReg, clearCnt, i>>

\* Each expression of Count() loads m_Head and m_Tail anew, in either order.
LoadHead ==
  /\ lpc \in CountPC /\ hReg = Unread
  /\ hReg' = pool.head
  /\ UNCHANGED <<shared, node, aborted, damage, capture, lpc, query, tReg, clearCnt, i>>

LoadTail ==
  /\ lpc \in CountPC /\ tReg = Unread
  /\ tReg' = pool.tail
  /\ UNCHANGED <<shared, node, aborted, damage, capture, lpc, query, hReg, clearCnt, i>>

\* The mutant takes the free nodes for the used ones.
Used_Free(cnt) == cnt

\* MAX_NODES minus what Count() returned, in unsigned arithmetic.
Used(cnt) == (MaxNodes - cnt) % U32

\* Count() returns cnt: to the 80% test, which may end LRUClear, or to the
\* computation of clearCnt.
CountReturns(cnt) ==
  \/ /\ query = "threshold"
     /\ IF Used(cnt) < (MaxNodes * 4) \div 5
        THEN lpc' = "idle" /\ UNCHANGED query
        ELSE lpc' = "isEmpty" /\ query' = "clear"
     /\ UNCHANGED clearCnt
  \/ /\ query = "clear"
     /\ clearCnt' = Used(cnt) \div 2
     /\ lpc' = "lock" /\ UNCHANGED query

Evaluate ==
  /\ lpc \in CountPC /\ hReg # Unread /\ tReg # Unread
  /\ \/ /\ lpc = "isEmpty"
        /\ IF hReg = tReg THEN CountReturns(0)
           ELSE lpc' = "isWrapped" /\ UNCHANGED <<query, clearCnt>>
     \/ /\ lpc = "isWrapped"
        /\ lpc' = IF hReg > tReg THEN "wrapped" ELSE "straight"
        /\ UNCHANGED <<query, clearCnt>>
     \/ /\ lpc = "wrapped"
        /\ CountReturns((PoolSlots - (hReg - tReg)) % U32)
     \/ /\ lpc = "straight"
        /\ CountReturns((tReg - hReg) % U32)
  /\ hReg' = Unread /\ tReg' = Unread
  /\ UNCHANGED <<shared, node, aborted, damage, capture, i>>

Lock ==
  /\ lpc = "lock" /\ mutex = "free"
  /\ mutex' = "lru" /\ lpc' = "evict" /\ i' = 0
  /\ UNCHANGED <<pool, flowtable, lrukey, node, aborted, damage, capture, count, clearCnt>>

\* The mutant does one turn less.
MoreToEvict_OneLess == lrukey # <<>> /\ i < clearCnt

\* i++ > clearCnt ends the loop, so it runs while i <= clearCnt.
MoreToEvict == lrukey # <<>> /\ i <= clearCnt

\* The mutants forget to give the node back, or to erase the flow from the
\* table.
EvictOldest_Leaked ==
  /\ lpc = "evict" /\ MoreToEvict
  /\ flowtable' = Without(Head(lrukey))
  /\ lrukey' = Tail(lrukey)
  /\ i' = i + 1
  /\ UNCHANGED <<pool, mutex, node, aborted, damage, capture, lpc, count, clearCnt>>
EvictOldest_StillOpen ==
  /\ lpc = "evict" /\ MoreToEvict
  /\ pool' = AfterFree(pool, NodeOf(Head(lrukey)))
  /\ lrukey' = Tail(lrukey)
  /\ i' = i + 1
  /\ UNCHANGED <<flowtable, mutex, node, aborted, damage, capture, lpc, count, clearCnt>>

\* One turn of the loop: the oldest flow's node goes back to the pool, and
\* the flow leaves the table and the list.
EvictOldest ==
  /\ lpc = "evict" /\ MoreToEvict
  /\ pool' = AfterFree(pool, NodeOf(Head(lrukey)))
  /\ flowtable' = Without(Head(lrukey))
  /\ lrukey' = Tail(lrukey)
  /\ i' = i + 1
  /\ UNCHANGED <<mutex, node, aborted, damage, capture, lpc, count, clearCnt>>

\* The mutant returns with the mutex locked.
Unlock_Forgotten ==
  /\ lpc = "evict" /\ ~MoreToEvict
  /\ lpc' = "idle"
  /\ query' = "threshold" /\ clearCnt' = 0 /\ i' = 0
  /\ UNCHANGED <<pool, flowtable, lrukey, mutex, node, aborted, damage, capture, hReg, tReg>>

\* The end of the loop, and of LRUClear.
Unlock ==
  /\ lpc = "evict" /\ ~MoreToEvict
  /\ mutex' = "free" /\ lpc' = "idle"
  /\ query' = "threshold" /\ clearCnt' = 0 /\ i' = 0
  /\ UNCHANGED <<pool, flowtable, lrukey, node, aborted, damage, capture, hReg, tReg>>

-----------------------------------------------------------------------------
CaptureStep ==
  \/ ReadNode \/ ReadNodeStale \/ AppendData \/ Release \/ ReleaseStale
  \/ TakeNode \/ Fill \/ Insert

LRUStep == LoadHead \/ LoadTail \/ Evaluate \/ Lock \/ EvictOldest \/ Unlock

Lookup == FindFaulted \/ \E f \in Frames : Find(f) \/ FindMissed(f)

Running == ~aborted /\ (Lookup \/ CaptureStep \/ StartLRUClear \/ LRUStep)

Dead == aborted /\ UNCHANGED process

\* The capture thread changes the pool only while LRUClear does not hold the
\* mutex, and LRUClear only while it does.
Noticed == calm' = (lpc' = "idle" \/ (calm /\ (pool' = pool \/ mutex = "lru")))

Next == (Running \/ Dead) /\ Noticed

\* The operating system keeps scheduling both threads, and main's loop calls
\* LRUClear again and again; nothing makes a frame arrive.  The capture thread
\* is not starved of the mutex, although LRUClear takes it again and again:
\* main sleeps a second between two calls (main.cpp:54), with the mutex free.
Fairness ==
  /\ SF_process(~aborted /\ CaptureStep)
  /\ WF_process(~aborted /\ StartLRUClear)
  /\ WF_process(~aborted /\ LRUStep)

Spec     == Init /\ [][Next]_vars
FairSpec == Spec /\ Fairness
-----------------------------------------------------------------------------
(* What the main thread and the capture thread rely on. *)

\* Undefined behaviour has neither damaged the shared state nor ended the
\* process.
Intact == damage = 0 /\ ~aborted

\* Where a node is: free, in the table, or with the capture thread between
\* GetNode and the insertion.
Reserved == IF cpc \in {"fill", "insert"} THEN {cache} ELSE {}
TableNodes == {flowtable[k] : k \in Open}

\* The capture thread works on the node it read through its iterator.
HoldsFlow == cpc \in {"append", "release"}

\* Every flow in the table can be reached by LRUClear, which finds flows in
\* lrukey only: a flow that is in the table and not in the list would keep
\* its node for ever.  Holds even after the lookup has raced with an
\* eviction (HandleFrame's and LRUClear's updates of flowtable and lrukey,
\* packet_sniffer.cpp:188-191, 225-229, 480-482).
EveryFlowEvictable == Open \subseteq ListElements(lrukey)

\* Until undefined behaviour has damaged the shared state, every node is in
\* exactly one place (the pool's queue, once; the table, under one key; or
\* reserved for the flow the capture thread is about to insert), and the
\* list names the table's flows, each once.  No interleaving of frames with
\* evictions leaks a node or gives it to two owners; the three ways to damage
\* are FindMissed (line 148), ReadNodeStale (196) and ReleaseStale (227).
NodesAccountedFor ==
  Intact =>
    /\ Distinct(pool)
    /\ \A k, m \in Open : flowtable[k] = flowtable[m] => k = m
    /\ FreeNodes(pool) \intersect TableNodes = {}
    /\ Reserved \intersect (FreeNodes(pool) \union TableNodes) = {}
    /\ Nodes = FreeNodes(pool) \union TableNodes \union Reserved
    /\ NoDuplicates(lrukey) /\ ListElements(lrukey) = Open

\* Beyond that, a damage costs the pool a node at most: the one that a missed
\* lookup takes for a flow that has one, and insert drops (packet_sniffer.cpp:148,
\* 190), or the one whose release a full queue refuses, because it holds another
\* twice (226; FixedContainer.hpp:94).  No sequence of evictions and releases in
\* the damaged state, with a key twice in the list or a node twice in the queue,
\* loses more.
Lost == Nodes \ (FreeNodes(pool) \union TableNodes \union Reserved)

LossIsBounded == ~aborted => Cardinality(Lost) <= damage

\* Until then, what the capture thread has concluded from its lookup stays true,
\* or harmless, until it acts on it: the key it found closed is not opened
\* behind its back, and the node it has read through the iterator of a flow it
\* found open is still the flow's own or, when LRUClear has evicted the flow since
\* the read, nobody's (packet_sniffer.cpp:148-230: the mutex may change hands
\* between the lookup, line 148, the read, 196, and the release, 225; an eviction
\* between the first two is ReadNodeStale, which is damage).
CaptureViewHolds ==
  Intact =>
    /\ cpc \in {"getnode", "fill", "insert"} => frame.key \notin Open
    /\ HoldsFlow => IF frame.key \in Open THEN cache = flowtable[frame.key]
                                         ELSE cache \in FreeNodes(pool)

\* Until then, the bytes of a frame never go into the node of another flow,
\* although LRUClear may evict the frame's own flow, and free the node, after
\* the read of it->second and before the bytes are copied
\* (packet_sniffer.cpp:196-206, without the mutex): the node cannot be another
\* flow's by then.  An eviction before the read does lead to such a write.
NoCrossFlowWrite ==
  Intact /\ cpc \in {"fill", "append"} =>
    \A k \in Open \ {frame.key} : flowtable[k] # cache

\* Until then, FreeNode accepts every node it is given: its only refusal, a
\* full queue (FixedContainer.hpp:94), does not happen.
FreesAccepted ==
  [][Intact' =>
       /\ Release     => FreeNodeOk(pool, cache)
       /\ EvictOldest => FreeNodeOk(pool, NodeOf(Head(lrukey)))]_vars

\* Until then, the flow table is a cache of MaxNodes flows from which the oldest
\* is evicted, as FlowCache has it: although the lookup, the taking of a node and
\* the insertion are apart (packet_sniffer.cpp:148-193), no flow is inserted
\* twice, and never more of them than there are nodes.
Cache == INSTANCE FlowCache WITH flows <- lrukey, Capacity <- MaxNodes
IsAFlowCache == Cache!Init /\ [][Intact' => Cache!Next]_lrukey

\* Until then, an LRUClear during which the capture thread neither took nor freed
\* a node evicts only when 80% of the nodes are in use, and at its end has freed
\* more than half of these, or evicted every flow, but never more than the one
\* flow too many that its loop's test allows (packet_sniffer.cpp:461-483: four
\* expressions read the pool's counters, and the loop counts with i++ > clearCnt).
ClearsHalf ==
  Intact /\ calm /\ lpc = "evict" =>
    LET left  == UsedNodesCount(pool)
        inUse == left + i
    IN  /\ inUse >= (MaxNodes * 4) \div 5
        /\ i <= inUse \div 2 + 1
        /\ ~MoreToEvict => 2 * left < inUse \/ lrukey = <<>>

\* HandleFrame returns: the mutex is released in time and no path of it
\* keeps the capture thread.
FrameEnds == cpc # "idle" ~> (cpc = "idle" \/ aborted)

\* LRUClear returns, however many flows its clearCnt asks for.
LRUClearEnds == lpc # "idle" ~> (lpc = "idle" \/ aborted)

\* An exhausted pool does not stay exhausted: the 80% test of LRUClear sees
\* it and evicts.
PoolRecovers ==
  FreeNodes(pool) = {} /\ Intact
    ~> (FreeNodes(pool) # {} \/ ~Intact)
=============================================================================
