----------------------------- MODULE LRUHistory -----------------------------
(***************************************************************************)
(* PacketSniffer with two history variables, to state what the comments    *)
(* and the README say of LRUClear: when it clears, and which flows.        *)
(***************************************************************************)
EXTENDS PacketSniffer, SequencesExt

VARIABLES
  peak,    \* the most nodes in use since the last LRUClear began
  recency  \* the open flows, the one whose last frame is oldest first

hvars == <<vars, peak, recency>>

HInit == Init /\ peak = 0 /\ recency = <<>>

\* A frame of flow k arrives, or the flow is opened by it.
Touch(k) == recency' = Append(Remove(recency, k), k)

HNext ==
  /\ Next
  /\ peak' = LET now == UsedNodesCount(pool')
             IN  IF StartLRUClear \/ now > peak THEN now ELSE peak
  /\ \/ (\E f \in Frames : Find(f) /\ f.key \in Open /\ Touch(f.key))
     \/ Insert /\ Touch(frame.key)
     \/ (Release \/ ReleaseStale) /\ recency' = Remove(recency, frame.key)
     \/ EvictOldest /\ recency' = Remove(recency, Head(lrukey))
     \/ /\ \A f \in Frames : f.key \in Open => ~Find(f)
        /\ ~(Insert \/ Release \/ ReleaseStale \/ EvictOldest)
        /\ UNCHANGED recency

HSpec == HInit /\ [][HNext]_hvars

\* LRUClear evicts only when the pool was in use to 80% at some moment since
\* it began ("clear only when the use reaches 80%", packet_sniffer.cpp:460).
ClearsFrom80Percent ==
  mutex = "lru" /\ i > 0 => peak >= (MaxNodes * 4) \div 5

\* The flow LRUClear evicts is one that no other open flow has been silent for
\* longer than (the README: LRU removes the aged flows).
EvictsLeastRecent == [][Intact /\ EvictOldest => Head(lrukey) = Head(recency)]_hvars

\* FreeNode refuses a node that is already free (FixedContainer.hpp:94, "queue
\* full, which means a node was enqueued twice").
DoubleFreeRefused ==
  [][ReleaseStale /\ cache \in FreeNodes(pool) => pool' = pool]_hvars
=============================================================================
