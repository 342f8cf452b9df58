----------------------------- MODULE FlowCache -----------------------------
(***************************************************************************)
(* What a PacketSniffer promises of its flow table: the open flows are a   *)
(* cache of limited size from which the oldest is evicted.  No flow is in  *)
(* it twice, and a flow that completes leaves it wherever it stands.       *)
(***************************************************************************)
EXTENDS FlowList

CONSTANTS Keys, Capacity

VARIABLE flows  \* the keys of the open flows, in the order in which they opened

Init == flows = <<>>

OpenFlow(k) ==
  /\ k \notin ListElements(flows) /\ Len(flows) < Capacity
  /\ flows' = Append(flows, k)

CompleteFlow(k) == k \in ListElements(flows) /\ flows' = ListRemove(flows, k)

EvictOldest == flows # <<>> /\ flows' = Tail(flows)

Next == EvictOldest \/ \E k \in Keys : OpenFlow(k) \/ CompleteFlow(k)

Spec == Init /\ [][Next]_flows
=============================================================================
