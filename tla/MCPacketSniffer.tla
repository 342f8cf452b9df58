-------------------------- MODULE MCPacketSniffer --------------------------
(* Small instances of PacketSniffer for TLC. *)
EXTENDS PacketSniffer, TLC

CONSTANTS k1, k2, k3

\* A frame that opens a flow of 1 byte and brings none of it, one that opens
\* nothing and carries 1 byte, and one that announces a body larger than a
\* node.  The first, on a flow already open, overshoots its length.
MCFrames ==
  UNION {{[key |-> k, opens |-> TRUE,  contentLen |-> 1, body |-> 0, length |-> 2],
          [key |-> k, opens |-> FALSE, contentLen |-> 0, body |-> 0, length |-> 1],
          [key |-> k, opens |-> TRUE,  contentLen |-> 4, body |-> 0, length |-> 1]} : k \in Keys}

\* Without the third kind, and with one way to open a flow, for liveness.
LiveFrames == {f \in MCFrames : f.contentLen < MAX_BUF_LEN}

MCSymmetry == Permutations(Keys)

\* ListRemove is std::list::remove: on every list of up to 5 of these keys it
\* keeps, in order, the elements that differ from the key.
ASSUME ListRemoveIsRemove ==
  \A n \in 0 .. 5 : \A s \in [1 .. n -> Keys], k \in Keys :
    LET Differs(x) == x # k
    IN  ListRemove(s, k) = SelectSeq(s, Differs)
=============================================================================
