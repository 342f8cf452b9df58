---------------------------- MODULE MCLRUHistory ----------------------------
(* Small instances of LRUHistory for TLC. *)
EXTENDS LRUHistory

CONSTANTS k1, k2

\* A frame that opens a flow of 1 byte, and one that brings 1 byte.
MCFrames ==
  UNION {{[key |-> k, opens |-> TRUE,  contentLen |-> 1, body |-> 0, length |-> 2],
          [key |-> k, opens |-> FALSE, contentLen |-> 0, body |-> 0, length |-> 1]} : k \in Keys}
=============================================================================
