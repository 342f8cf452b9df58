--------------------------- MODULE MCQueueThreads ---------------------------
(* Small instances of QueueThreads for TLC. *)
EXTENDS QueueThreads, TLC

CONSTANTS v1, v2

MCSymmetry == Permutations(Values)
=============================================================================
