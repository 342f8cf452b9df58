-------------------------------- MODULE Fifo --------------------------------
(***************************************************************************)
(* What include/Queue.h promises of a queue, without the ring: a bounded   *)
(* sequence of elements.  `put` is what the last EnQueue returned, `got`   *)
(* what the last DeQueue delivered, None when it returned false.           *)
(***************************************************************************)
EXTENDS Naturals, Sequences

CONSTANTS Values, None

VARIABLES items, capacity, put, got

fvars == <<items, capacity, put, got>>

Init == items = <<>> /\ capacity \in Nat /\ put = TRUE /\ got = None

Put(x) ==
  /\ Len(items) < capacity
  /\ items' = Append(items, x) /\ put' = TRUE
  /\ UNCHANGED <<capacity, got>>

\* EnQueue fails only when the queue is full, DeQueue only when it is empty.
PutRefused ==
  /\ Len(items) = capacity
  /\ put' = FALSE
  /\ UNCHANGED <<items, capacity, got>>

Take ==
  /\ items # <<>>
  /\ got' = Head(items) /\ items' = Tail(items)
  /\ UNCHANGED <<capacity, put>>

TakeRefused ==
  /\ items = <<>>
  /\ got' = None
  /\ UNCHANGED <<items, capacity, put>>

Clear == items' = <<>> /\ UNCHANGED <<capacity, put, got>>

\* A new size keeps the elements.
Resize ==
  /\ capacity' \in Nat /\ Len(items) <= capacity'
  /\ UNCHANGED <<items, put, got>>

Next == (\E x \in Values : Put(x)) \/ PutRefused \/ Take \/ TakeRefused \/ Clear \/ Resize

Spec == Init /\ [][Next]_fvars
=============================================================================
