------------------------------ MODULE FlowList ------------------------------
(***************************************************************************)
(* lrukey of include/packet_sniffer.h, a std::list of flow keys, as a      *)
(* sequence: emplace_back appends, erase(begin()) is Tail, and remove(k)   *)
(* erases every element equal to k.  ListRemove is written without         *)
(* recursion (each kept position moves to its rank among the kept ones) so *)
(* that its properties can be proved; on every sequence it equals          *)
(* SelectSeq with the test # k, which MCPacketSniffer evaluates.           *)
(***************************************************************************)
EXTENDS Integers, Sequences, FiniteSets

\* The elements of a list.
ListElements(s) == {s[i] : i \in DOMAIN s}

\* No element occurs twice.
NoDuplicates(s) == \A i, j \in DOMAIN s : s[i] = s[j] => i = j

Kept(s, k)    == {i \in DOMAIN s : s[i] # k}
Rank(s, k, i) == Cardinality({j \in Kept(s, k) : j <= i})

ListRemove(s, k) ==
  [n \in 1 .. Cardinality(Kept(s, k)) |->
     s[CHOOSE i \in Kept(s, k) : Rank(s, k, i) = n]]
=============================================================================
