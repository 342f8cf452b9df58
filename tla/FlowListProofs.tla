--------------------------- MODULE FlowListProofs ---------------------------
(***************************************************************************)
(* Facts about the list lrukey, as module FlowList writes it.              *)
(***************************************************************************)
EXTENDS FlowList, TLAPS, FiniteSetTheorems

\* The ranks of the positions kept by ListRemove are 1, 2, ..., each once.
LEMMA RankIsABijection ==
  ASSUME NEW T, NEW s \in Seq(T), NEW k
  PROVE  /\ IsFiniteSet(Kept(s, k)) /\ Cardinality(Kept(s, k)) \in Nat
         /\ \A i \in Kept(s, k) : Rank(s, k, i) \in 1 .. Cardinality(Kept(s, k))
         /\ \A i, j \in Kept(s, k) : Rank(s, k, i) = Rank(s, k, j) => i = j
         /\ \A n \in 1 .. Cardinality(Kept(s, k)) : \E i \in Kept(s, k) : Rank(s, k, i) = n
<1> DEFINE K    == Kept(s, k)
           U(i) == {j \in K : j <= i}
           f    == [i \in K |-> Rank(s, k, i)]
<1>1. K \subseteq 1 .. Len(s) /\ Len(s) \in Nat
  BY DEF Kept
<1>2. IsFiniteSet(K) /\ Cardinality(K) \in Nat
  <2>1. IsFiniteSet(1 .. Len(s))
    BY <1>1, FS_Interval
  <2>2. IsFiniteSet(K)
    BY <1>1, <2>1, FS_Subset
  <2> QED
    BY <2>2, FS_CardinalityType
<1>3. \A i \in K : IsFiniteSet(U(i)) /\ Cardinality(U(i)) \in Nat /\ Cardinality(U(i)) <= Cardinality(K)
  <2> TAKE i \in K
  <2>1. U(i) \in SUBSET K
    OBVIOUS
  <2> QED
    BY <1>2, <2>1, FS_Subset, FS_CardinalityType
<1>4. \A i \in K : Rank(s, k, i) = Cardinality(U(i))
  BY DEF Rank
<1>5. \A i \in K : Rank(s, k, i) \in 1 .. Cardinality(K)
  <2> TAKE i \in K
  <2>1. U(i) # {}
    BY <1>1
  <2>2. IsFiniteSet(U(i)) /\ Cardinality(U(i)) \in Nat /\ Cardinality(U(i)) <= Cardinality(K)
    BY <1>3
  <2>3. Rank(s, k, i) = Cardinality(U(i))
    BY <1>4
  <2> HIDE DEF U
  <2>4. Cardinality(U(i)) # 0
    BY <2>1, <2>2, FS_EmptySet
  <2> QED
    BY <1>2, <2>2, <2>3, <2>4
<1>6. \A i, j \in K : i < j => Rank(s, k, i) # Rank(s, k, j)
  <2> SUFFICES ASSUME NEW i \in K, NEW j \in K, i < j, Cardinality(U(i)) = Cardinality(U(j))
               PROVE  FALSE
    BY <1>4
  <2>1. U(i) \in SUBSET U(j) /\ j \in U(j) /\ j \notin U(i)
    BY <1>1
  <2> HIDE DEF U
  <2>2. U(j) = U(i)
    BY <1>3, <2>1, FS_Subset
  <2> QED
    BY <2>1, <2>2
<1>7. \A i, j \in K : Rank(s, k, i) = Rank(s, k, j) => i = j
  BY <1>1, <1>6
<1>8. f \in Injection(K, 1 .. Cardinality(K))
  BY <1>5, <1>7 DEF Injection, IsInjective
<1>9. IsFiniteSet(1 .. Cardinality(K)) /\ Cardinality(1 .. Cardinality(K)) = Cardinality(K)
  BY <1>2, FS_Interval
<1>10. f \in Surjection(K, 1 .. Cardinality(K))
  BY <1>8, <1>9, FS_Injection
<1>11. \A n \in 1 .. Cardinality(K) : \E i \in K : Rank(s, k, i) = n
  BY <1>10 DEF Surjection
<1> QED
  BY <1>2, <1>5, <1>7, <1>11

\* remove(k) leaves a list of the other elements, without new duplicates.
LEMMA ListRemoveElements ==
  ASSUME NEW T, NEW s \in Seq(T), NEW k
  PROVE  /\ ListRemove(s, k) \in Seq(T)
         /\ ListElements(ListRemove(s, k)) = ListElements(s) \ {k}
         /\ NoDuplicates(s) => NoDuplicates(ListRemove(s, k))
<1> DEFINE K    == Kept(s, k)
           c    == Cardinality(K)
           at(n) == CHOOSE i \in K : Rank(s, k, i) = n
           r    == ListRemove(s, k)
<1>1. /\ c \in Nat
      /\ \A i \in K : Rank(s, k, i) \in 1 .. c
      /\ \A i, j \in K : Rank(s, k, i) = Rank(s, k, j) => i = j
      /\ \A n \in 1 .. c : \E i \in K : Rank(s, k, i) = n
  BY RankIsABijection
<1>2. \A n \in 1 .. c : at(n) \in K /\ Rank(s, k, at(n)) = n
  BY <1>1
<1>3. \A i \in K : at(Rank(s, k, i)) = i
  BY <1>1, <1>2
<1>4. r = [n \in 1 .. c |-> s[at(n)]]
  BY DEF ListRemove
<1>5. K = {i \in DOMAIN s : s[i] # k}
  BY DEF Kept
<1>6. \A i \in DOMAIN s : s[i] \in T
  OBVIOUS
<1> HIDE DEF K, c, at, r
<1>7. \A n \in 1 .. c : s[at(n)] \in T
  BY <1>2, <1>5, <1>6
<1>8. r \in Seq(T)
  BY <1>1, <1>4, <1>7
<1>9. ListElements(r) = {s[at(n)] : n \in 1 .. c}
  BY <1>4 DEF ListElements
<1>10. {s[at(n)] : n \in 1 .. c} = {s[i] : i \in K}
  BY <1>1, <1>2, <1>3
<1>11. {s[i] : i \in K} = ListElements(s) \ {k}
  BY <1>5 DEF ListElements
<1>12. ASSUME NoDuplicates(s) PROVE NoDuplicates(r)
  BY <1>2, <1>4, <1>5, <1>12 DEF NoDuplicates
<1> QED
  BY <1>8, <1>9, <1>10, <1>11, <1>12 DEF r

\* emplace_back adds its argument.
LEMMA AppendElements ==
  ASSUME NEW T, NEW s \in Seq(T), NEW x \in T
  PROVE  /\ ListElements(Append(s, x)) = ListElements(s) \union {x}
         /\ NoDuplicates(s) /\ x \notin ListElements(s) => NoDuplicates(Append(s, x))
<1>1. /\ DOMAIN s = 1 .. Len(s) /\ DOMAIN Append(s, x) = 1 .. Len(s) + 1 /\ Len(s) \in Nat
      /\ \A i \in 1 .. Len(s) : Append(s, x)[i] = s[i]
      /\ Append(s, x)[Len(s) + 1] = x
  OBVIOUS
<1>2. ListElements(Append(s, x)) = ListElements(s) \union {x}
  <2>1. \A y : y \in ListElements(Append(s, x)) <=> y \in ListElements(s) \/ y = x
    BY <1>1 DEF ListElements
  <2> QED
    BY <2>1
<1>3. ASSUME NoDuplicates(s), x \notin ListElements(s)
      PROVE  NoDuplicates(Append(s, x))
  BY <1>1, <1>3 DEF NoDuplicates, ListElements
<1> QED
  BY <1>2, <1>3

\* erase(begin()) takes at most the first element out, exactly it when the
\* list has no duplicates.
LEMMA TailElements ==
  ASSUME NEW T, NEW s \in Seq(T), s # <<>>
  PROVE  /\ Head(s) \in ListElements(s)
         /\ ListElements(s) \ {Head(s)} \subseteq ListElements(Tail(s))
         /\ NoDuplicates(s) => /\ NoDuplicates(Tail(s))
                               /\ ListElements(Tail(s)) = ListElements(s) \ {Head(s)}
<1>1. /\ DOMAIN s = 1 .. Len(s) /\ Len(s) \in Nat \ {0} /\ Head(s) = s[1]
      /\ DOMAIN Tail(s) = 1 .. Len(s) - 1
      /\ \A i \in 1 .. Len(s) - 1 : Tail(s)[i] = s[i + 1]
  OBVIOUS
<1>2. Head(s) \in ListElements(s)
  BY <1>1 DEF ListElements
<1>3. ASSUME NEW y \in ListElements(s) \ {Head(s)}
      PROVE  y \in ListElements(Tail(s))
  <2>1. PICK i \in 1 .. Len(s) : s[i] = y
    BY <1>1 DEF ListElements
  <2>2. i # 1
    BY <1>1, <2>1
  <2>3. i - 1 \in 1 .. Len(s) - 1 /\ Tail(s)[i - 1] = y
    BY <1>1, <2>1, <2>2
  <2> QED
    BY <1>1, <2>3 DEF ListElements
<1>4. ASSUME NoDuplicates(s)
      PROVE  NoDuplicates(Tail(s)) /\ Head(s) \notin ListElements(Tail(s))
  BY <1>1, <1>4 DEF NoDuplicates, ListElements
<1>5. ListElements(Tail(s)) \subseteq ListElements(s)
  BY <1>1 DEF ListElements
<1> QED
  BY <1>2, <1>3, <1>4, <1>5
=============================================================================
