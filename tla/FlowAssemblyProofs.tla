------------------------- MODULE FlowAssemblyProofs -------------------------
(***************************************************************************)
(* The safety of FlowAssembly for any connections, sizes and numbers of    *)
(* arrivals.                                                               *)
(***************************************************************************)
EXTENDS FlowAssembly, WellFoundedInduction, SequenceTheorems, TLAPS

\* While a flow is open, the bytes it counts are its own.
OwnsWhatItCounts == isOpen => 0 .. cache.usedCnt - 1 \subseteq DOMAIN own

\* None of the frames in an open flow's node is in a message already.
OwnIsUnused ==
  duplicates = 0 /\ isOpen =>
    \A i \in DOMAIN own, j \in DOMAIN used : own[i] \notin used[j]

AssemblyInv ==
  /\ TypeOK /\ traffic \in Connections
  /\ OwnsWhatItCounts /\ OwnIsUnused /\ NoBodyTwice

-----------------------------------------------------------------------------
(* Greatest and least elements. *)

LEMMA MaxIsIn ==
  ASSUME NEW n \in Nat, NEW S \in SUBSET (0 .. n), S # {}
  PROVE  Max(S) \in S
  <1> DEFINE T == {k \in Nat : n - k \in S}
  <1>1. T \in SUBSET Nat /\ T # {}
    <2>1. PICK x \in S : TRUE
      OBVIOUS
    <2>2. n - x \in Nat /\ n - (n - x) = x
      OBVIOUS
    <2> QED
      BY <2>1, <2>2
  <1> HIDE DEF T
  <1>2. PICK k \in T : \A m \in T : k <= m
    <2> DEFINE R == OpToRel(<, Nat)
    <2>1. \A x, y \in Nat : <<x, y>> \in R <=> x < y
      BY DEF OpToRel
    <2>2. IsWellFoundedOn(R, Nat)
      BY NatLessThanWellFounded DEF OpToRel
    <2> HIDE DEF R
    <2>3. PICK k \in T : \A m \in T : <<m, k>> \notin R
      BY <1>1, <2>2, WFMin
    <2>4. ASSUME NEW m \in T PROVE k <= m
      <3>1. k \in Nat /\ m \in Nat
        BY <1>1
      <3>2. ~(m < k)
        BY <2>1, <2>3, <3>1, Zenon
      <3> QED
        BY <3>1, <3>2
    <2> QED
      BY <2>4
  <1>3. n - k \in S
    BY <1>2 DEF T
  <1>4. \A y \in S : n - k >= y
    <2> SUFFICES ASSUME NEW y \in S PROVE n - k >= y
      OBVIOUS
    <2>1. n - y \in T
      BY DEF T
    <2>2. k \in Nat /\ k <= n - y
      BY <1>2, <2>1 DEF T
    <2> QED
      BY <2>2
  <1> QED
    BY <1>3, <1>4 DEF Max

LEMMA MinOfTwo ==
  ASSUME NEW a \in Int, NEW b \in Int
  PROVE  /\ Min({a, b}) \in {a, b}
         /\ Min({a, b}) <= a /\ Min({a, b}) <= b
  <1>1. \E x \in {a, b} : \A y \in {a, b} : x =< y
    OBVIOUS
  <1> QED
    BY <1>1 DEF Min

LEMMA MinIs ==
  ASSUME NEW S \in SUBSET Nat, NEW x \in S, \A y \in S : x <= y
  PROVE  Min(S) = x
  <1>1. Min(S) \in S /\ \A y \in S : Min(S) <= y
    BY DEF Min
  <1>2. Min(S) <= x /\ x <= Min(S)
    BY <1>1
  <1>3. x \in Nat /\ Min(S) \in Nat
    BY <1>1, Zenon
  <1> QED
    BY <1>2, <1>3

-----------------------------------------------------------------------------
(* What the scans find. *)

LEMMA LastMarkerIsIn ==
  ASSUME NEW d, NEW len \in Nat, NEW marker
  PROVE  LastMarker(d, len, marker) \in {0} \union 0 .. len - 1
  <1> DEFINE found == MarkersIn(d, len, marker)
  <1>1. CASE found = {}
    BY <1>1 DEF LastMarker
  <1>2. CASE found # {}
    <2>1. found \in SUBSET (0 .. len)
      BY DEF MarkersIn
    <2>2. Max(found) \in found
      BY <1>2, <2>1, MaxIsIn
    <2> QED
      BY <1>2, <2>2 DEF LastMarker, MarkersIn
  <1> QED
    BY <1>1, <1>2

\* RecvFinished finds a message only within the bytes counted.
LEMMA SpanIsCounted ==
  ASSUME NEW d, NEW len \in Nat
  PROVE  LET span == MessageSpan(d, len)
         IN  /\ span.from \in Nat /\ span.upto \in 0 .. len
             /\ span.from <= span.upto
  <1> DEFINE start == LastMarker(d, len, HeadersEnd)
             end   == LastMarker(d, len, Delimiter)
             last  == LastMarker(d, len, CloseEnd)
             found == start + 4 < len /\ end > 0
             ordered == end >= start + 4
  <1>1. /\ start \in Nat /\ end \in Nat /\ last \in Nat
        /\ end <= len
    BY LastMarkerIsIn
  <1> HIDE DEF start, end, last
  <1>2. MessageSpan(d, len) =
          CASE found /\ ordered                    -> [from |-> start + 4, upto |-> end]
            [] found /\ ~ordered /\ last + 4 < len -> [from |-> last + 4, upto |-> len]
            [] OTHER                               -> NoSpan
    BY DEF MessageSpan, start, end, last
  <1>3. CASE found /\ ordered
    BY <1>1, <1>2, <1>3
  <1>4. CASE found /\ ~ordered /\ last + 4 < len
    BY <1>1, <1>2, <1>4
  <1>5. CASE ~(found /\ ordered) /\ ~(found /\ ~ordered /\ last + 4 < len)
    BY <1>2, <1>5 DEF NoSpan
  <1> QED
    BY <1>3, <1>4, <1>5

-----------------------------------------------------------------------------
(* What a frame brings. *)

LEMMA RequestType ==
  ASSUME traffic \in Connections, NEW n \in DOMAIN traffic
  PROVE  traffic[n] \in Request /\ WellFormed(traffic[n])
  <1>1. traffic \in Seq(Request)
    BY AssemblyAssumption
  <1> QED
    BY <1>1, AssemblyAssumption, ElementOfSeq, LenProperties

\* The frames of a request are where its ends say.
LEMMA FramesAreInTheText ==
  ASSUME traffic \in Connections, NEW n \in DOMAIN traffic,
         NEW k \in DOMAIN traffic[n].ends
  PROVE  LET text == traffic[n].text
             from == StartOf(traffic[n].ends, k)
             upto == traffic[n].ends[k]
             data == Data(<<n, k>>)
         IN  /\ from \in Nat /\ upto \in 0 .. Len(text) /\ from <= upto
             /\ upto = Len(text) <=> k = Len(traffic[n].ends)
             /\ data \in Seq(Byte) /\ Len(data) = upto - from
             /\ \A p \in 1 .. upto - from : data[p] = text[from + p]
  <1> DEFINE text == traffic[n].text
             ends == traffic[n].ends
             from == StartOf(ends, k)
             upto == ends[k]
             data == Data(<<n, k>>)
  <1>1. /\ text \in Seq(Byte) /\ ends \in Seq(Nat) /\ ends # <<>>
        /\ ends[Len(ends)] = Len(text)
        /\ \A i, j \in DOMAIN ends : i < j => ends[i] < ends[j]
    BY RequestType DEF Request, WellFormed, Last
  <1>2. /\ Len(text) \in Nat /\ Len(ends) \in Nat \ {0} /\ DOMAIN ends = 1 .. Len(ends)
        /\ \A i \in 1 .. Len(ends) : ends[i] \in Nat
        /\ \A i \in 1 .. Len(text) : text[i] \in Byte
    BY <1>1, LenProperties, EmptySeq, ElementOfSeq
  <1>3. data = SubSeq(text, from + 1, upto)
    BY DEF Data
  <1>4. k \in 1 .. Len(ends)
    BY <1>2
  <1> HIDE DEF text, ends, data
  <1>5. from \in Nat /\ from <= upto /\ upto \in Nat
    <2>1. CASE k = 1
      BY <1>2, <1>4, <2>1 DEF StartOf
    <2>2. CASE k # 1
      <3>1. k - 1 \in 1 .. Len(ends) /\ k - 1 < k /\ from = ends[k - 1]
        BY <1>2, <1>4, <2>2 DEF StartOf
      <3> QED
        BY <1>1, <1>2, <1>4, <3>1
    <2> QED
      BY <2>1, <2>2
  <1>6. upto <= Len(text) /\ (upto = Len(text) <=> k = Len(ends))
    <2>1. Len(ends) \in 1 .. Len(ends)
      BY <1>2
    <2>2. k < Len(ends) => upto < Len(text)
      BY <1>1, <1>2, <1>4, <2>1
    <2> QED
      BY <1>1, <1>2, <1>4, <1>5, <2>2
  <1> HIDE DEF from, upto
  <1>7. \A i \in from + 1 .. upto : text[i] \in Byte
    BY <1>2, <1>5, <1>6
  <1>8. from + 1 \in Int /\ upto \in Int
    BY <1>5
  <1>9. /\ data \in Seq(Byte)
        /\ Len(data) = IF from + 1 <= upto THEN upto - (from + 1) + 1 ELSE 0
        /\ \A p \in 1 .. upto - (from + 1) + 1 : data[p] = text[from + 1 + p - 1]
    BY <1>3, <1>7, <1>8, SubSeqProperties
  <1>10. Len(data) = upto - from /\ \A p \in 1 .. upto - from : data[p] = text[from + p]
    BY <1>5, <1>9
  <1>11. from \in Nat /\ upto \in 0 .. Len(text) /\ from <= upto
    BY <1>2, <1>5, <1>6
  <1> QED
    BY <1>6, <1>9, <1>10, <1>11 DEF text, ends, from, upto, data

LEMMA FrameType ==
  ASSUME traffic \in Connections, NEW id \in FrameIds
  PROVE  /\ Data(id) \in Seq(Byte) /\ Len(Data(id)) \in Nat
         /\ \A line \in LengthLines : traffic[id[1]].lengths[line] \in Int
  <1>1. PICK n \in DOMAIN traffic : id \in {n} \X DOMAIN traffic[n].ends
    BY DEF FrameIds
  <1>2. PICK k \in DOMAIN traffic[n].ends : id = <<n, k>>
    BY <1>1
  <1>3. traffic[n].lengths \in [LengthLines -> Int]
    BY RequestType DEF Request
  <1>4. Data(id) \in Seq(Byte)
    BY <1>2, FramesAreInTheText
  <1> QED
    BY <1>2, <1>3, <1>4, LenProperties

LEMMA ContentLenType ==
  ASSUME traffic \in Connections, NEW id \in FrameIds
  PROVE  ContentLen(id) \in Int
  <1> DEFINE data  == Data(id)
             found == PlacesOf(data, LengthLines)
             line  == ContentLength(data)
  <1>1. /\ data \in Seq(Byte) /\ DOMAIN data = 1 .. Len(data) /\ Len(data) \in Nat
        /\ \A l \in LengthLines : traffic[id[1]].lengths[l] \in Int
    BY FrameType, LenProperties
  <1> HIDE DEF data
  <1>2. CASE found = {}
    BY <1>2 DEF ContentLength, ContentLen, data
  <1>3. CASE found # {}
    <2>1. found \in SUBSET (0 .. Len(data))
      BY <1>1 DEF PlacesOf
    <2>2. Max(found) \in found
      BY <1>1, <1>3, <2>1, MaxIsIn
    <2>3. line = data[Max(found)] /\ line \in LengthLines
      BY <1>3, <2>2 DEF ContentLength, PlacesOf
    <2> QED
      BY <1>1, <2>3 DEF ContentLen, data
  <1> QED
    BY <1>2, <1>3

\* RecvStart takes no more than a node holds, and only bytes of the frame.
LEMMA TakenType ==
  ASSUME NEW data \in Seq(Byte), NEW trailer, StartCnt(data, trailer) >= 0
  PROVE  /\ Taken(data, trailer) \in Seq(Byte)
         /\ Len(Taken(data, trailer)) \in 0 .. MAX_BUF_LEN
  <1> DEFINE at  == StartAt(data, trailer)
             cnt == StartCnt(data, trailer)
  <1>1. Len(data) \in Nat /\ MAX_BUF_LEN \in Nat
    BY AssemblyAssumption, LenProperties
  <1>2. at \in Nat
    BY <1>1, LastMarkerIsIn DEF StartAt
  <1>3. CASE at = 0
    BY <1>1, <1>3, EmptySeq DEF Taken
  <1>4. CASE at # 0
    <2> HIDE DEF at
    <2>1. cnt = Min({Len(data) - (at + 2), MAX_BUF_LEN})
      BY <1>4 DEF StartCnt, at
    <2>2. /\ cnt \in Int
          /\ cnt <= Len(data) - (at + 2) /\ cnt <= MAX_BUF_LEN
      <3> DEFINE rest == Len(data) - (at + 2)
      <3>1. rest \in Int /\ MAX_BUF_LEN \in Int
        BY <1>1, <1>2
      <3>2. cnt = Min({rest, MAX_BUF_LEN})
        BY <2>1
      <3> HIDE DEF rest, cnt
      <3>3. /\ Min({rest, MAX_BUF_LEN}) \in {rest, MAX_BUF_LEN}
            /\ Min({rest, MAX_BUF_LEN}) <= rest
            /\ Min({rest, MAX_BUF_LEN}) <= MAX_BUF_LEN
        BY <3>1, MinOfTwo
      <3>4. cnt \in Int /\ cnt <= rest /\ cnt <= MAX_BUF_LEN
        BY <3>1, <3>2, <3>3
      <3> QED
        BY <3>4 DEF rest
    <2> HIDE DEF cnt
    <2>3. cnt >= 0
      BY DEF cnt
    <2>4. Taken(data, trailer) = SubSeq(data, at + 3, at + 2 + cnt)
      BY <1>4 DEF Taken, at, cnt
    <2> DEFINE m == at + 3
               n == at + 2 + cnt
    <2>5. /\ m \in Int /\ n \in Int /\ 1 <= m /\ n <= Len(data)
          /\ n - m + 1 = cnt
      BY <1>1, <1>2, <2>2, <2>3
    <2> HIDE DEF m, n
    <2>6. \A i \in m .. n : data[i] \in Byte
      <3> SUFFICES ASSUME NEW i \in m .. n PROVE i \in 1 .. Len(data)
        BY ElementOfSeq
      <3> QED
        BY <1>1, <2>5
    <2>7. /\ SubSeq(data, m, n) \in Seq(Byte)
          /\ Len(SubSeq(data, m, n)) = IF m <= n THEN n - m + 1 ELSE 0
      BY <2>5, <2>6, SubSeqProperties
    <2>8. Taken(data, trailer) = SubSeq(data, m, n)
      BY <2>4 DEF m, n
    <2> QED
      BY <1>1, <2>2, <2>3, <2>5, <2>7, <2>8
  <1> QED
    BY <1>3, <1>4

-----------------------------------------------------------------------------
(* The node's bytes. *)

Bytes == [1 .. MAX_BUF_LEN -> Byte]

LEMMA BytesAreASeq ==
  ASSUME NEW d \in Bytes
  PROVE  d \in Seq(Byte) /\ Len(d) = MAX_BUF_LEN
  <1>1. MAX_BUF_LEN \in Nat
    BY AssemblyAssumption
  <1>2. d \in Seq(Byte)
    BY <1>1, SeqDef DEF Bytes
  <1>3. /\ Len(d) \in Nat /\ DOMAIN d = 1 .. Len(d)
    BY <1>2, LenProperties
  <1>4. DOMAIN d = 1 .. MAX_BUF_LEN
    BY DEF Bytes
  <1> DEFINE n == Len(d)
  <1>5. n \in Nat /\ 1 .. n = 1 .. MAX_BUF_LEN
    BY <1>3, <1>4
  <1> HIDE DEF n
  <1>6. n = MAX_BUF_LEN
    <2>1. ASSUME n # 0 PROVE n \in 1 .. MAX_BUF_LEN
      <3>1. n \in 1 .. n
        BY <1>5, <2>1
      <3> QED
        BY <1>5, <3>1
    <2>2. ASSUME MAX_BUF_LEN # 0 PROVE MAX_BUF_LEN \in 1 .. n
      <3>1. MAX_BUF_LEN \in 1 .. MAX_BUF_LEN
        BY <1>1, <2>2
      <3> QED
        BY <1>5, <3>1
    <2> QED
      BY <1>1, <1>5, <2>1, <2>2
  <1> QED
    BY <1>2, <1>6 DEF n

LEMMA CopyToType ==
  ASSUME NEW d \in Bytes, NEW at \in Nat, NEW s \in Seq(Byte),
         at + Len(s) <= MAX_BUF_LEN
  PROVE  CopyTo(d, at, s) \in Bytes
  <1> DEFINE front == SubSeq(d, 1, at)
             j     == at + Len(s) + 1
             back  == SubSeq(d, j, Len(d))
  <1>1. /\ MAX_BUF_LEN \in Nat /\ Len(s) \in Nat /\ Len(d) = MAX_BUF_LEN
        /\ j \in Int /\ 1 <= j /\ j <= MAX_BUF_LEN + 1
    BY AssemblyAssumption, LenProperties, BytesAreASeq
  <1>2. \A i \in 1 .. MAX_BUF_LEN : d[i] \in Byte
    BY DEF Bytes
  <1> HIDE DEF j
  <1>3. /\ front \in Seq(Byte)
        /\ Len(front) = IF 1 <= at THEN at - 1 + 1 ELSE 0
    <2>1. \A i \in 1 .. at : d[i] \in Byte
      BY <1>1, <1>2
    <2> QED
      BY <2>1, SubSeqProperties
  <1>4. /\ back \in Seq(Byte)
        /\ Len(back) = IF j <= MAX_BUF_LEN THEN MAX_BUF_LEN - j + 1 ELSE 0
    <2>1. \A i \in j .. MAX_BUF_LEN : d[i] \in Byte
      BY <1>1, <1>2
    <2> QED
      BY <1>1, <2>1, SubSeqProperties
  <1> HIDE DEF front, back
  <1>5. /\ front \o s \in Seq(Byte)
        /\ Len(front \o s) = Len(front) + Len(s)
    BY <1>3, ConcatProperties
  <1>6. /\ front \o s \o back \in Seq(Byte)
        /\ Len(front \o s \o back) = Len(front) + Len(s) + Len(back)
    BY <1>4, <1>5, ConcatProperties
  <1>7. Len(front) = at /\ Len(back) = MAX_BUF_LEN + 1 - j
    BY <1>1, <1>3, <1>4
  <1>8. Len(front \o s \o back) = MAX_BUF_LEN
    BY <1>1, <1>6, <1>7 DEF j
  <1>9. CopyTo(d, at, s) = front \o s \o back
    BY DEF CopyTo, front, back, j
  <1> QED
    BY <1>6, <1>8, <1>9, LenProperties DEF Bytes

LEMMA TerminatedType ==
  ASSUME NEW d \in Bytes
  PROVE  Terminated(d) \in Bytes
  BY DEF Terminated, Bytes, Byte, Other

LEMMA MessageInType ==
  ASSUME NEW d \in Bytes, NEW len \in 0 .. MAX_BUF_LEN
  PROVE  MessageIn(d, MessageSpan(d, len)) \in Seq(Byte)
  <1> DEFINE span == MessageSpan(d, len)
             m    == span.from + 1
             n    == span.upto
  <1>1. /\ len \in Nat /\ MAX_BUF_LEN \in Nat
    BY AssemblyAssumption
  <1>2. span.from \in Nat /\ span.upto \in 0 .. len
    BY <1>1, SpanIsCounted
  <1> HIDE DEF span
  <1>3. \A i \in m .. n : d[i] \in Byte
    BY <1>1, <1>2 DEF Bytes
  <1>4. m \in Int /\ n \in Int
    BY <1>2
  <1> HIDE DEF m, n
  <1>5. SubSeq(d, m, n) \in Seq(Byte)
    BY <1>3, <1>4, SubSeqProperties
  <1> QED
    BY <1>5, EmptySeq DEF MessageIn, NoMessage, span, m, n

-----------------------------------------------------------------------------
(* A frame's bytes in the node. *)

Node == [cLen : 0 .. U16 - 1, usedCnt : 0 .. U16 - 1, data : Bytes]

LEMMA Mod16 ==
  ASSUME NEW x \in Int
  PROVE  x % U16 \in 0 .. U16 - 1 /\ (x >= 0 => x % U16 <= x)
  BY AssemblyAssumption

LEMMA SliceFits ==
  ASSUME cache \in Node, NEW data \in Seq(Byte)
  PROVE  /\ SliceCnt(data) \in 0 .. Len(data)
         /\ cache.usedCnt + SliceCnt(data) \in 0 .. MAX_BUF_LEN
         /\ UsedAfter(data) \in 0 .. U16 - 1
         /\ UsedAfter(data) <= cache.usedCnt + SliceCnt(data)
  <1>1. /\ MAX_BUF_LEN \in Nat /\ U16 \in Nat /\ U16 + 3 <= MAX_BUF_LEN
        /\ Len(data) \in Nat /\ cache.usedCnt \in 0 .. U16 - 1
    BY AssemblyAssumption, LenProperties DEF Node
  <1>2. /\ SliceCnt(data) \in 0 .. Len(data)
        /\ cache.usedCnt + SliceCnt(data) \in 0 .. MAX_BUF_LEN
    BY <1>1 DEF SliceCnt
  <1> DEFINE sum == cache.usedCnt + SliceCnt(data)
  <1>3. sum \in Nat
    BY <1>1, <1>2
  <1>4. UsedAfter(data) = sum % U16
    BY DEF UsedAfter
  <1> HIDE DEF sum
  <1>5. sum % U16 \in 0 .. U16 - 1 /\ sum % U16 <= sum
    BY <1>3, Mod16
  <1>6. UsedAfter(data) \in 0 .. U16 - 1 /\ UsedAfter(data) <= sum
    BY <1>4, <1>5
  <1> QED
    BY <1>2, <1>6 DEF sum

LEMMA AddedType ==
  ASSUME cache \in Node, NEW data \in Seq(Byte)
  PROVE  Added(data) \in Node /\ Added(data).usedCnt = UsedAfter(data)
  <1> DEFINE cnt   == SliceCnt(data)
             slice == SubSeq(data, 1, cnt)
             copy  == CopyTo(cache.data, cache.usedCnt, slice)
  <1>1. /\ cnt \in 0 .. Len(data) /\ cache.usedCnt + cnt \in 0 .. MAX_BUF_LEN
        /\ UsedAfter(data) \in 0 .. U16 - 1
    BY SliceFits
  <1>2. /\ cache.data \in Bytes /\ cache.usedCnt \in Nat /\ cache.cLen \in 0 .. U16 - 1
    BY AssemblyAssumption DEF Node
  <1>3. Len(data) \in Nat /\ \A i \in 1 .. Len(data) : data[i] \in Byte
    BY LenProperties, ElementOfSeq
  <1> HIDE DEF cnt
  <1>4. slice \in Seq(Byte) /\ Len(slice) = cnt
    <2>1. cnt \in Int /\ \A i \in 1 .. cnt : data[i] \in Byte
      BY <1>1, <1>3
    <2>2. /\ slice \in Seq(Byte)
          /\ Len(slice) = IF 1 <= cnt THEN cnt - 1 + 1 ELSE 0
      BY <2>1, SubSeqProperties
    <2> QED
      BY <1>1, <1>3, <2>2
  <1> HIDE DEF slice
  <1>5. copy \in Bytes
    <2>1. cache.usedCnt + Len(slice) <= MAX_BUF_LEN
      BY <1>1, <1>2, <1>4, AssemblyAssumption
    <2> QED
      BY <1>2, <1>4, <2>1, CopyToType
  <1> HIDE DEF copy
  <1>6. Added(data) = [cache EXCEPT !.usedCnt = UsedAfter(data), !.data = copy]
    BY DEF Added, cnt, slice, copy
  <1> QED
    BY <1>1, <1>2, <1>5, <1>6 DEF Node

\* What CompleteFlow leaves in the node.
LEMMA ClearedType ==
  ASSUME NEW node \in Node
  PROVE  [cLen |-> 0, usedCnt |-> 0, data |-> Terminated(node.data)] \in Node
  BY AssemblyAssumption, TerminatedType DEF Node

-----------------------------------------------------------------------------
(* Slices, and the markers in them. *)

LEMMA SameSlice ==
  ASSUME NEW d, NEW e, NEW m \in Int, NEW n \in Int,
         \A p \in m .. n : d[p] \in Byte /\ d[p] = e[p]
  PROVE  SubSeq(d, m, n) = SubSeq(e, m, n)
  <1> DEFINE s == SubSeq(d, m, n)
             t == SubSeq(e, m, n)
  <1>1. /\ s \in Seq(Byte)
        /\ Len(s) = IF m <= n THEN n - m + 1 ELSE 0
        /\ \A i \in 1 .. n - m + 1 : s[i] = d[m + i - 1]
    BY SubSeqProperties
  <1>2. \A p \in m .. n : e[p] \in Byte
    OBVIOUS
  <1>3. /\ t \in Seq(Byte)
        /\ Len(t) = IF m <= n THEN n - m + 1 ELSE 0
        /\ \A i \in 1 .. n - m + 1 : t[i] = e[m + i - 1]
    BY <1>2, SubSeqProperties
  <1> HIDE DEF s, t
  <1>4. \A i \in 1 .. Len(s) : s[i] = t[i]
    <2> SUFFICES ASSUME NEW i \in 1 .. Len(s) PROVE s[i] = t[i]
      OBVIOUS
    <2>1. i \in 1 .. n - m + 1 /\ m + i - 1 \in m .. n
      BY <1>1
    <2> QED
      BY <1>1, <1>3, <2>1
  <1>5. s = t
    BY <1>1, <1>3, <1>4, SeqEqual
  <1> QED
    BY <1>5 DEF s, t

LEMMA TwoBytes ==
  /\ CRLF[1] = CR /\ CRLF[2] = LF /\ Hyphens[1] = "-" /\ Hyphens[2] = "-"
  /\ CR # LF /\ CR # "-" /\ LF # "-"
  /\ \A a \in {CRLF, Hyphens} : a \in Seq(Byte) /\ Len(a) = 2
  <1>1. CR \in Byte /\ LF \in Byte /\ "-" \in Byte
    BY DEF Byte
  <1>2. CR # LF /\ CR # "-" /\ LF # "-"
    BY DEF CR, LF
  <1> QED
    BY <1>1, <1>2 DEF CRLF, Hyphens

LEMMA MarkerAt ==
  ASSUME NEW d, NEW i \in Nat, \A p \in i + 1 .. i + 4 : d[p] \in Byte,
         NEW a \in {CRLF, Hyphens}, NEW b \in {CRLF, Hyphens},
         SubSeq(d, i + 1, i + 4) = a \o b
  PROVE  d[i + 1] = a[1] /\ d[i + 2] = a[2] /\ d[i + 3] = b[1] /\ d[i + 4] = b[2]
  <1> DEFINE s == SubSeq(d, i + 1, i + 4)
             t == a \o b
  <1>1. i + 1 \in Int /\ i + 4 \in Int /\ (i + 4) - (i + 1) + 1 = 4
    OBVIOUS
  <1>2. \A j \in 1 .. (i + 4) - (i + 1) + 1 : s[j] = d[(i + 1) + j - 1]
    BY <1>1, SubSeqProperties
  <1>3. s[1] = d[i + 1] /\ s[2] = d[i + 2] /\ s[3] = d[i + 3] /\ s[4] = d[i + 4]
    BY <1>1, <1>2
  <1>4. a \in Seq(Byte) /\ b \in Seq(Byte) /\ Len(a) = 2 /\ Len(b) = 2
    BY TwoBytes, Zenon
  <1>5. \A j \in 1 .. Len(a) + Len(b) : t[j] = IF j <= Len(a) THEN a[j] ELSE b[j - Len(a)]
    BY <1>4, ConcatProperties
  <1>6. s = t
    OBVIOUS
  <1> HIDE DEF s, t
  <1>7. t[1] = a[1] /\ t[2] = a[2] /\ t[3] = b[1] /\ t[4] = b[2]
    BY <1>4, <1>5
  <1> QED
    BY <1>3, <1>6, <1>7

LEMMA MarkersAre ==
  ASSUME NEW d, NEW len, NEW marker, NEW i
  PROVE  i \in MarkersIn(d, len, marker) <=>
           i \in 0 .. len - 1 /\ SubSeq(d, i + 1, i + 4) = marker
  BY Zenon DEF MarkersIn

LEMMA MaxIs ==
  ASSUME NEW n \in Nat, NEW S \in SUBSET (0 .. n), NEW x \in S, \A y \in S : y <= x
  PROVE  Max(S) = x
  <1>1. \A y \in S : x >= y
    OBVIOUS
  <1>2. Max(S) \in S /\ \A y \in S : Max(S) >= y
    BY <1>1 DEF Max
  <1>3. Max(S) >= x /\ x >= Max(S)
    BY <1>1, <1>2
  <1>4. x \in 0 .. n /\ Max(S) \in 0 .. n
    BY <1>2, Zenon
  <1> QED
    BY <1>3, <1>4

LEMMA LastMarkerIs ==
  ASSUME NEW d, NEW len \in Nat, NEW marker, NEW x \in MarkersIn(d, len, marker),
         \A i \in MarkersIn(d, len, marker) : i <= x
  PROVE  LastMarker(d, len, marker) = x
  <1>1. MarkersIn(d, len, marker) \in SUBSET (0 .. len)
    BY DEF MarkersIn
  <1>2. Max(MarkersIn(d, len, marker)) = x
    BY <1>1, MaxIs
  <1> QED
    BY <1>2 DEF LastMarker

\* In a node that begins with a closed body, a scan for CRLF and `tail` finds
\* what is in the body, unless the two bytes behind it are `tail`.
LEMMA MarkersOfTheBody ==
  ASSUME NEW d \in [1 .. MAX_BUF_LEN -> Byte], NEW body \in Seq(Byte), NEW len \in Nat,
         len = Len(body), len + 3 <= MAX_BUF_LEN,
         \A p \in 1 .. len : d[p] = body[p],
         len - 4 \in MarkersIn(body, len - 3, CloseEnd),
         NEW tail \in {CRLF, Hyphens}, SubSeq(d, len + 1, len + 2) # tail,
         NEW marker, marker = CRLF \o tail
  PROVE  MarkersIn(d, len, marker) = MarkersIn(body, len - 3, marker)
  <1>1. /\ MAX_BUF_LEN \in Nat /\ \A p \in 1 .. len : body[p] \in Byte
        /\ \A p \in 1 .. MAX_BUF_LEN : d[p] \in Byte
    BY AssemblyAssumption, ElementOfSeq
  <1>2. len >= 4
    BY DEF MarkersIn
  <1>3. body[len - 3] = "-" /\ body[len - 2] = "-" /\ body[len - 1] = CR /\ body[len] = LF
    <2>1. SubSeq(body, (len - 4) + 1, (len - 4) + 4) = Hyphens \o CRLF
      BY DEF MarkersIn, CloseEnd
    <2>2. /\ len - 4 \in Nat /\ (len - 4) + 1 = len - 3 /\ (len - 4) + 2 = len - 2
          /\ (len - 4) + 3 = len - 1 /\ (len - 4) + 4 = len
          /\ \A p \in (len - 4) + 1 .. (len - 4) + 4 : body[p] \in Byte
      BY <1>1, <1>2
    <2>3. /\ body[(len - 4) + 1] = Hyphens[1] /\ body[(len - 4) + 2] = Hyphens[2]
          /\ body[(len - 4) + 3] = CRLF[1] /\ body[(len - 4) + 4] = CRLF[2]
      BY <2>1, <2>2, MarkerAt
    <2> QED
      BY <2>2, <2>3, TwoBytes
  <1>4. ASSUME NEW i \in 0 .. len - 4
        PROVE  SubSeq(d, i + 1, i + 4) = SubSeq(body, i + 1, i + 4)
    <2>1. i + 1 \in Int /\ i + 4 \in Int /\ \A p \in i + 1 .. i + 4 : p \in 1 .. len /\ p \in 1 .. MAX_BUF_LEN
      BY <1>1
    <2> QED
      BY <1>1, <2>1, SameSlice
  <1>5. ASSUME NEW i \in 0 .. len - 1, i > len - 4, SubSeq(d, i + 1, i + 4) = marker
        PROVE  FALSE
    <2>1. /\ i \in Nat /\ \A p \in i + 1 .. i + 4 : d[p] \in Byte
      BY <1>1
    <2>2. /\ d[i + 1] = CRLF[1] /\ d[i + 2] = CRLF[2]
          /\ d[i + 3] = tail[1] /\ d[i + 4] = tail[2]
      <3>1. SubSeq(d, i + 1, i + 4) = CRLF \o tail /\ CRLF \in {CRLF, Hyphens}
        BY <1>5, Zenon
      <3> QED
        BY <2>1, <3>1, MarkerAt
    <2>3. i = len - 3 \/ i = len - 2 \/ i = len - 1
      BY <1>5
    <2>4. CASE i = len - 3
      BY <1>2, <1>3, <2>2, <2>4, TwoBytes
    <2>5. CASE i = len - 1
      BY <1>2, <1>3, <2>2, <2>5, TwoBytes
    <2>6. CASE i = len - 2
      <3> DEFINE s == SubSeq(d, len + 1, len + 2)
      <3>1. d[len + 1] = tail[1] /\ d[len + 2] = tail[2]
        BY <2>2, <2>6
      <3>2. /\ s \in Seq(Byte) /\ Len(s) = 2
            /\ s[1] = d[len + 1] /\ s[2] = d[len + 2]
        <4>1. /\ len + 1 \in Int /\ len + 2 \in Int
              /\ \A p \in len + 1 .. len + 2 : d[p] \in Byte
          BY <1>1
        <4>2. /\ s \in Seq(Byte)
              /\ Len(s) = IF len + 1 <= len + 2 THEN (len + 2) - (len + 1) + 1 ELSE 0
              /\ \A j \in 1 .. (len + 2) - (len + 1) + 1 : s[j] = d[(len + 1) + j - 1]
          BY <4>1, SubSeqProperties
        <4> QED
          BY <4>2
      <3> HIDE DEF s
      <3>3. tail \in Seq(Byte) /\ Len(tail) = 2
        BY TwoBytes, Zenon
      <3>4. \A j \in 1 .. Len(s) : s[j] = tail[j]
        BY <3>1, <3>2
      <3>5. s = tail
        BY <3>2, <3>3, <3>4, SeqEqual
      <3> QED
        BY <3>5 DEF s
    <2> QED
      BY <2>3, <2>4, <2>5, <2>6
  <1>6. ASSUME NEW i \in MarkersIn(d, len, marker)
        PROVE  i \in MarkersIn(body, len - 3, marker)
    <2>1. i \in 0 .. len - 1 /\ SubSeq(d, i + 1, i + 4) = marker
      BY DEF MarkersIn
    <2>2. ~(i > len - 4)
      BY <1>5, <2>1, Zenon
    <2>3. i \in 0 .. len - 4 /\ i \in 0 .. (len - 3) - 1
      BY <2>1, <2>2
    <2> QED
      BY <1>4, <2>1, <2>3, MarkersAre, Zenon
  <1>7. ASSUME NEW i \in MarkersIn(body, len - 3, marker)
        PROVE  i \in MarkersIn(d, len, marker)
    <2>1. i \in 0 .. (len - 3) - 1 /\ SubSeq(body, i + 1, i + 4) = marker
      BY DEF MarkersIn
    <2>2. i \in 0 .. len - 4 /\ i \in 0 .. len - 1
      BY <2>1
    <2> QED
      BY <1>4, <2>1, <2>2, MarkersAre, Zenon
  <1> QED
    BY <1>6, <1>7

-----------------------------------------------------------------------------
(* A negative count. *)

\* RecvStart's count is negative only when the delimiter's CR is the frame's last
\* byte.
LEMMA NegativeCount ==
  ASSUME NEW data \in Seq(Byte), NEW trailer \in Trailers, StartCnt(data, trailer) < 0
  PROVE  Last(data) = CR /\ trailer = <<LF>> \o Hyphens
  <1> DEFINE at    == StartAt(data, trailer)
             found == MarkersIn(data \o trailer, Len(data), Delimiter)
             len   == Len(data)
             all   == data \o trailer
  <1>1. /\ len \in Nat /\ MAX_BUF_LEN \in Nat
        /\ trailer \in Seq(Byte) /\ Len(trailer) = 3
    BY AssemblyAssumption, LenProperties
  <1>2. at # 0
    BY DEF StartCnt
  <1>3. found \in SUBSET (0 .. len)
    BY <1>1 DEF MarkersIn
  <1>4. found # {} /\ at = Max(found)
    BY <1>2 DEF StartAt, LastMarker
  <1>5. at \in found
    BY <1>1, <1>3, <1>4, MaxIsIn
  <1>6. at \in 0 .. len - 1 /\ SubSeq(all, at + 1, at + 4) = CRLF \o Hyphens
    BY <1>5 DEF MarkersIn, Delimiter
  <1>7. StartCnt(data, trailer) = Min({len - (at + 2), MAX_BUF_LEN})
    BY <1>2 DEF StartCnt
  <1> HIDE DEF at, found, len
  <1>8. at = len - 1
    <2> DEFINE rest == len - (at + 2)
    <2>1. rest \in Int /\ MAX_BUF_LEN \in Int
      BY <1>1, <1>6
    <2>2. StartCnt(data, trailer) = Min({rest, MAX_BUF_LEN})
      BY <1>7
    <2> HIDE DEF rest
    <2>3. Min({rest, MAX_BUF_LEN}) = rest \/ Min({rest, MAX_BUF_LEN}) = MAX_BUF_LEN
      BY <2>1, MinOfTwo
    <2>4. rest < 0
      BY <1>1, <2>1, <2>2, <2>3
    <2> QED
      BY <1>1, <1>6, <2>4 DEF rest
  <1>9. /\ all \in Seq(Byte) /\ Len(all) = len + 3
        /\ \A p \in 1 .. len + 3 : all[p] = IF p <= len THEN data[p] ELSE trailer[p - len]
    <2>1. /\ all \in Seq(Byte) /\ Len(all) = Len(data) + Len(trailer)
          /\ \A p \in 1 .. Len(data) + Len(trailer) :
               all[p] = IF p <= Len(data) THEN data[p] ELSE trailer[p - Len(data)]
      BY <1>1, ConcatProperties
    <2> HIDE DEF all
    <2> QED
      BY <1>1, <2>1 DEF len
  <1> HIDE DEF all
  <1>10. \A p \in 1 .. len + 3 : all[p] \in Byte
    BY <1>9, ElementOfSeq
  <1>11. /\ all[at + 1] = CRLF[1] /\ all[at + 2] = CRLF[2]
         /\ all[at + 3] = Hyphens[1] /\ all[at + 4] = Hyphens[2]
    <2>1. at \in Nat /\ \A p \in at + 1 .. at + 4 : all[p] \in Byte
      BY <1>1, <1>6, <1>8, <1>10
    <2> QED
      BY <1>6, <2>1, MarkerAt
  <1>12. at + 1 = len /\ at + 2 = len + 1 /\ at + 3 = len + 2 /\ at + 4 = len + 3 /\ len >= 1
    BY <1>1, <1>6, <1>8
  <1>13. /\ data[len] = CR
         /\ trailer[1] = LF /\ trailer[2] = Hyphens[1] /\ trailer[3] = Hyphens[2]
    <2>1. all[len] = CR /\ all[len + 1] = LF
      BY <1>11, <1>12, TwoBytes
    <2>2. /\ all[len] = data[len] /\ all[len + 1] = trailer[1]
          /\ all[len + 2] = trailer[2] /\ all[len + 3] = trailer[3]
      BY <1>1, <1>9, <1>12
    <2> QED
      BY <1>11, <1>12, <2>1, <2>2
  <1>14. trailer = <<LF>> \o Hyphens
    <2> DEFINE one == <<LF>>
               t   == one \o Hyphens
    <2>1. one \in Seq(Byte) /\ Len(one) = 1 /\ one[1] = LF
      <3>1. LF \in Byte
        BY DEF Byte
      <3> QED
        BY <3>1
    <2>2. Hyphens \in Seq(Byte) /\ Len(Hyphens) = 2
      BY TwoBytes
    <2> HIDE DEF one
    <2>3. /\ t \in Seq(Byte) /\ Len(t) = 3
          /\ \A j \in 1 .. 3 : t[j] = IF j <= 1 THEN one[j] ELSE Hyphens[j - 1]
      <3>1. /\ t \in Seq(Byte) /\ Len(t) = Len(one) + Len(Hyphens)
            /\ \A j \in 1 .. Len(one) + Len(Hyphens) :
                 t[j] = IF j <= Len(one) THEN one[j] ELSE Hyphens[j - Len(one)]
        BY <2>1, <2>2, ConcatProperties
      <3> HIDE DEF t
      <3> QED
        BY <2>1, <2>2, <3>1
    <2> HIDE DEF t
    <2>4. \A j \in 1 .. Len(trailer) : trailer[j] = t[j]
      BY <1>1, <1>13, <2>1, <2>3
    <2>5. trailer = t
      BY <1>1, <2>3, <2>4, SeqEqual
    <2> QED
      BY <2>5 DEF one, t
  <1> QED
    BY <1>13, <1>14 DEF Last, len

-----------------------------------------------------------------------------
(* Which bytes are where. *)

\* What CopyTo leaves, and what it copies.
LEMMA CopyToBytes ==
  ASSUME NEW d \in Bytes, NEW at \in Nat, NEW s \in Seq(Byte),
         at + Len(s) <= MAX_BUF_LEN
  PROVE  /\ \A p \in 1 .. at : CopyTo(d, at, s)[p] = d[p]
         /\ \A p \in 1 .. Len(s) : CopyTo(d, at, s)[at + p] = s[p]
  <1> DEFINE front == SubSeq(d, 1, at)
             j     == at + Len(s) + 1
             back  == SubSeq(d, j, Len(d))
             both  == front \o s
             copy  == both \o back
  <1>1. /\ MAX_BUF_LEN \in Nat /\ Len(s) \in Nat /\ Len(d) = MAX_BUF_LEN
        /\ j \in Int /\ 1 <= j
        /\ \A i \in 1 .. MAX_BUF_LEN : d[i] \in Byte
    BY AssemblyAssumption, LenProperties, BytesAreASeq DEF Bytes
  <1> HIDE DEF j
  <1>2. /\ front \in Seq(Byte) /\ Len(front) = at
        /\ \A i \in 1 .. at : front[i] = d[i]
    <2>1. \A i \in 1 .. at : d[i] \in Byte
      BY <1>1
    <2>2. /\ front \in Seq(Byte)
          /\ Len(front) = IF 1 <= at THEN at - 1 + 1 ELSE 0
          /\ \A i \in 1 .. at - 1 + 1 : front[i] = d[1 + i - 1]
      BY <2>1, SubSeqProperties
    <2> HIDE DEF front
    <2> QED
      BY <2>2
  <1>3. back \in Seq(Byte)
    <2>1. \A i \in j .. MAX_BUF_LEN : d[i] \in Byte
      BY <1>1
    <2> QED
      BY <1>1, <2>1, SubSeqProperties
  <1> HIDE DEF front, back
  <1>4. /\ both \in Seq(Byte) /\ Len(both) = at + Len(s)
        /\ \A i \in 1 .. at + Len(s) : both[i] = IF i <= at THEN front[i] ELSE s[i - at]
    BY <1>2, ConcatProperties
  <1> HIDE DEF both
  <1>5. \A i \in 1 .. Len(both) : copy[i] = both[i]
    <2>1. \A i \in 1 .. Len(both) + Len(back) :
            copy[i] = IF i <= Len(both) THEN both[i] ELSE back[i - Len(both)]
      BY <1>3, <1>4, ConcatProperties
    <2>2. Len(both) \in Nat /\ Len(back) \in Nat
      BY <1>3, <1>4, LenProperties
    <2> HIDE DEF copy
    <2> QED
      BY <2>1, <2>2
  <1>6. CopyTo(d, at, s) = copy
    BY DEF CopyTo, copy, both, front, back, j
  <1> HIDE DEF copy
  <1>7. \A p \in 1 .. at : copy[p] = d[p]
    BY <1>1, <1>2, <1>4, <1>5
  <1>8. \A p \in 1 .. Len(s) : copy[at + p] = s[p]
    <2> SUFFICES ASSUME NEW p \in 1 .. Len(s) PROVE copy[at + p] = s[p]
      OBVIOUS
    <2>1. at + p \in 1 .. at + Len(s) /\ ~(at + p <= at) /\ (at + p) - at = p
      BY <1>1
    <2> QED
      BY <1>4, <1>5, <2>1
  <1> QED
    BY <1>6, <1>7, <1>8

\* A frame that neither fills the node nor its count is added as it is.
LEMMA AddedBytes ==
  ASSUME cache \in Node, NEW data \in Seq(Byte), cache.usedCnt + Len(data) < U16
  PROVE  /\ UsedAfter(data) = cache.usedCnt + Len(data)
         /\ Added(data) \in Node /\ Added(data).cLen = cache.cLen
         /\ Added(data).usedCnt = UsedAfter(data)
         /\ \A p \in 1 .. cache.usedCnt : Added(data).data[p] = cache.data[p]
         /\ \A p \in 1 .. Len(data) : Added(data).data[cache.usedCnt + p] = data[p]
  <1> DEFINE used0 == cache.usedCnt
             len   == Len(data)
             slice == SubSeq(data, 1, SliceCnt(data))
             copy  == CopyTo(cache.data, used0, slice)
  <1>1. /\ MAX_BUF_LEN \in Nat /\ U16 \in Nat /\ U16 + 3 <= MAX_BUF_LEN
        /\ len \in Nat /\ used0 \in Nat /\ cache.data \in Bytes
        /\ \A i \in 1 .. len : data[i] \in Byte
    BY AssemblyAssumption, LenProperties, ElementOfSeq DEF Node
  <1>2. SliceCnt(data) = len
    BY <1>1 DEF SliceCnt
  <1>3. UsedAfter(data) = used0 + len
    <2>1. used0 + len \in 0 .. U16 - 1
      BY <1>1
    <2>2. UsedAfter(data) = (used0 + len) % U16
      BY <1>2 DEF UsedAfter
    <2> HIDE DEF used0, len
    <2> QED
      BY <1>1, <2>1, <2>2
  <1>4. slice = SubSeq(data, 1, len)
    BY <1>2
  <1> HIDE DEF slice
  <1>5. slice \in Seq(Byte) /\ Len(slice) = len /\ \A p \in 1 .. len : slice[p] = data[p]
    <2>1. /\ SubSeq(data, 1, len) \in Seq(Byte)
          /\ Len(SubSeq(data, 1, len)) = IF 1 <= len THEN len - 1 + 1 ELSE 0
          /\ \A i \in 1 .. len - 1 + 1 : SubSeq(data, 1, len)[i] = data[1 + i - 1]
      BY <1>1, SubSeqProperties
    <2> HIDE DEF len
    <2> QED
      BY <1>1, <1>4, <2>1
  <1>6. used0 + Len(slice) <= MAX_BUF_LEN
    BY <1>1, <1>5
  <1>7. /\ \A p \in 1 .. used0 : copy[p] = cache.data[p]
        /\ \A p \in 1 .. len : copy[used0 + p] = data[p]
    <2> HIDE DEF used0, len
    <2> QED
      BY <1>1, <1>5, <1>6, CopyToBytes
  <1>8. Added(data) = [cache EXCEPT !.usedCnt = UsedAfter(data), !.data = copy]
    BY DEF Added, slice, copy
  <1> HIDE DEF copy
  <1>9. Added(data).data = copy /\ Added(data).cLen = cache.cLen
    BY <1>8 DEF Node
  <1>10. Added(data) \in Node /\ Added(data).usedCnt = UsedAfter(data)
    BY AddedType
  <1> QED
    BY <1>3, <1>7, <1>9, <1>10

LEMMA BodyBytes ==
  ASSUME traffic \in Connections, NEW n \in DOMAIN traffic
  PROVE  LET text == traffic[n].text
             head == traffic[n].headerLen
             body == BodyOf(traffic[n])
         IN  /\ head \in Nat /\ head >= 4 /\ head <= Len(text)
             /\ body \in Seq(Byte) /\ Len(body) = Len(text) - head
             /\ \A p \in 1 .. Len(text) - head : body[p] = text[head + p]
  <1> DEFINE text == traffic[n].text
             head == traffic[n].headerLen
             body == BodyOf(traffic[n])
  <1>1. text \in Seq(Byte) /\ head \in 4 .. Len(text)
    BY RequestType DEF Request, WellFormed
  <1>2. Len(text) \in Nat /\ \A i \in 1 .. Len(text) : text[i] \in Byte
    BY <1>1, LenProperties, ElementOfSeq
  <1>3. body = SubSeq(text, head + 1, Len(text))
    BY DEF BodyOf
  <1> HIDE DEF text, head, body
  <1>4. \A i \in head + 1 .. Len(text) : text[i] \in Byte
    BY <1>1, <1>2
  <1>5. head + 1 \in Int /\ Len(text) \in Int
    BY <1>1, <1>2
  <1>6. /\ body \in Seq(Byte)
        /\ Len(body) = IF head + 1 <= Len(text) THEN Len(text) - (head + 1) + 1 ELSE 0
        /\ \A p \in 1 .. Len(text) - (head + 1) + 1 : body[p] = text[head + 1 + p - 1]
    BY <1>3, <1>4, <1>5, SubSeqProperties
  <1>7. /\ Len(body) = Len(text) - head
        /\ \A p \in 1 .. Len(text) - head : body[p] = text[head + p]
    BY <1>1, <1>2, <1>6
  <1>8. head \in Nat /\ head >= 4 /\ head <= Len(text)
    BY <1>1, <1>2
  <1> QED
    BY <1>6, <1>7, <1>8 DEF text, head, body

\* RecvFinished finds the part's content in a node that begins with the body,
\* unless the bytes behind it complete a marker.
LEMMA MessageIsContent ==
  ASSUME NEW request, HasOnePart(request), request.content \in [from : Nat, upto : Nat],
         NEW body \in Seq(Byte), body = BodyOf(request),
         NEW d \in Bytes, NEW len \in Nat, len = Len(body), len < U16,
         \A p \in 1 .. len : d[p] = body[p],
         SubSeq(d, len + 1, len + 2) \notin {Hyphens, CRLF}
  PROVE  MessageIn(d, MessageSpan(d, len)) = MessageIn(body, request.content)
  <1> DEFINE content == request.content
             heads   == MarkersIn(body, len - 3, HeadersEnd)
             ends    == MarkersIn(body, len - 3, Delimiter)
             span    == MessageSpan(d, len)
  <1>1. MAX_BUF_LEN \in Nat /\ len + 3 <= MAX_BUF_LEN /\ (len - 4) + 1 = len - 3
    BY AssemblyAssumption
  <1>2. /\ content.from - 4 \in heads /\ \A i \in heads : i <= content.from - 4
        /\ content.upto \in ends /\ \A i \in ends : i <= content.upto
        /\ content.from <= content.upto
        /\ len - 4 \in MarkersIn(body, len - 3, CloseEnd)
    BY <1>1 DEF HasOnePart
  <1>3. MarkersIn(d, len, HeadersEnd) = heads
    <2>1. /\ d \in [1 .. MAX_BUF_LEN -> Byte] /\ CRLF \in {CRLF, Hyphens}
          /\ SubSeq(d, len + 1, len + 2) # CRLF
          /\ len - 4 \in MarkersIn(body, len - 3, CloseEnd)
          /\ len + 3 <= MAX_BUF_LEN
      BY <1>1, <1>2 DEF Bytes
    <2>2. \A marker : marker = CRLF \o CRLF =>
            MarkersIn(d, len, marker) = MarkersIn(body, len - 3, marker)
      BY <2>1, MarkersOfTheBody
    <2> QED
      BY <2>2 DEF HeadersEnd
  <1>4. MarkersIn(d, len, Delimiter) = ends
    <2>1. /\ d \in [1 .. MAX_BUF_LEN -> Byte] /\ Hyphens \in {CRLF, Hyphens}
          /\ SubSeq(d, len + 1, len + 2) # Hyphens
          /\ len - 4 \in MarkersIn(body, len - 3, CloseEnd)
          /\ len + 3 <= MAX_BUF_LEN
      BY <1>1, <1>2 DEF Bytes
    <2>2. \A marker : marker = CRLF \o Hyphens =>
            MarkersIn(d, len, marker) = MarkersIn(body, len - 3, marker)
      BY <2>1, MarkersOfTheBody
    <2> QED
      BY <2>2 DEF Delimiter
  <1>5. content.from - 4 \in 0 .. (len - 3) - 1 /\ content.upto \in 0 .. (len - 3) - 1
    BY <1>2 DEF MarkersIn
  <1>6. /\ LastMarker(d, len, HeadersEnd) = content.from - 4
        /\ LastMarker(d, len, Delimiter) = content.upto
    BY <1>2, <1>3, <1>4, LastMarkerIs
  <1> DEFINE from == content.from
             upto == content.upto
  <1>7. from \in Nat /\ upto \in Nat /\ content = [from |-> from, upto |-> upto]
    OBVIOUS
  <1>8. /\ from >= 4 /\ from < len /\ upto > 0 /\ upto >= from /\ upto <= len
        /\ (from - 4) + 4 = from
    BY <1>2, <1>5, <1>7
  <1>9. span = content
    <2> HIDE DEF content
    <2>1. (from - 4) + 4 < len /\ upto > 0 /\ upto >= (from - 4) + 4
      BY <1>7, <1>8
    <2>2. span = [from |-> (from - 4) + 4, upto |-> upto]
      BY <1>6, <2>1 DEF MessageSpan
    <2> HIDE DEF span
    <2> QED
      BY <1>7, <1>8, <2>2
  <1> HIDE DEF span
  <1>10. content # NoSpan
    BY <1>8 DEF NoSpan
  <1>11. SubSeq(d, from + 1, upto) = SubSeq(body, from + 1, upto)
    <2> HIDE DEF from, upto
    <2>1. from + 1 \in Int /\ upto \in Int
      BY <1>7
    <2>2. \A p \in from + 1 .. upto : p \in 1 .. len /\ p \in 1 .. MAX_BUF_LEN
      BY <1>1, <1>7, <1>8
    <2>3. \A p \in from + 1 .. upto : d[p] \in Byte /\ d[p] = body[p]
      BY <2>2 DEF Bytes
    <2> QED
      BY <2>1, <2>3, SameSlice
  <1> QED
    BY <1>9, <1>10, <1>11 DEF MessageIn, span

-----------------------------------------------------------------------------
(* The requests the sniffer can put together. *)

LEMMA IdsOfType ==
  ASSUME traffic \in Connections, NEW n \in DOMAIN traffic
  PROVE  /\ IdsOf(n) \in Seq(FrameIds) /\ Len(IdsOf(n)) = Len(traffic[n].ends)
         /\ Len(traffic[n].ends) \in Nat \ {0}
         /\ DOMAIN traffic[n].ends = 1 .. Len(traffic[n].ends)
         /\ \A i \in 1 .. Len(traffic[n].ends) : IdsOf(n)[i] = <<n, i>>
  <1> DEFINE len == Len(traffic[n].ends)
  <1>1. traffic[n].ends \in Seq(Nat) /\ traffic[n].ends # <<>>
    BY RequestType DEF Request, WellFormed
  <1>2. len \in Nat \ {0} /\ DOMAIN traffic[n].ends = 1 .. len
    BY <1>1, LenProperties, EmptySeq
  <1>3. \A i \in 1 .. len : <<n, i>> \in FrameIds
    BY <1>2 DEF FrameIds
  <1>4. IdsOf(n) = [i \in 1 .. len |-> <<n, i>>]
    BY <1>2 DEF IdsOf
  <1> HIDE DEF len
  <1>5. IdsOf(n) \in Seq(FrameIds) /\ Len(IdsOf(n)) = len
    <2>1. IdsOf(n) \in [1 .. len -> FrameIds]
      BY <1>3, <1>4
    <2>2. len \in Nat
      BY <1>2
    <2> QED
      BY <1>4, <2>1, <2>2, SeqDef
  <1>6. \A i \in 1 .. len : IdsOf(n)[i] = <<n, i>>
    BY <1>4
  <1> QED
    BY <1>2, <1>5, <1>6 DEF len

LEMMA PrefixOfIds ==
  ASSUME traffic \in Connections, NEW n \in DOMAIN traffic, NEW s \in Seq(FrameIds)
  PROVE  IsPrefix(s, IdsOf(n)) <=>
           Len(s) <= Len(traffic[n].ends) /\ \A i \in 1 .. Len(s) : s[i] = <<n, i>>
  <1> DEFINE len == Len(s)
             all == Len(traffic[n].ends)
             ids == IdsOf(n)
             a   == SubSeq(s, 1, len)
             b   == SubSeq(ids, 1, len)
  <1>1. /\ ids \in Seq(FrameIds) /\ Len(ids) = all /\ all \in Nat
        /\ \A i \in 1 .. all : ids[i] = <<n, i>>
    BY IdsOfType
  <1>2. len \in Nat /\ \A i \in 1 .. len : s[i] \in FrameIds
    BY LenProperties, ElementOfSeq
  <1>3. IsPrefix(s, ids) <=> len <= all /\ a = b
    BY <1>1 DEF IsPrefix
  <1> HIDE DEF ids, all, len
  <1>4. /\ a \in Seq(FrameIds) /\ Len(a) = len /\ \A i \in 1 .. len : a[i] = s[i]
    <2>1. /\ a \in Seq(FrameIds) /\ Len(a) = IF 1 <= len THEN len - 1 + 1 ELSE 0
          /\ \A i \in 1 .. len - 1 + 1 : a[i] = s[1 + i - 1]
      BY <1>2, SubSeqProperties
    <2> HIDE DEF a
    <2> QED
      BY <1>2, <2>1
  <1>5. ASSUME len <= all
        PROVE  /\ b \in Seq(FrameIds) /\ Len(b) = len
               /\ \A i \in 1 .. len : b[i] = <<n, i>>
    <2>1. \A i \in 1 .. len : ids[i] \in FrameIds /\ ids[i] = <<n, i>>
      <3>1. \A i \in 1 .. len : i \in 1 .. Len(ids) /\ i \in 1 .. all
        BY <1>1, <1>2, <1>5
      <3> QED
        BY <1>1, <3>1, ElementOfSeq
    <2>2. /\ b \in Seq(FrameIds) /\ Len(b) = IF 1 <= len THEN len - 1 + 1 ELSE 0
          /\ \A i \in 1 .. len - 1 + 1 : b[i] = ids[1 + i - 1]
      BY <1>2, <2>1, SubSeqProperties
    <2> HIDE DEF b
    <2>3. ASSUME NEW i \in 1 .. len PROVE b[i] = ids[i]
      <3>1. i \in 1 .. len - 1 + 1 /\ 1 + i - 1 = i
        BY <1>2
      <3> QED
        BY <2>2, <3>1
    <2> QED
      BY <1>2, <2>1, <2>2, <2>3
  <1> HIDE DEF a, b
  <1>6. ASSUME len <= all, a = b PROVE \A i \in 1 .. len : s[i] = <<n, i>>
    BY <1>4, <1>5, <1>6
  <1>7. ASSUME len <= all, \A i \in 1 .. len : s[i] = <<n, i>> PROVE a = b
    <2>1. \A i \in 1 .. Len(a) : a[i] = b[i]
      BY <1>4, <1>5, <1>7
    <2> QED
      BY <1>4, <1>5, <1>7, <2>1, SeqEqual
  <1> QED
    BY <1>3, <1>6, <1>7 DEF ids, all, len

\* What is seen with a frame more is a request's first frames only if what was
\* seen before is, and the frame is its next one.
LEMMA NextOfPrefix ==
  ASSUME traffic \in Connections, NEW n \in DOMAIN traffic, NEW s \in Seq(FrameIds),
         NEW id \in FrameIds, IsPrefix(Append(s, id), IdsOf(n))
  PROVE  /\ IsPrefix(s, IdsOf(n)) /\ id = <<n, Len(s) + 1>>
         /\ Len(s) \in Nat /\ Len(s) + 1 \in DOMAIN traffic[n].ends
  <1> DEFINE len == Len(s)
             all == Len(traffic[n].ends)
             t   == Append(s, id)
  <1>1. /\ len \in Nat /\ t \in Seq(FrameIds) /\ Len(t) = len + 1
        /\ t[len + 1] = id /\ \A i \in 1 .. len : t[i] = s[i]
    BY LenProperties, AppendProperties
  <1> HIDE DEF t
  <1>2. Len(t) <= all /\ \A i \in 1 .. Len(t) : t[i] = <<n, i>>
    BY <1>1, PrefixOfIds DEF t
  <1>3. all \in Nat /\ DOMAIN traffic[n].ends = 1 .. all
    BY IdsOfType
  <1> HIDE DEF len, all
  <1>4. len + 1 <= all /\ id = <<n, len + 1>>
    <2>1. len + 1 \in 1 .. Len(t)
      BY <1>1
    <2> QED
      BY <1>1, <1>2, <2>1
  <1>5. len <= all /\ \A i \in 1 .. len : s[i] = <<n, i>>
    BY <1>1, <1>2, <1>3
  <1>6. len + 1 \in 1 .. all
    BY <1>1, <1>3, <1>4
  <1> QED
    BY <1>1, <1>3, <1>4, <1>5, <1>6, PrefixOfIds DEF len, all

\* The first frame of such a request opens a flow, which waits for its body.
LEMMA FirstFrameOpens ==
  ASSUME traffic \in Connections, NEW n \in DOMAIN traffic, Assembles(n)
  PROVE  /\ Opens(<<n, 1>>) /\ ContentLen(<<n, 1>>) = Len(BodyOf(traffic[n]))
         /\ Len(BodyOf(traffic[n])) \in 0 .. U16 - 1
  <1> DEFINE first == Data(<<n, 1>>)
             body  == BodyOf(traffic[n])
             types == PlacesOf(first, TypeLines)
             lens  == PlacesOf(first, LengthLines)
  <1>1. /\ first \in Seq(Byte) /\ Len(first) \in Nat /\ DOMAIN first = 1 .. Len(first)
    <2>1. 1 \in DOMAIN traffic[n].ends
      BY IdsOfType
    <2> QED
      BY <2>1, FramesAreInTheText, LenProperties
  <1>2. /\ \E i \in PlacesOf(first, {TypeLine.multipart}) : \A j \in types : i <= j
        /\ PlacesOf(first, {Get}) = {}
        /\ PlacesOf(first, {RequestLength}) # {} /\ PlacesOf(first, {PartLength}) = {}
        /\ traffic[n].lengths[RequestLength] = Len(body) /\ Len(body) < U16
    BY DEF Assembles
  <1>3. Len(body) \in Nat /\ U16 \in Nat /\ MAX_BUF_LEN \in Nat /\ U16 + 3 <= MAX_BUF_LEN
    BY BodyBytes, LenProperties, AssemblyAssumption
  <1> HIDE DEF first, body
  <1>4. ContentType(first) # "unknown"
    <2>1. PICK i \in PlacesOf(first, {TypeLine.multipart}) : \A j \in types : i <= j
      BY <1>2
    <2>2. i \in types /\ first[i] = TypeLine.multipart /\ i \in Nat /\ types \in SUBSET Nat
      <3>1. \A lines : PlacesOf(first, lines) \in SUBSET Nat
        BY <1>1 DEF PlacesOf
      <3>2. TypeLine.multipart \in TypeLines
        BY DEF TypeLines, TypeLine
      <3>3. i \in DOMAIN first /\ first[i] = TypeLine.multipart
        BY <2>1 DEF PlacesOf
      <3>4. i \in types
        BY <3>2, <3>3 DEF PlacesOf
      <3> QED
        BY <3>1, <3>3, <3>4
    <2>3. Min(types) = i
      BY <2>1, <2>2, MinIs
    <2>4. ~Protected(first, i)
      BY <1>2 DEF Protected
    <2>5. ContentType(first) = CHOOSE t \in DOMAIN TypeLine : TypeLine[t] = first[i]
      BY <2>2, <2>3, <2>4 DEF ContentType
    <2>6. \E t \in DOMAIN TypeLine : TypeLine[t] = first[i]
      BY <2>2 DEF TypeLine
    <2>7. TypeLine["unknown"] # first[i]
      BY <2>2 DEF TypeLine
    <2> QED
      BY <2>5, <2>6, <2>7
  <1>5. ContentLength(first) = RequestLength
    <2>1. lens # {} /\ \A i \in lens : first[i] = RequestLength
      BY <1>2 DEF PlacesOf, LengthLines
    <2>2. lens \in SUBSET (0 .. Len(first))
      BY <1>1 DEF PlacesOf
    <2>3. Max(lens) \in lens
      BY <1>1, <2>1, <2>2, MaxIsIn
    <2> QED
      BY <2>1, <2>3 DEF ContentLength
  <1>6. ContentLen(<<n, 1>>) = Len(body)
    BY <1>2, <1>5 DEF ContentLen, NoLine, RequestLength, first
  <1>7. ContentLen(<<n, 1>>) < MAX_BUF_LEN
    BY <1>2, <1>3, <1>6
  <1> QED
    BY <1>2, <1>3, <1>4, <1>6, <1>7 DEF Opens, first, body

\* RecvStart takes what the first frame has of the body.
LEMMA FirstFrameTaken ==
  ASSUME traffic \in Connections, NEW n \in DOMAIN traffic, Assembles(n),
         NEW trailer \in Trailers, StartCnt(Data(<<n, 1>>), trailer) >= 0
  PROVE  LET first == Taken(Data(<<n, 1>>), trailer)
             len   == traffic[n].ends[1] - traffic[n].headerLen
         IN  /\ len \in 0 .. Len(BodyOf(traffic[n]))
             /\ first \in Seq(Byte) /\ Len(first) = len
             /\ \A p \in 1 .. len : first[p] = BodyOf(traffic[n])[p]
  <1> DEFINE data == Data(<<n, 1>>)
             text == traffic[n].text
             head == traffic[n].headerLen
             upto == traffic[n].ends[1]
             body == BodyOf(traffic[n])
             at   == StartAt(data, trailer)
             cnt  == StartCnt(data, trailer)
             found == MarkersIn(data \o trailer, Len(data), Delimiter)
             first == Taken(data, trailer)
  <1>1. /\ upto \in 0 .. Len(text) /\ data \in Seq(Byte) /\ Len(data) = upto
        /\ \A p \in 1 .. upto : data[p] = text[p]
    <2> DEFINE from == StartOf(traffic[n].ends, 1)
    <2>1. 1 \in DOMAIN traffic[n].ends /\ from = 0
      BY IdsOfType DEF StartOf
    <2>2. /\ upto \in 0 .. Len(text) /\ data \in Seq(Byte) /\ Len(data) = upto - from
          /\ \A p \in 1 .. upto - from : data[p] = text[from + p]
      BY <2>1, FramesAreInTheText
    <2> HIDE DEF data, text, upto, from
    <2>3. upto \in Int
      BY <2>2
    <2> QED
      BY <2>1, <2>2, <2>3
  <1>2. /\ head \in Nat /\ head >= 4 /\ head <= Len(text)
        /\ body \in Seq(Byte) /\ Len(body) = Len(text) - head
        /\ \A p \in 1 .. Len(text) - head : body[p] = text[head + p]
    BY BodyBytes
  <1>3. Len(text) \in Nat /\ upto \in Nat
    BY <1>1, RequestType, LenProperties DEF Request
  <1>4. /\ \/ found = {head - 2}
           \/ found = {} /\ Len(data) = head
        /\ Len(body) < U16
    BY DEF Assembles
  <1>5. MAX_BUF_LEN \in Nat /\ U16 \in Nat /\ U16 + 3 <= MAX_BUF_LEN
    BY AssemblyAssumption
  <1>6. cnt >= 0
    OBVIOUS
  <1>7. at = LastMarker(data \o trailer, Len(data), Delimiter)
    BY DEF StartAt
  <1>8. CASE found = {} /\ Len(data) = head
    <2>1. at = 0
      BY <1>7, <1>8 DEF LastMarker
    <2>2. first = <<>>
      BY <2>1 DEF Taken
    <2>3. upto - head = 0
      BY <1>1, <1>2, <1>3, <1>8
    <2>4. /\ upto - head \in 0 .. Len(body)
          /\ \A p \in 1 .. upto - head : first[p] = body[p]
      BY <1>2, <1>3, <2>3
    <2> QED
      BY <2>2, <2>3, <2>4, EmptySeq
  <1>9. CASE found = {head - 2}
    <2>1. at = head - 2
      <3>1. head - 2 \in found /\ \A i \in found : i <= head - 2
        BY <1>2, <1>9
      <3>2. Len(data) \in Nat
        BY <1>1, LenProperties
      <3> QED
        BY <1>7, <3>1, <3>2, LastMarkerIs
    <2> HIDE DEF at, head
    <2>2. at # 0 /\ at + 2 = head /\ at + 3 = head + 1
      BY <1>2, <2>1
    <2>3. cnt = Min({upto - head, MAX_BUF_LEN})
      BY <1>1, <2>2 DEF StartCnt, at
    <2>4. first = SubSeq(data, head + 1, head + cnt)
      BY <2>2 DEF Taken, at
    <2> HIDE DEF cnt, first, data, text, head, upto, body, at, found
    <2>5. upto - head <= Len(body) /\ Len(body) < MAX_BUF_LEN /\ upto - head \in Int
      BY <1>1, <1>2, <1>3, <1>4, <1>5
    <2>6. cnt = upto - head
      <3> DEFINE rest == upto - head
      <3>1. rest \in Int /\ rest < MAX_BUF_LEN /\ cnt = Min({rest, MAX_BUF_LEN})
        BY <1>2, <1>3, <1>5, <2>3, <2>5
      <3> HIDE DEF rest
      <3>2. Min({rest, MAX_BUF_LEN}) \in {rest, MAX_BUF_LEN} /\ Min({rest, MAX_BUF_LEN}) <= rest
        <4>1. MAX_BUF_LEN \in Int
          BY <1>5
        <4> QED
          BY <3>1, <4>1, MinOfTwo
      <3>3. cnt = rest
        BY <1>5, <3>1, <3>2
      <3> QED
        BY <3>3 DEF rest
    <2>7. cnt \in 0 .. Len(body) /\ head + cnt = upto
      BY <1>2, <1>3, <1>6, <2>5, <2>6
    <2>8. /\ first \in Seq(Byte)
          /\ Len(first) = IF head + 1 <= upto THEN upto - (head + 1) + 1 ELSE 0
          /\ \A p \in 1 .. upto - (head + 1) + 1 : first[p] = data[(head + 1) + p - 1]
      <3>1. \A p \in head + 1 .. upto : data[p] \in Byte
        <4>1. \A p \in head + 1 .. upto : p \in 1 .. Len(data)
          BY <1>1, <1>2, <1>3
        <4> QED
          BY <1>1, <4>1, ElementOfSeq
      <3>2. head + 1 \in Int /\ upto \in Int /\ first = SubSeq(data, head + 1, upto)
        <4>1. head + 1 \in Int /\ upto \in Int
          BY <1>2, <1>3
        <4> QED
          BY <2>4, <2>7, <4>1
      <3> QED
        BY <3>1, <3>2, SubSeqProperties
    <2>9. Len(first) = upto - head
      BY <1>2, <1>3, <2>6, <2>7, <2>8
    <2>10. \A p \in 1 .. upto - head : first[p] = body[p]
      <3> SUFFICES ASSUME NEW p \in 1 .. upto - head PROVE first[p] = body[p]
        OBVIOUS
      <3>1. /\ p \in 1 .. upto - (head + 1) + 1 /\ (head + 1) + p - 1 = head + p
            /\ head + p \in 1 .. upto /\ p \in 1 .. Len(text) - head
        BY <1>1, <1>2, <1>3
      <3>2. first[p] = data[head + p]
        BY <2>8, <3>1
      <3> QED
        BY <1>1, <1>2, <3>1, <3>2
    <2> QED
      BY <2>6, <2>7, <2>8, <2>9, <2>10 DEF first, data, text, head, upto, body
  <1> QED
    BY <1>4, <1>8, <1>9

-----------------------------------------------------------------------------
(* The invariant. *)

\* TypeOK's parts, with the node's type by its name.
LEMMA TypeParts ==
  TypeOK <=> /\ arrived \subseteq FrameIds /\ duplicates \in 0 .. MaxDuplicates
             /\ isOpen \in BOOLEAN /\ cache \in Node
             /\ seen \in Seq(FrameIds) /\ (isOpen => seen # <<>>)
             /\ DOMAIN own \subseteq 0 .. MAX_BUF_LEN - 1
             /\ \A i \in DOMAIN own : own[i] \in arrived
             /\ sent \in Seq(Seq(Byte)) /\ used \in Seq(SUBSET arrived)
             /\ aborted \in BOOLEAN
  BY DEF TypeOK, Node, Bytes

LEMMA InitAssemblyInv == Init => AssemblyInv
  <1> SUFFICES ASSUME Init PROVE AssemblyInv
    OBVIOUS
  <1>1. /\ U16 \in Nat \ {0} /\ MAX_BUF_LEN \in Nat /\ MaxDuplicates \in Nat
    BY AssemblyAssumption
  <1>2. cache \in Node
    BY <1>1 DEF Init, Node, Bytes, Byte, Other
  <1>3. seen \in Seq(FrameIds) /\ sent \in Seq(Seq(Byte))
    BY EmptySeq DEF Init
  <1>4. /\ arrived \subseteq FrameIds /\ isOpen = FALSE /\ aborted = FALSE
        /\ DOMAIN own = {} /\ DOMAIN used = {} /\ used \in Seq(SUBSET arrived)
    BY EmptySeq DEF Init
  <1>5. duplicates \in 0 .. MaxDuplicates
    BY <1>1 DEF Init
  <1>6. TypeOK
    BY <1>2, <1>3, <1>4, <1>5, TypeParts
  <1> QED
    BY <1>4, <1>6 DEF Init, AssemblyInv, OwnsWhatItCounts, OwnIsUnused, NoBodyTwice

LEMMA ArrivesType ==
  ASSUME AssemblyInv, NEW id \in FrameIds, Arrives(id)
  PROVE  /\ traffic' = traffic /\ traffic' \in Connections /\ FrameIds' = FrameIds
         /\ arrived' \subseteq FrameIds' /\ duplicates' \in 0 .. MaxDuplicates
         /\ aborted' \in BOOLEAN
         /\ arrived \subseteq arrived' /\ id \in arrived'
  <1>1. duplicates \in Nat /\ MaxDuplicates \in Nat
    BY AssemblyAssumption DEF AssemblyInv, TypeOK
  <1>2. traffic' = traffic /\ FrameIds' = FrameIds
    BY DEF Arrives, FrameIds
  <1>3. duplicates' \in 0 .. MaxDuplicates
    BY <1>1 DEF Arrives
  <1> QED
    BY <1>2, <1>3 DEF Arrives, AssemblyInv, TypeOK

\* While no frame has come again, the one that comes is new.
LEMMA FirstArrival ==
  ASSUME AssemblyInv, NEW id \in FrameIds, Arrives(id), duplicates' = 0
  PROVE  duplicates = 0 /\ id \notin arrived
  BY AssemblyAssumption DEF Arrives, AssemblyInv, TypeOK

\* Messages that are there when a frame arrives.
LEMMA UsedStays ==
  ASSUME AssemblyInv, NEW id \in FrameIds, Arrives(id), UNCHANGED used
  PROVE  used' \in Seq(SUBSET arrived') /\ NoBodyTwice'
  <1>1. used \in Seq(SUBSET arrived)
    BY DEF AssemblyInv, TypeOK
  <1>2. /\ Len(used) \in Nat /\ DOMAIN used = 1 .. Len(used)
        /\ used = [i \in 1 .. Len(used) |-> used[i]]
        /\ \A i \in 1 .. Len(used) : used[i] \in SUBSET arrived
    BY <1>1, LenProperties, ElementOfSeq
  <1>3. \A i \in 1 .. Len(used) : used[i] \in SUBSET arrived'
    BY <1>2, ArrivesType
  <1>4. used \in Seq(SUBSET arrived')
    <2> DEFINE n == Len(used)
    <2> HIDE DEF n
    <2>1. used \in [1 .. n -> SUBSET arrived']
      BY <1>2, <1>3 DEF n
    <2> QED
      BY <1>2, <2>1, SeqDef DEF n
  <1>5. NoBodyTwice'
    BY FirstArrival DEF AssemblyInv, NoBodyTwice
  <1> QED
    BY <1>4, <1>5

\* A message whose frames are in no earlier one.
LEMMA UsedGrows ==
  ASSUME AssemblyInv, NEW id \in FrameIds, Arrives(id),
         NEW frames \in SUBSET arrived', used' = Append(used, frames),
         duplicates' = 0 => \A j \in DOMAIN used : frames \intersect used[j] = {}
  PROVE  used' \in Seq(SUBSET arrived') /\ NoBodyTwice'
  <1> DEFINE n == Len(used)
  <1>1. used \in Seq(SUBSET arrived)
    BY DEF AssemblyInv, TypeOK
  <1>2. /\ n \in Nat /\ DOMAIN used = 1 .. n
        /\ \A i \in 1 .. n : used[i] \in SUBSET arrived
    BY <1>1, LenProperties, ElementOfSeq
  <1>3. /\ DOMAIN used' = 1 .. n + 1 /\ used'[n + 1] = frames
        /\ \A i \in 1 .. n : used'[i] = used[i]
        /\ used' \in Seq(UNION {SUBSET arrived, {frames}})
    <2>1. used \in Seq(UNION {SUBSET arrived, {frames}})
      <3>1. used \in [1 .. n -> UNION {SUBSET arrived, {frames}}]
        BY <1>1, <1>2, LenProperties
      <3> HIDE DEF n
      <3> QED
        BY <1>2, <3>1, SeqDef
    <2> QED
      BY <1>2, <2>1, AppendProperties, LenProperties
  <1>4. used' \in Seq(SUBSET arrived')
    <2>1. n + 1 \in Nat
      BY <1>2
    <2>2. \A i \in 1 .. n + 1 : used'[i] \in SUBSET arrived'
      <3> SUFFICES ASSUME NEW i \in 1 .. n + 1 PROVE used'[i] \in SUBSET arrived'
        OBVIOUS
      <3>1. i \in 1 .. n \/ i = n + 1
        BY <1>2
      <3> HIDE DEF n
      <3> QED
        BY <1>2, <1>3, <3>1, ArrivesType
    <2>3. used' = [i \in 1 .. n + 1 |-> used'[i]]
      BY <1>3, LenProperties
    <2> HIDE DEF n
    <2>4. used' \in [1 .. n + 1 -> SUBSET arrived']
      BY <2>2, <2>3
    <2> QED
      BY <2>1, <2>4, SeqDef
  <1>5. NoBodyTwice'
    <2> SUFFICES ASSUME duplicates' = 0, NEW i \in DOMAIN used', NEW j \in DOMAIN used',
                        i # j
                 PROVE  used'[i] \intersect used'[j] = {}
      BY DEF NoBodyTwice
    <2>1. /\ \A k, m \in 1 .. n : k # m => used[k] \intersect used[m] = {}
          /\ \A k \in 1 .. n : frames \intersect used[k] = {}
      BY <1>2, FirstArrival DEF AssemblyInv, NoBodyTwice
    <2>2. /\ i \in 1 .. n \/ i = n + 1
          /\ j \in 1 .. n \/ j = n + 1
      BY <1>2, <1>3
    <2> HIDE DEF n
    <2> QED
      BY <1>3, <2>1, <2>2
  <1> QED
    BY <1>4, <1>5

LEMMA NotedType ==
  ASSUME AssemblyInv, NEW id \in FrameIds
  PROVE  Noted(id) \in Seq(FrameIds) /\ Noted(id) # <<>>
  <1>1. seen \in Seq(FrameIds)
    BY DEF AssemblyInv, TypeOK
  <1>2. /\ Append(seen, id) \in Seq(FrameIds)
        /\ Len(Append(seen, id)) = Len(seen) + 1 /\ Len(seen) \in Nat
    BY <1>1, AppendProperties, LenProperties
  <1>3. Append(seen, id) # <<>>
    BY <1>2, EmptySeq
  <1> QED
    BY <1>2, <1>3 DEF Noted

LEMMA IgnoreFrameStep ==
  ASSUME AssemblyInv, NEW id \in FrameIds, IgnoreFrame(id)
  PROVE  AssemblyInv'
  <1>1. /\ Arrives(id) /\ seen' = Noted(id)
        /\ UNCHANGED <<isOpen, cache, own, sent, used, done>>
    BY DEF IgnoreFrame
  <1>2. used' \in Seq(SUBSET arrived') /\ NoBodyTwice'
    BY <1>1, UsedStays
  <1>3. TypeOK'
    BY <1>1, <1>2, ArrivesType, NotedType DEF AssemblyInv, TypeOK
  <1>4. OwnsWhatItCounts' /\ OwnIsUnused'
    BY <1>1, FirstArrival DEF AssemblyInv, OwnsWhatItCounts, OwnIsUnused
  <1> QED
    BY <1>1, <1>2, <1>3, <1>4, ArrivesType DEF AssemblyInv

LEMMA NoFlowStep ==
  ASSUME AssemblyInv, NEW id \in FrameIds, NoFlow(id)
  PROVE  AssemblyInv'
  <1>1. /\ Arrives(id) /\ seen' = Noted(id) /\ PassOn(id) /\ ~isOpen
        /\ UNCHANGED <<isOpen, cache, own, done>>
    BY DEF NoFlow
  <1>2. sent' \in Seq(Seq(Byte))
    <2>1. sent \in Seq(Seq(Byte)) /\ Data(id) \in Seq(Byte)
      BY FrameType DEF AssemblyInv, TypeOK
    <2>2. sent' = sent \/ sent' = Append(sent, Data(id))
      BY <1>1 DEF PassOn
    <2> QED
      BY <2>1, <2>2, AppendProperties
  <1>3. used' \in Seq(SUBSET arrived') /\ NoBodyTwice'
    <2>1. CASE UNCHANGED used
      BY <1>1, <2>1, UsedStays
    <2>2. CASE used' = Append(used, {id})
      <3>1. {id} \in SUBSET arrived'
        BY <1>1, ArrivesType
      <3>2. \A j \in DOMAIN used : used[j] \subseteq arrived
        BY ElementOfSeq, LenProperties DEF AssemblyInv, TypeOK
      <3>3. duplicates' = 0 => \A j \in DOMAIN used : {id} \intersect used[j] = {}
        BY <1>1, <3>2, FirstArrival
      <3> QED
        BY <1>1, <2>2, <3>1, <3>3, UsedGrows
    <2> QED
      BY <1>1, <2>1, <2>2 DEF PassOn
  <1>4. TypeOK'
    BY <1>1, <1>2, <1>3, ArrivesType, NotedType DEF AssemblyInv, TypeOK
  <1>5. OwnsWhatItCounts' /\ OwnIsUnused'
    BY <1>1 DEF OwnsWhatItCounts, OwnIsUnused
  <1> QED
    BY <1>1, <1>3, <1>4, <1>5, ArrivesType DEF AssemblyInv

LEMMA OpenFlowStep ==
  ASSUME AssemblyInv, NEW id \in FrameIds, NEW trailer \in Trailers,
         OpenFlow(id, trailer)
  PROVE  AssemblyInv'
  <1> DEFINE first == Taken(Data(id), trailer)
  <1>1. /\ first \in Seq(Byte) /\ Len(first) \in 0 .. MAX_BUF_LEN
    BY FrameType, TakenType DEF AssemblyInv, OpenFlow
  <1>2. ContentLen(id) \in Int
    BY ContentLenType DEF AssemblyInv
  <1>3. /\ cache' = [cLen    |-> ContentLen(id) % U16,
                     usedCnt |-> Len(first) % U16,
                     data    |-> CopyTo(Terminated(cache.data), 0, first)]
        /\ isOpen' = TRUE /\ own' = [i \in 0 .. Len(first) - 1 |-> id]
        /\ seen' = <<id>> /\ sent' = sent /\ used' = used /\ Arrives(id)
    BY DEF OpenFlow
  <1> HIDE DEF first
  <1>4. MAX_BUF_LEN \in Nat /\ Len(first) \in Nat /\ Len(first) <= MAX_BUF_LEN
    BY <1>1, AssemblyAssumption
  <1>5. CopyTo(Terminated(cache.data), 0, first) \in Bytes
    <2>1. Terminated(cache.data) \in Bytes
      BY TypeParts, TerminatedType DEF AssemblyInv, Node
    <2>2. 0 \in Nat /\ 0 + Len(first) <= MAX_BUF_LEN
      BY <1>4
    <2> QED
      BY <1>1, <2>1, <2>2, CopyToType
  <1>6. cache' \in Node
    BY <1>2, <1>3, <1>4, <1>5, Mod16 DEF Node
  <1>7. <<id>> \in Seq(FrameIds') /\ <<id>> # <<>>
    BY <1>3, ArrivesType
  <1>8. /\ DOMAIN own' \subseteq 0 .. MAX_BUF_LEN - 1
        /\ \A i \in DOMAIN own' : own'[i] = id
    BY <1>3, <1>4
  <1>9. used' \in Seq(SUBSET arrived') /\ NoBodyTwice'
    BY <1>3, UsedStays
  <1>10. TypeOK'
    BY <1>3, <1>6, <1>7, <1>8, <1>9, ArrivesType DEF AssemblyInv, TypeOK, Node, Bytes
  <1>11. OwnsWhatItCounts'
    <2>1. Len(first) >= 0 /\ Len(first) % U16 <= Len(first) /\ Len(first) % U16 \in 0 .. U16 - 1
      BY <1>4, Mod16
    <2> QED
      BY <1>3, <1>4, <2>1, AssemblyAssumption DEF OwnsWhatItCounts
  <1>12. OwnIsUnused'
    <2>1. \A j \in DOMAIN used : used[j] \subseteq arrived
      BY ElementOfSeq, LenProperties DEF AssemblyInv, TypeOK
    <2> QED
      BY <1>3, <1>8, <2>1, FirstArrival DEF OwnIsUnused
  <1> QED
    BY <1>3, <1>9, <1>10, <1>11, <1>12, ArrivesType DEF AssemblyInv

\* A frame added to a flow that counts only its own bytes leaves it so.
LEMMA AddedIsOwn ==
  ASSUME AssemblyInv, isOpen, NEW id \in FrameIds
  PROVE  /\ DOMAIN OwnAfter(id) \subseteq 0 .. MAX_BUF_LEN - 1
         /\ 0 .. UsedAfter(Data(id)) - 1 \subseteq DOMAIN OwnAfter(id)
  <1> DEFINE cnt == SliceCnt(Data(id))
  <1>1. cache \in Node /\ Data(id) \in Seq(Byte) /\ Len(Data(id)) \in Nat
    BY FrameType, TypeParts DEF AssemblyInv
  <1>2. /\ cnt \in 0 .. Len(Data(id))
        /\ cache.usedCnt + cnt \in 0 .. MAX_BUF_LEN
        /\ UsedAfter(Data(id)) \in 0 .. U16 - 1
        /\ UsedAfter(Data(id)) <= cache.usedCnt + cnt
    BY <1>1, SliceFits
  <1>3. AddedAt(Data(id)) = cache.usedCnt .. cache.usedCnt + cnt - 1
    BY DEF AddedAt
  <1> HIDE DEF cnt
  <1> DEFINE old == DOMAIN own
  <1>4. /\ old \subseteq 0 .. MAX_BUF_LEN - 1
        /\ 0 .. cache.usedCnt - 1 \subseteq old
        /\ cache.usedCnt \in Nat /\ MAX_BUF_LEN \in Nat /\ U16 \in Nat
    BY <1>1, AssemblyAssumption DEF AssemblyInv, TypeOK, OwnsWhatItCounts, Node
  <1> DEFINE from == cache.usedCnt
             more == from .. from + cnt - 1
  <1>5. more \subseteq 0 .. MAX_BUF_LEN - 1
    BY <1>1, <1>2, <1>4
  <1>6. 0 .. UsedAfter(Data(id)) - 1 \subseteq old \union more
    <2> SUFFICES ASSUME NEW i \in 0 .. UsedAfter(Data(id)) - 1
                 PROVE  i \in old \union more
      OBVIOUS
    <2>1. i \in 0 .. from - 1 \/ i \in more
      BY <1>1, <1>2, <1>4
    <2> HIDE DEF from, more
    <2>2. 0 .. from - 1 \subseteq old
      BY <1>4 DEF from
    <2> QED
      BY <2>1, <2>2
  <1>7. DOMAIN OwnAfter(id) = old \union more
    BY <1>3 DEF OwnAfter
  <1> QED
    BY <1>4, <1>5, <1>6, <1>7

\* The frames in the node then have arrived, and, unless one has come again, are
\* in no message.
LEMMA AddedIsUnused ==
  ASSUME AssemblyInv, isOpen, NEW id \in FrameIds, Arrives(id)
  PROVE  \A i \in DOMAIN OwnAfter(id) :
           /\ OwnAfter(id)[i] \in arrived'
           /\ duplicates' = 0 => \A j \in DOMAIN used : OwnAfter(id)[i] \notin used[j]
  <1> SUFFICES ASSUME NEW i \in DOMAIN OwnAfter(id)
               PROVE  /\ OwnAfter(id)[i] \in arrived'
                      /\ duplicates' = 0 =>
                           \A j \in DOMAIN used : OwnAfter(id)[i] \notin used[j]
    OBVIOUS
  <1>1. OwnAfter(id)[i] = id \/ (i \in DOMAIN own /\ OwnAfter(id)[i] = own[i])
    BY DEF OwnAfter
  <1>2. \A j \in DOMAIN used : used[j] \subseteq arrived
    BY ElementOfSeq, LenProperties DEF AssemblyInv, TypeOK
  <1>3. CASE OwnAfter(id)[i] = id
    BY <1>2, <1>3, ArrivesType, FirstArrival
  <1>4. CASE i \in DOMAIN own /\ OwnAfter(id)[i] = own[i]
    BY <1>4, ArrivesType, FirstArrival DEF AssemblyInv, TypeOK, OwnIsUnused
  <1> QED
    BY <1>1, <1>3, <1>4

LEMMA AppendFrameStep ==
  ASSUME AssemblyInv, NEW id \in FrameIds, AppendFrame(id)
  PROVE  AssemblyInv'
  <1>1. cache \in Node /\ Data(id) \in Seq(Byte)
    BY FrameType, TypeParts DEF AssemblyInv
  <1>2. /\ cache' \in Node /\ cache'.usedCnt = UsedAfter(Data(id))
    BY <1>1, AddedType DEF AppendFrame
  <1>3. /\ Arrives(id) /\ isOpen /\ isOpen' = isOpen /\ seen' = Noted(id)
        /\ own' = OwnAfter(id) /\ sent' = sent /\ used' = used
    BY DEF AppendFrame
  <1>4. OwnsWhatItCounts' /\ DOMAIN own' \subseteq 0 .. MAX_BUF_LEN - 1
    BY <1>2, <1>3, AddedIsOwn DEF OwnsWhatItCounts
  <1>5. OwnIsUnused' /\ \A i \in DOMAIN own' : own'[i] \in arrived'
    BY <1>3, AddedIsUnused DEF OwnIsUnused
  <1>6. used' \in Seq(SUBSET arrived') /\ NoBodyTwice'
    BY <1>3, UsedStays
  <1>7. TypeOK'
    BY <1>2, <1>3, <1>4, <1>5, <1>6, ArrivesType, NotedType
       DEF AssemblyInv, TypeOK, Node, Bytes
  <1> QED
    BY <1>3, <1>4, <1>5, <1>6, <1>7, ArrivesType DEF AssemblyInv

LEMMA CompleteFlowStep ==
  ASSUME AssemblyInv, NEW id \in FrameIds, CompleteFlow(id)
  PROVE  AssemblyInv'
  <1> DEFINE full == Added(Data(id))
             span == MessageSpan(full.data, full.usedCnt)
  <1>1. cache \in Node /\ Data(id) \in Seq(Byte)
    BY FrameType, TypeParts DEF AssemblyInv
  <1>2. full \in Node /\ full.data \in Bytes /\ full.usedCnt \in 0 .. MAX_BUF_LEN
    BY <1>1, AddedType, AssemblyAssumption DEF Node
  <1>3. /\ Arrives(id) /\ isOpen /\ isOpen' = FALSE /\ seen' = <<>>
        /\ cache' = IF span = NoSpan THEN full
                    ELSE [cLen |-> 0, usedCnt |-> 0, data |-> Terminated(full.data)]
        /\ sent' = IF span = NoSpan THEN sent
                   ELSE Append(sent, MessageIn(full.data, span))
        /\ used' = IF span = NoSpan THEN used
                   ELSE Append(used, FramesIn(OwnAfter(id), span))
        /\ own' = OwnAfter(id)
    BY DEF CompleteFlow
  <1>4. MessageIn(full.data, span) \in Seq(Byte)
    BY <1>2, MessageInType
  <1> HIDE DEF full
  <1>5. cache' \in Node
    BY <1>2, <1>3, ClearedType
  <1> HIDE DEF span
  <1>6. sent' \in Seq(Seq(Byte))
    BY <1>3, <1>4, AppendProperties DEF AssemblyInv, TypeOK
  <1>7. /\ DOMAIN own' \subseteq 0 .. MAX_BUF_LEN - 1
        /\ \A i \in DOMAIN own' : own'[i] \in arrived'
    BY <1>3, AddedIsOwn, AddedIsUnused
  <1>8. seen' \in Seq(FrameIds')
    BY <1>3, EmptySeq
  <1>9. used' \in Seq(SUBSET arrived') /\ NoBodyTwice'
    <2>1. CASE used' = used
      BY <1>3, <2>1, UsedStays
    <2>2. CASE used' = Append(used, FramesIn(OwnAfter(id), span))
      <3> DEFINE frames == FramesIn(OwnAfter(id), span)
      <3>1. \A f \in frames : \E i \in DOMAIN OwnAfter(id) : f = OwnAfter(id)[i]
        BY DEF FramesIn
      <3>2. frames \in SUBSET arrived'
        BY <1>3, <3>1, AddedIsUnused
      <3>3. duplicates' = 0 => \A j \in DOMAIN used : frames \intersect used[j] = {}
        BY <1>3, <3>1, AddedIsUnused
      <3> HIDE DEF frames
      <3>4. used' = Append(used, frames)
        BY <2>2 DEF frames
      <3> QED
        BY <1>3, <3>2, <3>3, <3>4, UsedGrows
    <2> QED
      BY <1>3, <2>1, <2>2
  <1>10. TypeOK'
    BY <1>3, <1>5, <1>6, <1>7, <1>8, <1>9, ArrivesType DEF TypeOK, Node, Bytes
  <1> QED
    BY <1>3, <1>9, <1>10, ArrivesType DEF AssemblyInv, OwnsWhatItCounts, OwnIsUnused

\* A message lies within the bytes counted, which are the flow's own.
LEMMA CompleteFlowOwns ==
  ASSUME AssemblyInv, NEW id \in FrameIds, CompleteFlow(id)
  PROVE  LET full == Added(Data(id))
             span == MessageSpan(full.data, full.usedCnt)
         IN  span # NoSpan => span.from .. span.upto - 1 \subseteq DOMAIN own'
  <1> DEFINE full == Added(Data(id))
             span == MessageSpan(full.data, full.usedCnt)
  <1>1. cache \in Node /\ Data(id) \in Seq(Byte)
    BY FrameType, TypeParts DEF AssemblyInv
  <1>2. full.usedCnt = UsedAfter(Data(id)) /\ full.usedCnt \in Nat
    BY <1>1, AddedType, AssemblyAssumption DEF Node
  <1>3. 0 .. full.usedCnt - 1 \subseteq DOMAIN own'
    BY <1>2, AddedIsOwn DEF CompleteFlow
  <1>4. span.from \in Nat /\ span.upto \in 0 .. full.usedCnt
    BY <1>2, SpanIsCounted
  <1> HIDE DEF full, span
  <1>5. span.from .. span.upto - 1 \subseteq 0 .. full.usedCnt - 1
    BY <1>2, <1>4
  <1>6. span.from .. span.upto - 1 \subseteq DOMAIN own'
    BY <1>3, <1>5
  <1> QED
    BY <1>6 DEF full, span

LEMMA AssemblyInvHolds == Spec => []AssemblyInv
  <1>1. AssemblyInv /\ [Next]_avars => AssemblyInv'
    <2> SUFFICES ASSUME AssemblyInv, [Next]_avars PROVE AssemblyInv'
      OBVIOUS
    <2> USE DEF AssemblyInv, TypeOK, OwnsWhatItCounts, OwnIsUnused, NoBodyTwice
    <2>1. CASE Evict
      BY <2>1, EmptySeq DEF Evict, network, FrameIds
    <2>2. ASSUME NEW id \in FrameIds, NEW trailer \in Trailers,
                 OpenFaulted(id, trailer)
          PROVE  AssemblyInv'
      BY <2>2 DEF OpenFaulted, network, FrameIds
    <2>3. CASE UNCHANGED avars
      BY <2>3 DEF avars, network, FrameIds
    <2> HIDE DEF AssemblyInv, TypeOK, OwnsWhatItCounts, OwnIsUnused, NoBodyTwice
    <2> QED
      BY <2>1, <2>2, <2>3, IgnoreFrameStep, NoFlowStep, OpenFlowStep, AppendFrameStep,
         CompleteFlowStep
         DEF Next, HandleFrame
  <1> QED
    BY InitAssemblyInv, <1>1, PTL DEF Spec

-----------------------------------------------------------------------------
(* A request whose frames come in order. *)

\* A node holds the first len bytes of a request's body, and counts them.
HoldsStartOf(node, n, len) ==
  node.usedCnt = len /\ \A p \in 1 .. len : node.data[p] = BodyOf(traffic[n])[p]

\* How much of its body has come with the frames that are seen.
SoFar(n) == traffic[n].ends[Len(seen)] - traffic[n].headerLen

\* While only the first frames of a request that can be put together are seen, its
\* flow is open, waits for the whole body, and holds what has come of it.
OrderlySoFar ==
  \A n \in DOMAIN traffic :
    seen # <<>> /\ IsPrefix(seen, IdsOf(n)) /\ Assembles(n) =>
      /\ isOpen /\ Len(seen) < Len(traffic[n].ends)
      /\ cache.cLen = Len(BodyOf(traffic[n])) /\ HoldsStartOf(cache, n, SoFar(n))

\* What CompleteFlow has left of the last flow it closed.
OrderlyDone ==
  \A n \in DOMAIN traffic :
    done.frames # <<>> /\ IsPrefix(done.frames, IdsOf(n)) /\ Assembles(n) =>
      /\ done.frames = IdsOf(n)
      /\ done.behind \notin {Hyphens, CRLF} =>
           done.message = MessageIn(BodyOf(traffic[n]), traffic[n].content)

OrderlyInv == OrderlySoFar /\ OrderlyDone

LEMMA RequestsStay ==
  ASSUME traffic' = traffic, NEW n \in DOMAIN traffic
  PROVE  IdsOf(n)' = IdsOf(n) /\ Assembles(n)' = Assembles(n)
  BY DEF IdsOf, Assembles, Accepted, Data, ContentLen

\* Before a flow is open, only a first frame can make what is seen the beginning
\* of a request that can be put together.
LEMMA StartsWithFirst ==
  ASSUME AssemblyInv, OrderlySoFar, ~isOpen, NEW id \in FrameIds,
         NEW n \in DOMAIN traffic, IsPrefix(Noted(id), IdsOf(n)), Assembles(n)
  PROVE  id = <<n, 1>>
  <1>1. traffic \in Connections /\ seen \in Seq(FrameIds)
    BY DEF AssemblyInv, TypeOK
  <1>2. CASE id[2] = 1
    <2> DEFINE one == <<id>>
    <2>1. one \in Seq(FrameIds) /\ Len(one) = 1 /\ one[1] = id
      OBVIOUS
    <2>2. Noted(id) = one
      BY <1>2 DEF Noted
    <2> HIDE DEF one
    <2>3. \A i \in 1 .. Len(one) : one[i] = <<n, i>>
      BY <1>1, <2>1, <2>2, PrefixOfIds
    <2> QED
      BY <2>1, <2>3
  <1>3. CASE id[2] # 1
    <2>1. IsPrefix(Append(seen, id), IdsOf(n))
      BY <1>3 DEF Noted
    <2>2. IsPrefix(seen, IdsOf(n)) /\ id = <<n, Len(seen) + 1>>
      BY <1>1, <2>1, NextOfPrefix
    <2>3. seen # <<>>
      BY <1>3, <2>2
    <2> QED
      BY <2>2, <2>3 DEF OrderlySoFar
  <1> QED
    BY <1>2, <1>3

\* Every frame that is seen of such a request is accepted.
LEMMA NotedIsAccepted ==
  ASSUME AssemblyInv, NEW id \in FrameIds, OrderlySoFar,
         NEW n \in DOMAIN traffic, IsPrefix(Noted(id), IdsOf(n)), Assembles(n)
  PROVE  Accepted(id)
  <1>1. traffic \in Connections /\ seen \in Seq(FrameIds)
    BY DEF AssemblyInv, TypeOK
  <1>2. \A i \in DOMAIN traffic[n].ends : Accepted(<<n, i>>)
    BY DEF Assembles
  <1>3. CASE ~isOpen
    BY <1>1, <1>2, <1>3, StartsWithFirst, IdsOfType
  <1>4. CASE isOpen
    <2>1. IsPrefix(Append(seen, id), IdsOf(n))
      BY <1>4 DEF Noted
    <2> QED
      BY <1>1, <1>2, <2>1, NextOfPrefix
  <1> QED
    BY <1>3, <1>4

\* The next frame of such a request, added to its flow.
LEMMA NextFrameAdded ==
  ASSUME AssemblyInv, OrderlySoFar, isOpen, NEW id \in FrameIds,
         NEW n \in DOMAIN traffic, IsPrefix(Append(seen, id), IdsOf(n)), Assembles(n)
  PROVE  LET next == Len(seen) + 1
             len  == traffic[n].ends[next] - traffic[n].headerLen
             full == Added(Data(id))
         IN  /\ next \in DOMAIN traffic[n].ends
             /\ len \in 0 .. Len(BodyOf(traffic[n]))
             /\ len = Len(BodyOf(traffic[n])) <=> next = Len(traffic[n].ends)
             /\ UsedAfter(Data(id)) = len /\ HoldsStartOf(full, n, len)
             /\ full \in Node /\ full.cLen = cache.cLen
             /\ cache.cLen = Len(BodyOf(traffic[n]))
  <1> DEFINE k    == Len(seen)
             next == k + 1
             ends == traffic[n].ends
             head == traffic[n].headerLen
             text == traffic[n].text
             body == BodyOf(traffic[n])
             data == Data(id)
             full == Added(data)
             from == ends[k]
             upto == ends[next]
  <1>1. traffic \in Connections /\ seen \in Seq(FrameIds) /\ seen # <<>> /\ cache \in Node
    BY TypeParts DEF AssemblyInv, TypeOK
  <1>2. k \in Nat \ {0}
    BY <1>1, EmptySeq
  <1>3. IsPrefix(seen, IdsOf(n)) /\ id = <<n, next>> /\ next \in DOMAIN ends
    BY <1>1, NextOfPrefix
  <1>4. /\ cache.cLen = Len(body) /\ cache.usedCnt = from - head
        /\ \A p \in 1 .. from - head : cache.data[p] = body[p]
    BY <1>1, <1>3 DEF OrderlySoFar, HoldsStartOf, SoFar
  <1>5. /\ head \in Nat /\ head >= 4 /\ head <= Len(text)
        /\ body \in Seq(Byte) /\ Len(body) = Len(text) - head
        /\ \A p \in 1 .. Len(text) - head : body[p] = text[head + p]
    BY <1>1, BodyBytes
  <1>6. StartOf(ends, next) = from
    <2>1. next # 1 /\ next - 1 = k
      BY <1>2
    <2> HIDE DEF k, next
    <2> QED
      BY <2>1 DEF StartOf
  <1>7. /\ StartOf(ends, next) \in Nat /\ upto \in 0 .. Len(text)
        /\ StartOf(ends, next) <= upto
        /\ upto = Len(text) <=> next = Len(ends)
        /\ Data(<<n, next>>) \in Seq(Byte)
        /\ Len(Data(<<n, next>>)) = upto - StartOf(ends, next)
        /\ \A p \in 1 .. upto - StartOf(ends, next) :
             Data(<<n, next>>)[p] = text[StartOf(ends, next) + p]
    BY <1>1, <1>3, FramesAreInTheText
  <1>8. /\ from \in Nat /\ from <= upto /\ data \in Seq(Byte) /\ Len(data) = upto - from
        /\ \A p \in 1 .. upto - from : data[p] = text[from + p]
    BY <1>3, <1>6, <1>7
  <1>9. Len(text) \in Nat
    BY <1>1, RequestType, LenProperties DEF Request
  <1>10. Len(body) < U16 /\ U16 \in Nat
    BY AssemblyAssumption DEF Assembles
  <1>11. cache.usedCnt \in Nat
    BY <1>1, AssemblyAssumption DEF Node
  <1> HIDE DEF ends, head, text, body, data, from, upto, k, next
  <1>12. /\ from - head \in Nat /\ upto - head \in 0 .. Len(body)
         /\ upto - head = Len(body) <=> upto = Len(text)
         /\ cache.usedCnt + Len(data) = upto - head
    <2>1. /\ from \in Nat /\ head \in Nat /\ upto \in Nat /\ upto <= Len(text)
          /\ from <= upto /\ from - head \in Nat
      BY <1>4, <1>5, <1>7, <1>8, <1>9, <1>11
    <2>2. upto - head \in Nat /\ Len(body) = Len(text) - head /\ Len(body) \in Nat
      BY <1>5, <1>9, <2>1
    <2>3. cache.usedCnt + Len(data) = (from - head) + (upto - from)
      BY <1>4, <1>8
    <2> QED
      BY <1>9, <2>1, <2>2, <2>3
  <1>13. cache.usedCnt + Len(data) < U16
    BY <1>5, <1>9, <1>10, <1>12
  <1>14. /\ UsedAfter(data) = cache.usedCnt + Len(data)
         /\ full \in Node /\ full.cLen = cache.cLen /\ full.usedCnt = UsedAfter(data)
         /\ \A p \in 1 .. cache.usedCnt : full.data[p] = cache.data[p]
         /\ \A p \in 1 .. Len(data) : full.data[cache.usedCnt + p] = data[p]
    BY <1>1, <1>8, <1>13, AddedBytes
  <1> HIDE DEF full
  <1>15. ASSUME NEW p \in 1 .. upto - head PROVE full.data[p] = body[p]
    <2>1. CASE p <= from - head
      <3>1. p \in 1 .. from - head /\ p \in 1 .. cache.usedCnt
        BY <1>4, <1>12, <2>1
      <3> QED
        BY <1>4, <1>14, <3>1
    <2>2. CASE p > from - head
      <3> DEFINE q == p - (from - head)
      <3>1. /\ q \in 1 .. Len(data) /\ q \in 1 .. upto - from
            /\ cache.usedCnt + q = p /\ from + q = head + p
            /\ p \in 1 .. Len(text) - head
        BY <1>4, <1>5, <1>7, <1>8, <1>9, <1>12, <2>2
      <3> HIDE DEF q
      <3>2. full.data[p] = data[q]
        BY <1>14, <3>1
      <3>3. data[q] = text[head + p]
        BY <1>8, <3>1
      <3> QED
        BY <1>5, <3>1, <3>2, <3>3
    <2> QED
      BY <1>12, <2>1, <2>2
  <1>16. HoldsStartOf(full, n, upto - head)
    BY <1>12, <1>14, <1>15 DEF HoldsStartOf, body
  <1> QED
    BY <1>3, <1>4, <1>7, <1>12, <1>14, <1>16 DEF ends, head, body, data, upto, next, k, full

\* OrderlySoFar' with the requests as they are.
LEMMA OrderlyNext ==
  ASSUME traffic' = traffic,
         \A n \in DOMAIN traffic :
           seen' # <<>> /\ IsPrefix(seen', IdsOf(n)) /\ Assembles(n) =>
             /\ isOpen' /\ Len(seen') < Len(traffic[n].ends)
             /\ cache'.cLen = Len(BodyOf(traffic[n]))
             /\ HoldsStartOf(cache', n,
                             traffic[n].ends[Len(seen')] - traffic[n].headerLen)
  PROVE  OrderlySoFar'
  <1> SUFFICES ASSUME NEW n \in DOMAIN traffic',
                      seen' # <<>>, IsPrefix(seen', IdsOf(n)'), Assembles(n)'
               PROVE  /\ isOpen' /\ Len(seen') < Len(traffic'[n].ends)
                      /\ cache'.cLen = Len(BodyOf(traffic'[n]))
                      /\ HoldsStartOf(cache, n, SoFar(n))'
    BY DEF OrderlySoFar
  <1>1. IsPrefix(seen', IdsOf(n)) /\ Assembles(n)
    BY RequestsStay
  <1> QED
    BY <1>1 DEF HoldsStartOf, SoFar

LEMMA DoneStays ==
  ASSUME OrderlyDone, traffic' = traffic, done' = done
  PROVE  OrderlyDone'
  <1> SUFFICES ASSUME NEW n \in DOMAIN traffic', done'.frames # <<>>,
                      IsPrefix(done'.frames, IdsOf(n)'), Assembles(n)'
               PROVE  /\ done'.frames = IdsOf(n)'
                      /\ done'.behind \notin {Hyphens, CRLF} =>
                           done'.message = MessageIn(BodyOf(traffic'[n]), traffic'[n].content)
    BY DEF OrderlyDone
  <1>1. IdsOf(n)' = IdsOf(n) /\ Assembles(n)
    BY RequestsStay
  <1> QED
    BY <1>1 DEF OrderlyDone

LEMMA IgnoreFrameOrderly ==
  ASSUME AssemblyInv, OrderlyInv, NEW id \in FrameIds, IgnoreFrame(id)
  PROVE  OrderlyInv'
  <1>1. /\ traffic' = traffic /\ done' = done /\ ~Accepted(id) /\ seen' = Noted(id)
    BY DEF IgnoreFrame, Arrives
  <1>2. OrderlySoFar'
    BY <1>1, NotedIsAccepted, OrderlyNext DEF OrderlyInv
  <1> QED
    BY <1>1, <1>2, DoneStays DEF OrderlyInv

LEMMA NoFlowOrderly ==
  ASSUME AssemblyInv, OrderlyInv, NEW id \in FrameIds, NoFlow(id)
  PROVE  OrderlyInv'
  <1>1. /\ traffic' = traffic /\ done' = done /\ ~isOpen /\ ~Opens(id)
        /\ seen' = Noted(id)
    BY DEF NoFlow, Arrives
  <1>2. \A n \in DOMAIN traffic : ~(IsPrefix(seen', IdsOf(n)) /\ Assembles(n))
    BY <1>1, StartsWithFirst, FirstFrameOpens DEF OrderlyInv, AssemblyInv
  <1>3. OrderlySoFar'
    BY <1>1, <1>2, OrderlyNext
  <1> QED
    BY <1>1, <1>3, DoneStays DEF OrderlyInv

LEMMA OpenFlowOrderly ==
  ASSUME AssemblyInv, OrderlyInv, NEW id \in FrameIds, NEW trailer \in Trailers,
         OpenFlow(id, trailer)
  PROVE  OrderlyInv'
  <1> DEFINE first == Taken(Data(id), trailer)
             copy  == CopyTo(Terminated(cache.data), 0, first)
  <1>1. /\ traffic' = traffic /\ done' = done /\ isOpen' = TRUE /\ seen' = <<id>>
        /\ cache' = [cLen |-> ContentLen(id) % U16, usedCnt |-> Len(first) % U16,
                     data |-> copy]
        /\ StartCnt(Data(id), trailer) >= 0
    BY DEF OpenFlow, Arrives
  <1>2. traffic \in Connections /\ cache \in Node /\ U16 \in Nat /\ MAX_BUF_LEN >= U16 + 3
        /\ MAX_BUF_LEN \in Nat
    BY TypeParts, AssemblyAssumption DEF AssemblyInv
  <1>3. Len(seen') = 1 /\ seen' \in Seq(FrameIds) /\ seen'[1] = id
    BY <1>1
  <1>4. ASSUME NEW n \in DOMAIN traffic, IsPrefix(seen', IdsOf(n)), Assembles(n)
        PROVE  /\ isOpen' /\ Len(seen') < Len(traffic[n].ends)
               /\ cache'.cLen = Len(BodyOf(traffic[n]))
               /\ HoldsStartOf(cache', n,
                               traffic[n].ends[Len(seen')] - traffic[n].headerLen)
    <2> DEFINE body == BodyOf(traffic[n])
               len  == traffic[n].ends[1] - traffic[n].headerLen
    <2>1. id = <<n, 1>>
      <3> DEFINE s == seen'
      <3>1. s \in Seq(FrameIds) /\ Len(s) = 1 /\ s[1] = id /\ IsPrefix(s, IdsOf(n))
        BY <1>3, <1>4
      <3> HIDE DEF s
      <3>2. \A i \in 1 .. Len(s) : s[i] = <<n, i>>
        BY <1>2, <3>1, PrefixOfIds
      <3>3. 1 \in 1 .. Len(s)
        BY <3>1
      <3>4. s[1] = <<n, 1>>
        BY <3>2, <3>3
      <3> QED
        BY <3>1, <3>4
    <2>2. ContentLen(id) = Len(body) /\ Len(body) \in 0 .. U16 - 1
      BY <1>2, <1>4, <2>1, FirstFrameOpens
    <2>3. /\ len \in 0 .. Len(body) /\ first \in Seq(Byte) /\ Len(first) = len
          /\ \A p \in 1 .. len : first[p] = body[p]
      BY <1>1, <1>2, <1>4, <2>1, FirstFrameTaken
    <2>4. Len(traffic[n].ends) > 1
      <3>1. Len(traffic[n].ends) \in Nat
        BY <1>2, IdsOfType
      <3> QED
        BY <1>4, <3>1 DEF Assembles
    <2> HIDE DEF first
    <2>5. Len(body) % U16 = Len(body) /\ len % U16 = len
      <3>1. Len(body) \in 0 .. U16 - 1 /\ len \in 0 .. U16 - 1
        BY <1>2, <2>2, <2>3
      <3> HIDE DEF body, len
      <3> QED
        BY <1>2, <3>1
    <2>6. \A p \in 1 .. len : copy[p] = body[p]
      <3>1. Terminated(cache.data) \in Bytes
        BY <1>2, TerminatedType DEF Node
      <3>2. 0 \in Nat /\ 0 + Len(first) <= MAX_BUF_LEN
        BY <1>2, <2>2, <2>3
      <3>3. \A p \in 1 .. Len(first) : copy[0 + p] = first[p]
        BY <2>3, <3>1, <3>2, CopyToBytes
      <3> HIDE DEF copy, len, body
      <3>4. \A p \in 1 .. len : copy[p] = first[p]
        BY <2>3, <3>3
      <3> QED
        BY <2>3, <3>4
    <2>7. cache'.cLen = Len(body) /\ cache'.usedCnt = len /\ cache'.data = copy
      BY <1>1, <2>2, <2>3, <2>5
    <2>8. HoldsStartOf(cache', n, len)
      BY <2>6, <2>7 DEF HoldsStartOf
    <2> QED
      BY <1>1, <1>3, <2>4, <2>7, <2>8
  <1>5. OrderlySoFar'
    BY <1>1, <1>4, OrderlyNext
  <1> QED
    BY <1>1, <1>5, DoneStays DEF OrderlyInv

LEMMA AppendFrameOrderly ==
  ASSUME AssemblyInv, OrderlyInv, NEW id \in FrameIds, AppendFrame(id)
  PROVE  OrderlyInv'
  <1>1. /\ traffic' = traffic /\ done' = done /\ isOpen /\ isOpen' = isOpen
        /\ seen' = Append(seen, id) /\ cache' = Added(Data(id))
        /\ UsedAfter(Data(id)) # cache.cLen
    BY DEF AppendFrame, Arrives, Noted
  <1>2. Len(seen') = Len(seen) + 1 /\ traffic \in Connections
    BY <1>1, AppendProperties DEF AssemblyInv, TypeOK
  <1>3. ASSUME NEW n \in DOMAIN traffic, IsPrefix(seen', IdsOf(n)), Assembles(n)
        PROVE  /\ isOpen' /\ Len(seen') < Len(traffic[n].ends)
               /\ cache'.cLen = Len(BodyOf(traffic[n]))
               /\ HoldsStartOf(cache', n,
                               traffic[n].ends[Len(seen')] - traffic[n].headerLen)
    <2> DEFINE next == Len(seen) + 1
               len  == traffic[n].ends[next] - traffic[n].headerLen
    <2>1. /\ next \in DOMAIN traffic[n].ends
          /\ len = Len(BodyOf(traffic[n])) <=> next = Len(traffic[n].ends)
          /\ UsedAfter(Data(id)) = len /\ HoldsStartOf(cache', n, len)
          /\ cache'.cLen = cache.cLen /\ cache.cLen = Len(BodyOf(traffic[n]))
      BY <1>1, <1>3, NextFrameAdded DEF OrderlyInv
    <2>2. /\ Len(traffic[n].ends) \in Nat
          /\ DOMAIN traffic[n].ends = 1 .. Len(traffic[n].ends)
      BY <1>2, IdsOfType
    <2>3. next # Len(traffic[n].ends)
      BY <1>1, <2>1
    <2> HIDE DEF next
    <2>4. next < Len(traffic[n].ends)
      BY <2>1, <2>2, <2>3
    <2> QED
      BY <1>1, <1>2, <2>1, <2>4 DEF next
  <1>4. OrderlySoFar'
    BY <1>1, <1>3, OrderlyNext
  <1> QED
    BY <1>1, <1>4, DoneStays DEF OrderlyInv

LEMMA CompleteFlowOrderly ==
  ASSUME AssemblyInv, OrderlyInv, NEW id \in FrameIds, CompleteFlow(id)
  PROVE  OrderlyInv'
  <1> DEFINE full == Added(Data(id))
             all  == Append(seen, id)
  <1>1. /\ traffic' = traffic /\ isOpen /\ seen' = <<>>
        /\ UsedAfter(Data(id)) = cache.cLen
        /\ done' = [frames  |-> all,
                    message |-> MessageIn(full.data, MessageSpan(full.data, full.usedCnt)),
                    behind  |-> SubSeq(full.data, full.usedCnt + 1, full.usedCnt + 2)]
    BY DEF CompleteFlow, Arrives
  <1>2. traffic \in Connections /\ seen \in Seq(FrameIds)
    BY DEF AssemblyInv, TypeOK
  <1>3. ASSUME NEW n \in DOMAIN traffic, IsPrefix(all, IdsOf(n)), Assembles(n)
        PROVE  /\ all = IdsOf(n)
               /\ done'.behind \notin {Hyphens, CRLF} =>
                    done'.message = MessageIn(BodyOf(traffic[n]), traffic[n].content)
    <2> DEFINE next == Len(seen) + 1
               len  == traffic[n].ends[next] - traffic[n].headerLen
               body == BodyOf(traffic[n])
    <2>1. /\ len = Len(body) <=> next = Len(traffic[n].ends)
          /\ UsedAfter(Data(id)) = len /\ HoldsStartOf(full, n, len)
          /\ full \in Node /\ cache.cLen = Len(body)
      BY <1>1, <1>3, NextFrameAdded DEF OrderlyInv
    <2>2. len = Len(body) /\ next = Len(traffic[n].ends)
      BY <1>1, <2>1
    <2>3. all = IdsOf(n)
      <3>1. all \in Seq(FrameIds) /\ Len(all) = next
        BY <1>2, AppendProperties
      <3>2. \A i \in 1 .. Len(all) : all[i] = <<n, i>>
        BY <1>2, <1>3, <3>1, PrefixOfIds
      <3>3. /\ IdsOf(n) \in Seq(FrameIds) /\ Len(IdsOf(n)) = next
            /\ \A i \in 1 .. next : IdsOf(n)[i] = <<n, i>>
        BY <1>2, <2>2, IdsOfType
      <3> HIDE DEF all, next
      <3>4. \A i \in 1 .. Len(all) : all[i] = IdsOf(n)[i]
        BY <3>1, <3>2, <3>3
      <3> QED
        BY <3>1, <3>3, <3>4, SeqEqual
    <2>4. ASSUME done'.behind \notin {Hyphens, CRLF}
          PROVE  done'.message = MessageIn(body, traffic[n].content)
      <3>1. full.usedCnt = len /\ \A p \in 1 .. len : full.data[p] = body[p]
        BY <2>1 DEF HoldsStartOf
      <3>2. full.data \in Bytes /\ body \in Seq(Byte) /\ Len(body) \in Nat
        BY <1>2, <2>1, BodyBytes, LenProperties DEF Node
      <3>3. /\ HasOnePart(traffic[n]) /\ Len(body) < U16
            /\ traffic[n].content \in [from : Nat, upto : Nat]
        BY <1>2, <1>3, RequestType DEF Assembles, Request
      <3>4. SubSeq(full.data, len + 1, len + 2) \notin {Hyphens, CRLF}
        BY <1>1, <2>4, <3>1
      <3> DEFINE d       == full.data
                 request == traffic[n]
      <3>5. body = BodyOf(request)
        OBVIOUS
      <3> HIDE DEF full, len, body, d, request
      <3>6. MessageIn(d, MessageSpan(d, len)) = MessageIn(body, request.content)
        <4>1. len \in Nat /\ len = Len(body) /\ len < U16
          BY <2>2, <3>2, <3>3
        <4>2. /\ d \in Bytes /\ \A p \in 1 .. len : d[p] = body[p]
              /\ SubSeq(d, len + 1, len + 2) \notin {Hyphens, CRLF}
          BY <3>1, <3>2, <3>4 DEF d
        <4>3. HasOnePart(request) /\ request.content \in [from : Nat, upto : Nat]
          BY <3>3 DEF request
        <4> QED
          BY <3>2, <3>5, <4>1, <4>2, <4>3, MessageIsContent
      <3> QED
        BY <1>1, <3>1, <3>6 DEF d, request
    <2> QED
      BY <2>3, <2>4
  <1>4. OrderlyDone'
    <2> SUFFICES ASSUME NEW n \in DOMAIN traffic', done'.frames # <<>>,
                        IsPrefix(done'.frames, IdsOf(n)'), Assembles(n)'
                 PROVE  /\ done'.frames = IdsOf(n)'
                        /\ done'.behind \notin {Hyphens, CRLF} =>
                             done'.message = MessageIn(BodyOf(traffic'[n]), traffic'[n].content)
      BY DEF OrderlyDone
    <2>1. /\ n \in DOMAIN traffic /\ IdsOf(n)' = IdsOf(n) /\ Assembles(n)
          /\ done'.frames = all
      BY <1>1, RequestsStay
    <2> HIDE DEF all, full
    <2> QED
      BY <1>1, <1>3, <2>1
  <1>5. OrderlySoFar'
    BY <1>1, OrderlyNext
  <1> QED
    BY <1>4, <1>5 DEF OrderlyInv

LEMMA OrderlyInvHolds == Spec => []OrderlyInv
  <1>1. Init => OrderlyInv
    BY DEF Init, OrderlyInv, OrderlySoFar, OrderlyDone
  <1>2. AssemblyInv /\ OrderlyInv /\ [Next]_avars => OrderlyInv'
    <2> SUFFICES ASSUME AssemblyInv, OrderlyInv, [Next]_avars PROVE OrderlyInv'
      OBVIOUS
    <2>1. CASE Evict
      <3>1. traffic' = traffic /\ done' = done /\ seen' = <<>>
        BY <2>1 DEF Evict, network
      <3> QED
        BY <3>1, OrderlyNext, DoneStays DEF OrderlyInv
    <2>2. ASSUME UNCHANGED <<traffic, isOpen, cache, seen, done>> PROVE OrderlyInv'
      <3>1. OrderlySoFar'
        BY <2>2, OrderlyNext DEF OrderlyInv, OrderlySoFar, SoFar
      <3> QED
        BY <2>2, <3>1, DoneStays DEF OrderlyInv
    <2>3. CASE UNCHANGED avars
      BY <2>2, <2>3 DEF avars, network
    <2>4. ASSUME NEW id \in FrameIds, NEW trailer \in Trailers, OpenFaulted(id, trailer)
          PROVE  OrderlyInv'
      BY <2>2, <2>4 DEF OpenFaulted, network
    <2> QED
      BY <2>1, <2>3, <2>4, IgnoreFrameOrderly, NoFlowOrderly, OpenFlowOrderly,
         AppendFrameOrderly, CompleteFlowOrderly
         DEF Next, HandleFrame
  <1> QED
    BY AssemblyInvHolds, <1>1, <1>2, PTL DEF Spec

-----------------------------------------------------------------------------
(* The theorems. *)

\* The variables keep their types: counts stay in 16 bits, the node's bytes in
\* its array, whatever the frames hold and in whatever order they come
\* (HandleFrame, RecvStart and RecvFinished, packet_sniffer.cpp:178-372).
THEOREM TypeCorrect == Spec => []TypeOK
  <1>1. AssemblyInv => TypeOK
    BY DEF AssemblyInv
  <1> QED
    BY AssemblyInvHolds, <1>1, PTL

\* Unless the network repeats a frame, no frame has its bytes in two messages:
\* what RecvModify has sent never enters a flow, and what left a flow, with a
\* message or by its eviction, is not sent from the next one (HandleFrame,
\* RecvModify and RecvFinished, packet_sniffer.cpp:149-230, 280-372).
THEOREM FramesAreUsedOnce == Spec => []NoBodyTwice
  <1>1. AssemblyInv => NoBodyTwice
    BY DEF AssemblyInv
  <1> QED
    BY AssemblyInvHolds, <1>1, PTL

\* A message holds no byte that its flow did not bring (HandleFrame and
\* RecvFinished, packet_sniffer.cpp:196-222, 302-372).
THEOREM MessagesAreOwn == Spec => OwnBytesOnly
  <1>1. AssemblyInv =>
          [\A id \in FrameIds : CompleteFlow(id) =>
             LET full == Added(Data(id))
                 span == MessageSpan(full.data, full.usedCnt)
             IN  span # NoSpan => span.from .. span.upto - 1 \subseteq DOMAIN own']_avars
    BY CompleteFlowOwns
  <1> QED
    BY AssemblyInvHolds, <1>1, PTL DEF OwnBytesOnly

\* The process faults only on a frame that is cut behind the CR of a delimiter
\* (RecvStart, packet_sniffer.cpp:246-270).
THEOREM FaultsOnlyAtCuts == Spec => FaultNeedsCutDelimiter
  <1>1. AssemblyInv =>
          [aborted' # aborted =>
             \A id \in FrameIds, t \in Trailers :
               OpenFaulted(id, t) => Last(Data(id)) = CR /\ t = <<LF>> \o Hyphens]_avars
    BY FrameType, NegativeCount DEF AssemblyInv, OpenFaulted
  <1> QED
    BY AssemblyInvHolds, <1>1, PTL DEF FaultNeedsCutDelimiter

\* A request whose frames come in order to a closed flow is sent when the last of
\* them comes, and what is sent is the content of its part, whatever was in the
\* node and however the rest of the connection's frames came, if none of its frames
\* is one that HandleFrame drops for its length, as a GET, or for ParseHttp
\* (packet_sniffer.cpp:116-139; RecvStart, HandleFrame and RecvFinished, 149-372).
THEOREM OrderlyRequestsAreSent == Spec => []OrderlyIsAssembled
  <1>1. AssemblyInv /\ OrderlyInv => OrderlyIsAssembled
    <2> SUFFICES ASSUME AssemblyInv, OrderlyInv, NEW n \in DOMAIN traffic, seen = IdsOf(n)
                 PROVE  ~Assembles(n)
      BY DEF OrderlyIsAssembled, OrderlyInv, OrderlyDone
    <2>1. /\ traffic \in Connections /\ seen \in Seq(FrameIds)
          /\ Len(seen) = Len(traffic[n].ends) /\ Len(seen) \in Nat \ {0}
          /\ \A i \in 1 .. Len(traffic[n].ends) : seen[i] = <<n, i>>
      BY IdsOfType DEF AssemblyInv, TypeOK
    <2>2. seen # <<>> /\ IsPrefix(seen, IdsOf(n))
      BY <2>1, PrefixOfIds, EmptySeq
    <2> QED
      BY <2>1, <2>2 DEF OrderlyInv, OrderlySoFar
  <1> QED
    BY AssemblyInvHolds, OrderlyInvHolds, <1>1, PTL
=============================================================================
